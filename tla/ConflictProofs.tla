----------------------------- MODULE ConflictProofs -----------------------------
(***************************************************************************)
(* What is proved of GitSync and ConflictResolution, for every set of      *)
(* processes, resolvers and files, any number of edits and commits.        *)
(***************************************************************************)
EXTENDS ConflictResolution, WellFoundedInduction, TLAPS

-----------------------------------------------------------------------------
(* The operators of the model.                                               *)

\* The latest of some seconds is one of them.
LEMMA Latest ==
  ASSUME NEW S \in SUBSET Times, S # {}
  PROVE  Max(S) \in S /\ \A t \in S : Max(S) >= t
<1> DEFINE R == {ss \in Nat \X Nat : ss[1] < ss[2]}
           T == {MaxTime - t : t \in S}
<1>1. T \subseteq Nat /\ T # {}
  <2>1. \A t \in S : MaxTime - t \in Nat
    BY GitSyncAssumption DEF GitSyncAssumption, Times
  <2>2. QED
    BY <2>1
<1>2. PICK x \in T : \A y \in T : ~(<<y, x>> \in R)
  <2>1. IsWellFoundedOn(R, Nat)
    BY NatLessThanWellFounded, Zenon DEF OpToRel
  <2> HIDE DEF R, T
  <2>2. QED
    BY <1>1, <2>1, WFMin
<1>3. \A y \in T : ~(y < x)
  BY <1>1, <1>2
<1>4. PICK t \in S : x = MaxTime - t
  BY <1>2
<1>5. \A u \in S : t >= u
  BY <1>3, <1>4, GitSyncAssumption DEF GitSyncAssumption, Times
<1>6. QED
  BY <1>4, <1>5 DEF Max

\* What is in a history stays in one that goes on from it.
LEMMA HistoryGoesOn ==
  ASSUME NEW h \in Histories, NEW g \in Histories, IsPrefix(h, g)
  PROVE  \A i \in DOMAIN h : i \in DOMAIN g /\ g[i] = h[i]
BY DEF IsPrefix, Histories

LEMMA HistoryItself ==
  ASSUME NEW h \in Histories
  PROVE  IsPrefix(h, h)
BY DEF IsPrefix, Histories

LEMMA HistoryAppend ==
  ASSUME NEW h \in Histories, NEW c \in [tree : Trees, by : Procs \cup {Other}]
  PROVE  Append(h, c) \in Histories /\ IsPrefix(h, Append(h, c))
BY DEF IsPrefix, Histories

LEMMA TreeType ==
  ASSUME NEW h \in Histories
  PROVE  Tree(h) \in Trees
<1>1. CASE h = <<>>
  BY <1>1 DEF Tree, Trees, Contents
<1>2. CASE h # <<>>
  <2>1. h[Len(h)] \in [tree : Trees, by : Procs \cup {Other}]
    <3> DEFINE X == [tree : Trees, by : Procs \cup {Other}]
    <3>1. h \in Seq(X)
      BY DEF Histories
    <3> HIDE DEF X
    <3>2. h[Len(h)] \in X
      BY <1>2, <3>1
    <3>3. QED
      BY <3>2 DEF X
  <2>2. QED
    BY <1>2, <2>1 DEF Tree, Last
<1>3. QED
  BY <1>1, <1>2

\* What the last tree of a history has is in the history.
LEMMA TreeInHistory ==
  ASSUME NEW h \in Histories, NEW f \in Paths, Tree(h)[f] # Absent
  PROVE  \E i \in DOMAIN h : h[i].tree[f] = Tree(h)[f]
BY DEF Tree, Histories, Last

-----------------------------------------------------------------------------
(* Types.                                                                    *)

LEMMA NoJobType == NoJob \in Jobs /\ Len(NoJob.parent) <= MaxCommits
<1>1. NoJob.entry \in [Paths -> Entries] /\ NoJob.add \in Trees /\ NoJob.parent \in Histories
  BY DEF NoJob, NoEntry, Entries, Trees, Contents, Histories
<1>h. NoJob.held \in Triples
  BY DEF NoJob, None, Triples, Contents
<1>2. 0 \in Times /\ MaxCommits \in Nat
  BY GitSyncAssumption DEF GitSyncAssumption, Times
<1>3. Len(NoJob.parent) <= MaxCommits
  BY <1>2 DEF NoJob
<1>4. QED
  BY <1>1, <1>2, <1>3, <1>h DEF NoJob, Jobs

LEMMA JobChange ==
  ASSUME NEW j \in Jobs, NEW left \in SUBSET Paths
  PROVE  /\ [j EXCEPT !["left"] = left] \in Jobs /\ [j EXCEPT !.left = left] \in Jobs
         /\ \A entry \in [Paths -> Entries] :
              /\ [j EXCEPT !.left = left, !.entry = entry] \in Jobs
              /\ \A at \in Times : [j EXCEPT !.left = left, !.at = at, !.entry = entry] \in Jobs
BY DEF Jobs

\* The steps upon one file.
LEMMA JobSkips ==
  ASSUME NEW j \in Jobs, NEW f \in Paths
  PROVE  LET i == [j EXCEPT !["left"] = j.left \ {f}]
         IN  /\ i \in Jobs /\ i.left = j.left \ {f} /\ i.file = j.file /\ i.held = j.held
             /\ i.entry = j.entry /\ i.at = j.at /\ i.conflict = j.conflict
             /\ i.parent = j.parent /\ i.add = j.add
BY DEF Jobs

LEMMA JobParent ==
  ASSUME NEW j \in Jobs, NEW parent \in Histories
  PROVE  [j EXCEPT !["parent"] = parent] \in Jobs /\ [j EXCEPT !["parent"] = parent].parent = parent
BY DEF Jobs

LEMMA JobAdd ==
  ASSUME NEW j \in Jobs, NEW add \in Trees
  PROVE  [j EXCEPT !["add"] = add] \in Jobs /\ [j EXCEPT !["add"] = add].parent = j.parent
BY DEF Jobs

LEMMA JobsChange ==
  ASSUME GitTypeOK, NEW p \in Procs, NEW j \in Jobs, Len(j.parent) <= MaxCommits,
         job' = [job EXCEPT ![p] = j]
  PROVE  job' \in [Procs -> Jobs] /\ \A q \in Procs : Len(job'[q].parent) <= MaxCommits
BY DEF GitTypeOK

LEMMA ReturnType ==
  ASSUME GitTypeOK, NEW p \in Procs, Return(p)
  PROVE  /\ job' \in [Procs -> Jobs] /\ \A q \in Procs : Len(job'[q].parent) <= MaxCommits
         /\ pc' = [pc EXCEPT ![p] = "ready"]
BY NoJobType DEF Return, GitTypeOK

\* What may be of other types than before.
LEMMA BootTypes ==
  ASSUME GitTypeOK, NEW p \in Procs, Bootstrap(p)
  PROVE  GitTypeOK'
<1> USE DEF GitTypeOK, BootRest, Goto, BootPcs, userVars, treeVars, setupVars
<1>1. CASE Boot(p) \/ MakeDirectory(p) \/ OpenOrInit(p) \/ EnsureRemote(p)
  BY <1>1 DEF Boot, MakeDirectory, OpenOrInit, EnsureRemote
<1>2. CASE Clone(p)
  BY <1>2, TreeType DEF Clone
<1>3. QED
  BY <1>1, <1>2 DEF Bootstrap

LEMMA SyncTypes ==
  ASSUME GitTypeOK, NEW p \in Procs, Sync(p)
  PROVE  GitTypeOK'
<1> USE DEF GitTypeOK, CommitRest, Goto, CommitPcs, userVars, treeVars, setupVars, Set
<1> DEFINE JobsOK == job' \in [Procs -> Jobs] /\ \A q \in Procs : Len(job'[q].parent) <= MaxCommits
<1>j. job[p] \in Jobs /\ job[p].parent \in Histories
  BY DEF Jobs
<1>1. CASE CheckStatus(p)
  BY <1>1 DEF CheckStatus
<1>2. CASE ReadWorkTree(p)
  <2>1. JobsOK
    <3> DEFINE j == [job[p] EXCEPT !["add"] = work]
    <3>1. j \in Jobs /\ j.parent = job[p].parent
      BY <1>j, JobAdd, JobParent
    <3>2. job' = [job EXCEPT ![p] = j]
      BY <1>2 DEF ReadWorkTree
    <3> HIDE DEF j
    <3>3. QED
      BY <3>1, <3>2, JobsChange
  <2>2. QED
    BY <1>2, <2>1 DEF ReadWorkTree
<1>7. CASE ReadParent(p)
  <2>1. JobsOK
    <3> DEFINE j == [job[p] EXCEPT !["parent"] = head]
    <3>1. j \in Jobs /\ j.parent = head
      BY <1>j, JobAdd, JobParent
    <3>2. job' = [job EXCEPT ![p] = j]
      BY <1>7 DEF ReadParent
    <3> HIDE DEF j
    <3>3. QED
      BY <3>1, <3>2, JobsChange
  <2>2. QED
    BY <1>7, <2>1 DEF ReadParent
<1>3. CASE AddAll(p)
  <2>1. job[p].add \in Trees /\ NoJob.add \in Trees
    BY <1>j, NoJobType DEF Jobs
  <2>2. JobsOK
    <3> DEFINE j == [job[p] EXCEPT !["add"] = NoJob.add]
    <3>1. j \in Jobs /\ j.parent = job[p].parent
      BY <1>j, <2>1, JobAdd, JobParent
    <3>2. job' = [job EXCEPT ![p] = j]
      BY <1>3 DEF AddAll
    <3> HIDE DEF j
    <3>3. QED
      BY <3>1, <3>2, JobsChange
  <2>3. QED
    BY <1>3, <2>1, <2>2 DEF AddAll
<1>4. CASE Commit(p)
  <2>1. /\ head' \in Histories /\ Len(head') <= MaxCommits
    <3> DEFINE c == [tree |-> index, by |-> p]
    <3>1. c \in [tree : Trees, by : Procs \cup {Other}]
      OBVIOUS
    <3>2. job[p].parent \in Histories /\ Len(job[p].parent) \in Nat /\ MaxCommits \in Nat
      BY <1>j, GitSyncAssumption DEF GitSyncAssumption, Histories
    <3>3. head' = Append(job[p].parent, c) /\ Len(job[p].parent) < MaxCommits
      BY <1>4 DEF Commit
    <3>4. Len(head') = Len(job[p].parent) + 1
      BY <3>1, <3>2, <3>3 DEF Histories
    <3>5. QED
      BY <3>1, <3>2, <3>3, <3>4, HistoryAppend
  <2>2. JobsOK
    <3>1. <<>> \in Histories /\ Len(<<>>) <= MaxCommits
      BY GitSyncAssumption DEF GitSyncAssumption, Histories
    <3>2. QED
      <4> DEFINE j == [job[p] EXCEPT !["parent"] = <<>>]
      <4>1. j \in Jobs /\ j.parent = <<>>
        BY <1>j, <3>1, JobAdd, JobParent
      <4>2. job' = [job EXCEPT ![p] = j]
        BY <1>4 DEF Commit
      <4> HIDE DEF j
      <4>3. QED
        BY <3>1, <4>1, <4>2, JobsChange
  <2>3. QED
    BY <1>4, <2>1, <2>2 DEF Commit
<1>5. CASE Push(p)
  BY <1>5, ReturnType DEF Push
<1>6. QED
  BY <1>1, <1>2, <1>3, <1>4, <1>5, <1>7 DEF Sync

LEMMA ResetTypes ==
  ASSUME GitTypeOK, NEW tree \in Trees, ResetTo(tree)
  PROVE  index' \in Trees /\ work' \in Trees
BY DEF ResetTo, GitTypeOK, Trees

LEMMA ArtifactTypes ==
  ASSUME GitTypeOK, NEW p \in Procs, NEW version \in {"remote", "base", "local"},
         NEW c \in Contents, WriteArtifact(p, version, c)
  PROVE  arts' \in [Times -> [Paths -> Triples]]
<1> DEFINE t == job[p].at
           f == job[p].file
<1>1. \A u \in Times, g \in Paths : arts[u][g] \in Triples
  BY DEF GitTypeOK
<1>2. \A u \in Times, g \in Paths : [arts[u][g] EXCEPT ![version] = c] \in Triples
  BY <1>1 DEF Triples
<1>3. arts' = [arts EXCEPT ![t] = [arts[t] EXCEPT ![f] = [arts[t][f] EXCEPT ![version] = c]]]
  BY DEF WriteArtifact
<1>4. CASE f \in Paths
  <2>1. [arts[t][f] EXCEPT ![version] = c] \in Triples
    BY <1>2, <1>4 DEF GitTypeOK, Jobs
  <2> DEFINE x == [arts[t][f] EXCEPT ![version] = c]
  <2> HIDE DEF x, t, f
  <2>2. QED
    BY <1>3, <2>1 DEF GitTypeOK, x
<1>5. CASE f \notin Paths
  <2> DEFINE x == [arts[t][f] EXCEPT ![version] = c]
  <2> HIDE DEF x, t, f
  <2>1. QED
    BY <1>3, <1>5 DEF GitTypeOK, x
<1>6. QED
  BY <1>4, <1>5

LEMMA PulledTypes ==
  ASSUME GitTypeOK, NEW p \in Procs, Pulled(p)
  PROVE  /\ job' \in [Procs -> Jobs] /\ \A q \in Procs : Len(job'[q].parent) <= MaxCommits
         /\ \E next \in {"ready", "apply"} : pc' = [pc EXCEPT ![p] = next]
<1>1. CASE Return(p)
  BY <1>1, ReturnType
<1>2. CASE Goto(p, "pull", "apply") /\ Set(p, "left", Stashed(p))
  <2>1. job' = [job EXCEPT ![p] = [@ EXCEPT !["left"] = Stashed(p)]] /\ Stashed(p) \subseteq Paths
    BY <1>2 DEF Set, Stashed
  <2>2. PICK j : j = [job[p] EXCEPT !["left"] = Stashed(p)]
    OBVIOUS
  <2>3. job[p] \in Jobs /\ Len(job[p].parent) <= MaxCommits
    BY DEF GitTypeOK
  <2>4. j \in Jobs /\ Len(j.parent) <= MaxCommits
    BY <2>1, <2>2, <2>3 DEF Jobs
  <2>5. job' = [job EXCEPT ![p] = j]
    BY <2>1, <2>2
  <2>6. job' \in [Procs -> Jobs] /\ \A q \in Procs : Len(job'[q].parent) <= MaxCommits
    BY <2>4, <2>5, JobsChange
  <2>7. QED
    BY <1>2, <2>6 DEF Goto
<1>3. QED
  BY <1>1, <1>2 DEF Pulled

LEMMA PullTypes ==
  ASSUME GitTypeOK, NEW p \in Procs, Pull(p)
  PROVE  GitTypeOK'
<1> USE DEF GitTypeOK, PullRest, Goto, StashPcs, ApplyPcs, userVars, treeVars, setupVars
<1> DEFINE JobsOK == job' \in [Procs -> Jobs] /\ \A q \in Procs : Len(job'[q].parent) <= MaxCommits
<1>j. /\ job[p] \in Jobs /\ job[p].left \subseteq Paths /\ job[p].entry \in [Paths -> Entries]
      /\ job[p].at \in Times
  BY DEF Jobs
<1>1. CASE PullStatus(p)
  <2>1. [kind |-> "deleted", base |-> FALSE] \in Entries /\ NoEntry \in Entries
    BY DEF Entries, NoEntry
  <2>2. Dirty \subseteq Paths
    BY DEF Dirty
  <2>3. JobsOK
    <3> DEFINE e == [f \in Paths |-> IF f \in Dirty /\ work[f] = Absent
                                    THEN [kind |-> "deleted", base |-> FALSE] ELSE NoEntry]
               j == [job[p] EXCEPT !.left = Dirty, !.at = now, !.entry = e]
    <3>1. e \in [Paths -> Entries]
      BY <2>1
    <3>2. CASE Dirty = {}
      BY <1>1, <3>2 DEF PullStatus
    <3>3. CASE Dirty # {}
      <4>1. job' = [job EXCEPT ![p] = j]
        BY <1>1, <3>3 DEF PullStatus
      <4>2. j \in Jobs
        BY <1>j, <2>2, <3>1, JobChange
      <4>3. j.parent = job[p].parent
        BY <1>j DEF Jobs
      <4> HIDE DEF j
      <4>4. QED
        BY <4>1, <4>2, <4>3, JobsChange
    <3>4. QED
      BY <3>2, <3>3
  <2>4. QED
    BY <1>1, <2>3 DEF PullStatus
<1>2. ASSUME NEW f \in Paths, StashFile(p, f) PROVE GitTypeOK'
  <2>1. work[f] \in Contents /\ Tree(head)[f] \in Contents /\ job[p].at \in Times
    BY TreeType DEF Trees, Jobs
  <2>2. stash' \in [Times -> [Paths -> [local : Contents, base : Contents]]]
    BY <1>2, <2>1 DEF StashFile
  <2>3. JobsOK
    <3>1. PICK x \in Entries : job' = [job EXCEPT ![p].left = @ \ {f}, ![p].entry[f] = x]
      <4> DEFINE x == [kind |-> IF job[p].entry[f].kind = "deleted" \/ work[f] = Absent
                               THEN "deleted" ELSE "copy",
                       base |-> Tree(head)[f] # Absent]
      <4>1. x \in Entries
        BY DEF Entries
      <4>2. job' = [job EXCEPT ![p].left = @ \ {f}, ![p].entry[f] = x]
        BY <1>2 DEF StashFile
      <4> HIDE DEF x
      <4>3. QED
        BY <4>1, <4>2
    <3> DEFINE e == [job[p].entry EXCEPT ![f] = x]
               j == [job[p] EXCEPT !.left = @ \ {f}, !.entry = e]
    <3>2. e \in [Paths -> Entries]
      BY <1>j
    <3>3. j = [job[p] EXCEPT !.left = job[p].left \ {f}, !.entry = e]
      BY <1>j DEF Jobs
    <3>4. j \in Jobs
      BY <1>j, <3>2, <3>3, JobChange
    <3>5. job' = [job EXCEPT ![p] = j]
      BY <1>j, <3>1 DEF Jobs
    <3>6. j.parent = job[p].parent
      BY <1>j DEF Jobs
    <3> HIDE DEF j
    <3>7. QED
      BY <3>4, <3>5, <3>6, JobsChange
  <2>4. QED
    BY <1>2, <2>2, <2>3 DEF StashFile
<1>3. CASE Reset(p)
  BY <1>3, TreeType, ResetTypes DEF Reset
<1>4. CASE UpToDate(p)
  BY <1>4, PulledTypes DEF UpToDate
<1>5. CASE FastForward(p)
  BY <1>5, PulledTypes, TreeType, ResetTypes DEF FastForward
<1>6. CASE PullRefused(p)
  BY <1>6, ReturnType DEF PullRefused
<1>7. ASSUME NEW f \in Paths, Decide(p, f) PROVE GitTypeOK'
  <2>1. /\ work[f] \in Contents /\ Ours(p, f) \in Contents
        /\ stash[job[p].at][f].base \in Contents /\ {LocalGone, RemoteGone, Absent} \subseteq Contents
    BY <1>j DEF Ours, Contents, Files, Trees
  <2>2. JobsOK /\ \E next \in StashPcs : pc' = [pc EXCEPT ![p] = next]
    <3>1. CASE Goto(p, "apply", "apply") /\ Set(p, "left", job[p].left \ {f})
      <4>1. job' = [job EXCEPT ![p] = [job[p] EXCEPT !["left"] = job[p].left \ {f}]]
        BY <3>1 DEF Set
      <4>2. JobsOK
        <5>1. PICK i : i = [job[p] EXCEPT !["left"] = job[p].left \ {f}]
          OBVIOUS
        <5>2. i \in Jobs /\ i.parent = job[p].parent
          BY <1>j, <5>1, JobSkips
        <5>3. job' = [job EXCEPT ![p] = i]
          BY <4>1, <5>1
        <5>4. QED
          BY <5>2, <5>3, JobsChange
      <4>3. QED
        BY <3>1, <4>2 DEF ApplyPcs
    <3>2. ASSUME NEW next \in {"replace", "copyRemote"}, NEW held \in Triples, Takes(p, f, next, held)
          PROVE  JobsOK /\ pc' = [pc EXCEPT ![p] = next]
      <4>1. PICK i : i = [job[p] EXCEPT !.left = @ \ {f}, !.file = f, !.held = held]
        OBVIOUS
      <4>2. i \in Jobs /\ i.parent = job[p].parent
        BY <1>j, <3>2, <4>1 DEF Jobs
      <4>3. job' = [job EXCEPT ![p] = i]
        BY <3>2, <4>1 DEF Takes
      <4>4. QED
        BY <3>2, <4>2, <4>3, JobsChange DEF Takes
    <3>3. [None EXCEPT !.local = Ours(p, f)] \in Triples
      BY <2>1 DEF None, Triples
    <3>4. ASSUME NEW x \in Contents, NEW y \in Contents, NEW z \in Contents
          PROVE  [remote |-> x, base |-> y, local |-> z] \in Triples
      BY DEF Triples
    <3>5. QED
      BY <1>7, <2>1, <3>1, <3>2, <3>3, <3>4 DEF Decide, ApplyPcs, ArtifactPcs
  <2>3. UNCHANGED <<work, index, head, stash, arts, setupVars, remote, now, userVars>>
    BY <1>7 DEF Decide, ApplyRest
  <2>4. QED
    BY <2>2, <2>3
<1>h. /\ job[p].held \in Triples /\ job[p].held.local \in Contents /\ job[p].held.remote \in Contents
      /\ job[p].held.base \in Contents /\ Empty \in Contents
  BY DEF Jobs, Triples, Contents, Files
<1>n. ASSUME NEW c \in BOOLEAN, NextFile(p, c)
      PROVE  JobsOK /\ pc' = [pc EXCEPT ![p] = "apply"]
  <2>1. PICK i : i = [job[p] EXCEPT !.file = "", !.held = None, !.conflict = c]
    OBVIOUS
  <2>n. None \in Triples
    BY DEF None, Triples, Contents
  <2>2. i \in Jobs /\ i.parent = job[p].parent
    BY <1>j, <1>n, <2>1, <2>n DEF Jobs
  <2>3. job' = [job EXCEPT ![p] = i]
    BY <1>n, <2>1 DEF NextFile
  <2>4. QED
    BY <1>n, <2>2, <2>3, JobsChange DEF NextFile
<1>8. CASE Replace(p)
  <2>1. work' \in Trees /\ job[p].conflict \in BOOLEAN
    BY <1>8, <1>h, <1>j DEF Replace, Trees, Jobs
  <2>2. QED
    BY <1>8, <1>n, <2>1 DEF Replace, ApplyRest, ApplyPcs
<1>11. CASE CopyRemote(p) \/ CopyBase(p)
  <2>1. arts' \in [Times -> [Paths -> Triples]]
    BY <1>11, <1>h, ArtifactTypes DEF CopyRemote, CopyBase
  <2>2. QED
    BY <1>11, <2>1 DEF CopyRemote, CopyBase, ArtifactRest, ApplyRest, ApplyPcs, ArtifactPcs
<1>12. CASE CopyLocal(p)
  <2>1. arts' \in [Times -> [Paths -> Triples]]
    BY <1>12, <1>h, ArtifactTypes DEF CopyLocal
  <2>2. QED
    BY <1>12, <1>n, <2>1 DEF CopyLocal, ArtifactRest, ApplyRest, ApplyPcs
<1>13. CASE ApplyFails(p)
  <2>1. work' \in Trees
    BY <1>13, <1>h DEF ApplyFails, Truncates, Trees
  <2>2. arts' \in [Times -> [Paths -> Triples]]
    BY <1>13, <1>h, ArtifactTypes DEF ApplyFails, Truncates
  <2>3. QED
    BY <1>13, <2>1, <2>2, ReturnType DEF ApplyFails, ApplyRest
<1>9. CASE Applied(p)
  <2>1. NoStash \in [local : Contents, base : Contents]
    BY DEF NoStash, Contents
  <2>2. stash' \in [Times -> [Paths -> [local : Contents, base : Contents]]]
    BY <1>9, <2>1 DEF Applied
  <2>3. QED
    BY <1>9, <2>2, ReturnType DEF Applied
<1>10. QED
  BY <1>1, <1>2, <1>3, <1>4, <1>5, <1>6, <1>7, <1>8, <1>9, <1>11, <1>12, <1>13 DEF Pull

LEMMA OtherTypes ==
  ASSUME GitTypeOK,
         \/ \E p \in Procs : Stop(p)
         \/ \E f \in Paths : \/ \E c \in UserWrites : Edit(f, c)
                            \/ \E c \in OtherWrites : RemoteCommit(f, c)
         \/ Tick
  PROVE  GitTypeOK'
<1> USE DEF GitTypeOK, processVars, userVars, treeVars, setupVars
<1>w. UserWrites \cup OtherWrites \subseteq Contents
  BY GitSyncAssumption DEF GitSyncAssumption, Contents, Files
<1>1. ASSUME NEW p \in Procs, Stop(p) PROVE GitTypeOK'
  <2>1. CASE pc[p] \in BootPcs
    BY <1>1, <2>1 DEF Stop, Goto
  <2>2. CASE pc[p] \notin BootPcs
    BY <1>1, <2>2, ReturnType DEF Stop
  <2>3. QED
    BY <2>1, <2>2
<1>2. ASSUME NEW f \in Paths, NEW c \in UserWrites, Edit(f, c) PROVE GitTypeOK'
  <2>1. edits' \in 0..MaxEdits /\ Len(head) \in 0..MaxCommits
    BY <1>2, GitSyncAssumption DEF Edit, GitSyncAssumption, Histories
  <2>2. work' \in Trees /\ mine' \in [Paths -> Contents]
    BY <1>2, <1>w DEF Edit, Trees, Contents
  <2>3. QED
    BY <1>2, <2>1, <2>2 DEF Edit
<1>3. ASSUME NEW f \in Paths, NEW c \in OtherWrites, RemoteCommit(f, c) PROVE GitTypeOK'
  <2> DEFINE x == [tree |-> [Tree(remote) EXCEPT ![f] = c], by |-> Other]
  <2>1. x \in [tree : Trees, by : Procs \cup {Other}]
    BY <1>w, TreeType DEF Trees
  <2>2. remote' = Append(remote, x) /\ Len(remote) < MaxCommits
    BY <1>3 DEF RemoteCommit
  <2>3. Len(remote') = Len(remote) + 1 /\ Len(remote) \in Nat
    BY <2>1, <2>2 DEF Histories
  <2>4. remote' \in Histories
    <3> HIDE DEF x
    <3>1. QED
      BY <2>1, <2>2, HistoryAppend
  <2>5. Len(remote') <= MaxCommits
    BY <2>2, <2>3, GitSyncAssumption DEF GitSyncAssumption
  <2>6. QED
    BY <1>3, <2>4, <2>5 DEF RemoteCommit
<1>4. CASE Tick
  BY <1>4, GitSyncAssumption DEF Tick, GitSyncAssumption, Times
<1>5. QED
  BY <1>1, <1>2, <1>3, <1>4

LEMMA GitTypes == GitTypeOK /\ GitNext => GitTypeOK'
BY BootTypes, SyncTypes, PullTypes, OtherTypes DEF GitNext

LEMMA NoTaskType == NoTask \in Tasks
<1>1. 0 \in Times
  BY GitSyncAssumption DEF GitSyncAssumption, Times
<1>2. QED
  BY <1>1 DEF NoTask, Tasks, Versions

LEMMA InitTypes == Init => TypeOK
<1> SUFFICES ASSUME Init PROVE TypeOK
  OBVIOUS
<1>1. <<>> \in Histories /\ OtherWrites \subseteq Contents /\ Absent \in Contents /\ 0 \in Times
  BY GitSyncAssumption DEF GitSyncAssumption, Histories, Contents, Files, Times
<1>2. \A h \in {head, remote} : h \in Histories /\ Len(h) <= MaxCommits
  <2>1. ASSUME NEW t \in [Paths -> OtherWrites]
        PROVE  <<[tree |-> t, by |-> Other]>> \in Histories /\ Len(<<[tree |-> t, by |-> Other]>>) = 1
    <3>1. [tree |-> t, by |-> Other] \in [tree : Trees, by : Procs \cup {Other}]
      BY <1>1 DEF Trees
    <3>2. QED
      BY <3>1 DEF Histories
  <2>2. remote \in Histories /\ Len(remote) <= MaxCommits
    <3>1. MaxCommits \in Nat /\ MaxCommits >= 1
      BY GitSyncAssumption DEF GitSyncAssumption
    <3>2. \/ remote = <<>>
          \/ \E t \in [Paths -> OtherWrites] : remote = <<[tree |-> t, by |-> Other]>>
      BY DEF Init, GitInit
    <3>3. CASE remote = <<>>
      BY <1>1, <3>1, <3>3
    <3>4. ASSUME NEW t \in [Paths -> OtherWrites], remote = <<[tree |-> t, by |-> Other]>>
          PROVE  remote \in Histories /\ Len(remote) <= MaxCommits
      <4>1. remote \in Histories /\ Len(remote) = 1
        BY <2>1, <3>4
      <4>2. QED
        BY <3>1, <4>1
    <3>5. QED
      BY <3>2, <3>3, <3>4
  <2>3. QED
    BY <1>1, <2>2, GitSyncAssumption DEF Init, GitInit, GitSyncAssumption
<1>3. Tree(head) \in Trees
  BY <1>2, TreeType
<1>4. stash \in [Times -> [Paths -> [local : Contents, base : Contents]]]
  BY <1>1 DEF Init, GitInit, NoStash
<1>5. arts \in [Times -> [Paths -> Triples]]
  BY <1>1 DEF Init, GitInit, None, Triples
<1>6. GitTypeOK
  BY <1>1, <1>2, <1>3, <1>4, <1>5, NoJobType, GitSyncAssumption
     DEF Init, GitInit, GitTypeOK, GitSyncAssumption
<1>8. QED
  BY <1>1, <1>6, NoTaskType, ConflictAssumption DEF Init, TypeOK, ConflictAssumption, Trees, Steps

\* A resolver that is at work has a file, and copies one of its two versions.
TaskInv ==
  \A r \in Resolvers :
    /\ step[r] \in {"copy", "local", "remote", "base"} => task[r].file \in Paths
    /\ step[r] = "copy" => task[r].choice \in {"local", "remote"}

TypeInv == TypeOK /\ TaskInv

LEMMA ResolverTypes ==
  ASSUME TypeInv, NEW r \in Resolvers, Resolver(r)
  PROVE  TypeOK'
<1> USE DEF TypeInv, TypeOK, GitTypeOK, gitVars, vars, processVars, userVars, treeVars, setupVars
<1>t. task[r] \in Tasks /\ Absent \in Contents /\ Empty \in Contents /\ NoTask \in Tasks
  BY NoTaskType DEF Contents, Files
<1>1. ASSUME NEW choice \in Versions, Resolve(r, choice) PROVE TypeOK'
  <2>1. task' \in [Resolvers -> Tasks]
    <3>1. PICK files \in SUBSET Paths :
            task' = [task EXCEPT ![r] = [NoTask EXCEPT !.choice = choice, !.files = files]]
      <4>1. PICK files \in {{f} : f \in Paths} \cup {GetConflicts} :
              task' = [task EXCEPT ![r] = [NoTask EXCEPT !.choice = choice, !.files = files]]
        BY <1>1, Zenon DEF Resolve
      <4>2. files \in SUBSET Paths
        BY DEF GetConflicts
      <4>3. QED
        BY <4>1, <4>2
    <3>2. [NoTask EXCEPT !.choice = choice, !.files = files] \in Tasks
      BY <1>t DEF Tasks
    <3>3. QED
      BY <3>1, <3>2
  <2>2. resolves' \in 0..MaxResolves
    BY <1>1, ConflictAssumption DEF Resolve, ConflictAssumption
  <2>3. QED
    BY <1>1, <2>1, <2>2 DEF Resolve, Moves, Steps
<1>2. ASSUME NEW f \in Paths, Find(r, f) PROVE TypeOK'
  <2>1. Dirs(f) # {} => Max(Dirs(f)) \in Times
    <3>1. Dirs(f) \in SUBSET Times
      BY DEF Dirs
    <3>2. QED
      BY <3>1, Latest
  <2>2. task' \in [Resolvers -> Tasks]
    <3> DEFINE m == Max(Dirs(f))
    <3>1. /\ [task[r] EXCEPT !.files = task[r].files \ {f}] \in Tasks
          /\ Dirs(f) # {} => [task[r] EXCEPT !.files = task[r].files \ {f}, !.file = f, !.at = m] \in Tasks
      <4>1. Dirs(f) # {} => m \in Times
        BY <2>1
      <4> HIDE DEF m
      <4>2. QED
        BY <1>t, <4>1 DEF Tasks
    <3>2. \/ task' = [task EXCEPT ![r] = [task[r] EXCEPT !.files = task[r].files \ {f}]]
          \/ /\ Dirs(f) # {}
             /\ task' = [task EXCEPT ![r] = [task[r] EXCEPT !.files = task[r].files \ {f},
                                                           !.file = f, !.at = m]]
      <4> HIDE DEF m
      <4>1. QED
        BY <1>2, <1>t DEF Find, Tasks, m
    <3> HIDE DEF m
    <3>3. QED
      BY <3>1, <3>2
  <2>3. mine' \in [Paths -> Contents]
    BY <1>2, <1>t DEF Find
  <2>4. step' \in [Resolvers -> Steps]
    BY <1>2 DEF Find, Steps
  <2>5. QED
    BY <1>2, <2>2, <2>3, <2>4 DEF Find
<1>3. ASSUME NEW c \in {Version(r), Empty}, CopyFile(r, c), step[r] = "copy",
             NEW s \in Steps, step' = [step EXCEPT ![r] = s]
      PROVE  TypeOK'
  <2> DEFINE f == task[r].file
  <2>f. f \in Paths /\ task[r].at \in Times /\ task[r].choice \in {"local", "remote"}
    BY <1>3, <1>t DEF Tasks, TaskInv
  <2>1. Version(r) \in Contents
    <3>1. arts[task[r].at][f] \in Triples
      BY <2>f
    <3>2. QED
      BY <2>f, <3>1 DEF Version, Triples
  <2>2. work' \in Trees /\ home' \in Trees
    <3>1. c \in Contents
      BY <1>3, <1>t, <2>1
    <3>2. \/ work' = [work EXCEPT ![f] = c] /\ UNCHANGED home
          \/ home' = [home EXCEPT ![f] = c] /\ UNCHANGED work
      BY <1>3 DEF CopyFile
    <3> HIDE DEF f
    <3>3. QED
      BY <3>1, <3>2 DEF Trees
  <2>3. mine' \in [Paths -> Contents]
    BY <1>3, <1>t, <2>1 DEF CopyFile
  <2>4. basis' \in [Paths -> 0..MaxCommits]
    <3>1. Len(head) \in 0..MaxCommits
      BY GitSyncAssumption DEF GitSyncAssumption, Histories
    <3>2. QED
      BY <1>3, <3>1 DEF CopyFile
  <2>5. QED
    BY <1>3, <2>2, <2>3, <2>4 DEF CopyFile
<1>4. CASE Copy(r) \/ CopyFails(r)
  BY <1>3, <1>4 DEF Copy, CopyFails, Moves, Steps
<1>5. ASSUME NEW kind \in {"local", "remote", "base"}, NEW next \in Steps, RemoveArtifact(r, kind, next)
      PROVE  TypeOK'
  <2>1. arts' \in [Times -> [Paths -> Triples]]
    <3> DEFINE X == Triples
               x == arts[task[r].at][task[r].file]
    <3>1. task[r].at \in Times /\ task[r].file \in Paths
      BY <1>5, <1>t DEF RemoveArtifact, Moves, TaskInv, Tasks
    <3>2. [x EXCEPT ![kind] = Absent] \in X
      <4>1. x \in X /\ Absent \in Contents
        BY <3>1, <1>t
      <4> HIDE DEF x
      <4>2. [x EXCEPT !["local"] = Absent] \in X
        BY <4>1 DEF Triples
      <4>3. [x EXCEPT !["remote"] = Absent] \in X
        BY <4>1 DEF Triples
      <4>4. [x EXCEPT !["base"] = Absent] \in X
        BY <4>1 DEF Triples
      <4>5. QED
        BY <1>5, <4>2, <4>3, <4>4
    <3>3. arts' = [arts EXCEPT ![task[r].at][task[r].file] = [x EXCEPT ![kind] = Absent]]
      BY <1>5 DEF RemoveArtifact
    <3> HIDE DEF X, x
    <3>4. arts \in [Times -> [Paths -> X]]
      BY DEF X
    <3>5. arts' \in [Times -> [Paths -> X]]
      BY <3>1, <3>2, <3>3, <3>4
    <3>6. QED
      BY <3>5 DEF X
  <2>2. QED
    BY <1>5, <2>1 DEF RemoveArtifact, Moves
<1>6. CASE RemoveArtifacts(r)
  BY <1>5, <1>6 DEF RemoveArtifacts, Steps
<1>7. CASE Resolved(r)
  BY <1>7, <1>t DEF Resolved, Moves, Steps
<1>8. CASE Abandon(r)
  BY <1>8, <1>t DEF Abandon, Moves, Steps
<1>9. QED
  BY <1>1, <1>2, <1>4, <1>6, <1>7, <1>8 DEF Resolver

LEMMA TasksKept == TypeInv /\ [Next]_allVars => TaskInv'
<1> SUFFICES ASSUME TypeInv, [Next]_allVars PROVE TaskInv'
  OBVIOUS
<1> USE DEF TypeInv, TypeOK, TaskInv
<1>1. CASE UNCHANGED resolveVars
  BY <1>1 DEF resolveVars
<1>2. ASSUME NEW r \in Resolvers, Resolver(r) PROVE TaskInv'
  <2>1. ASSUME NEW choice \in Versions, Resolve(r, choice) PROVE TaskInv'
    BY <2>1 DEF Resolve, Moves
  <2>2. ASSUME NEW f \in Paths, Find(r, f) PROVE TaskInv'
    <3>1. task[r] \in Tasks /\ step[r] = "find"
      BY <2>2 DEF Find
    <3>2. \A q \in Resolvers \ {r} : step'[q] = step[q] /\ task'[q] = task[q]
      BY <2>2 DEF Find
    <3>3. CASE step' = step
      BY <2>2, <3>1, <3>2, <3>3
    <3>4. CASE step' # step
      <4>1. task[r].choice \in Versions
        BY <3>1 DEF Tasks
      <4>2. step'[r] = IF task[r].choice = "mark" THEN "local" ELSE "copy"
        BY <2>2, <3>4 DEF Find
      <4>3. task'[r].file = f /\ task'[r].choice = task[r].choice
        <5>1. PICK m : task' = [task EXCEPT ![r].files = @ \ {f}, ![r].file = f, ![r].at = m]
          BY <2>2, <3>4, Zenon DEF Find
        <5>2. QED
          BY <3>1, <5>1 DEF Tasks
      <4>4. QED
        BY <3>2, <4>1, <4>2, <4>3 DEF Versions
    <3>5. QED
      BY <3>3, <3>4
  <2>3. CASE Copy(r) \/ CopyFails(r)
    BY <2>3 DEF Copy, CopyFails, Moves, CopyFile
  <2>4. CASE RemoveArtifacts(r)
    BY <2>4 DEF RemoveArtifacts, RemoveArtifact, Moves
  <2>5. CASE Resolved(r) \/ Abandon(r)
    BY <2>5 DEF Resolved, Abandon, Moves
  <2>6. QED
    BY <1>2, <2>1, <2>2, <2>3, <2>4, <2>5 DEF Resolver
<1>3. QED
  BY <1>1, <1>2 DEF Next, allVars

LEMMA TypesKept == TypeInv /\ [Next]_allVars => TypeInv'
<1> SUFFICES ASSUME TypeInv, [Next]_allVars PROVE TypeOK'
  BY TasksKept DEF TypeInv
<1> USE DEF TypeInv
<1>1. CASE GitNext /\ UNCHANGED resolveVars
  BY <1>1, GitTypes DEF TypeOK, resolveVars
<1>2. CASE \E r \in Resolvers : Resolver(r)
  BY <1>2, ResolverTypes
<1>3. CASE UNCHANGED allVars
  BY <1>3 DEF TypeOK, GitTypeOK, allVars, vars, resolveVars, processVars, userVars, treeVars, setupVars
<1>4. QED
  BY <1>1, <1>2, <1>3 DEF Next

\* The trees, the histories, the stashes, the artifacts and what every process
\* and every resolver remembers are what their comments say, at all times.
THEOREM TypeCorrect == Spec => []TypeOK
<1>1. Init => TypeInv
  BY InitTypes DEF TypeInv, TaskInv, Init
<1>2. TypeInv => TypeOK
  BY DEF TypeInv
<1>3. QED
  BY <1>1, <1>2, TypesKept, PTL DEF Spec
-----------------------------------------------------------------------------
(* What every process keeps to.                                              *)

\* The writes of a process that applies its stash.
WritePcs == {"replace"} \cup ArtifactPcs

\* Only a puller stashes; away from a pull it has no stash, and before the stash
\* is applied there is no conflict; what is left to apply, and the file that is
\* being written, have been stashed; a conflict has a local and a remote version.
Rests(p) ==
  /\ pc[p] \in StashPcs => p \in Pullers
  /\ pc[p] \notin StashPcs => Stashed(p) = {}
  /\ pc[p] \notin ApplyPcs => ~job[p].conflict
  /\ pc[p] \in ApplyPcs => job[p].left \subseteq Stashed(p)
  /\ pc[p] \in WritePcs => job[p].file \in Stashed(p) \ job[p].left
  /\ pc[p] \in ArtifactPcs => job[p].held.local # Absent /\ job[p].held.remote # Absent
RestInv == \A p \in Procs : Rests(p)

\* Where a process can be.
LEMMA PcSets ==
  /\ ApplyPcs = {"apply"} \cup WritePcs /\ ApplyPcs \subseteq StashPcs
  /\ StashPcs = {"stash", "pull", "apply", "replace", "copyRemote", "copyBase", "copyLocal"}
  /\ WritePcs = {"replace", "copyRemote", "copyBase", "copyLocal"}
  /\ ArtifactPcs = {"copyRemote", "copyBase", "copyLocal"}
BY DEF WritePcs, ApplyPcs, StashPcs, ArtifactPcs

\* The others stay where they are.
LEMMA RestStep ==
  ASSUME TypeOK, RestInv, NEW p \in Procs,
         \A q \in Procs \ {p} : pc'[q] = pc[q] /\ job'[q] = job[q],
         Rests(p)'
  PROVE  RestInv'
BY DEF RestInv, Rests, Stashed

\* The steps of a pull upon one file.
LEMMA DecideJob ==
  ASSUME TypeOK, NEW p \in Procs, NEW f \in Paths, Decide(p, f)
  PROVE  /\ pc[p] = "apply" /\ f \in job[p].left
         /\ job'[p].left = job[p].left \ {f} /\ job'[p].entry = job[p].entry
         /\ job'[p].at = job[p].at /\ job'[p].conflict = job[p].conflict
         /\ job'[p].parent = job[p].parent /\ job'[p].add = job[p].add
         /\ \A q \in Procs \ {p} : pc'[q] = pc[q] /\ job'[q] = job[q]
         /\ \/ pc'[p] = "apply" /\ Fate(p, f) = "keep"
            \/ /\ pc'[p] = "replace" /\ Fate(p, f) = "write"
               /\ job'[p].file = f /\ job'[p].held.local = Ours(p, f)
            \/ /\ pc'[p] = "copyRemote" /\ Fate(p, f) = "conflict" /\ job'[p].file = f
               /\ job'[p].held.local = IF Ours(p, f) = Absent THEN LocalGone ELSE Ours(p, f)
               /\ job'[p].held.remote = IF work[f] \in {Absent, Empty} THEN RemoteGone ELSE work[f]
<1>j. job[p] \in Jobs /\ job \in [Procs -> Jobs] /\ p \in DOMAIN pc
  BY DEF TypeOK, GitTypeOK
<1>1. CASE Fate(p, f) = "keep" /\ Goto(p, "apply", "apply") /\ Set(p, "left", job[p].left \ {f})
  <2>1. job' = [job EXCEPT ![p] = [job[p] EXCEPT !["left"] = job[p].left \ {f}]]
    BY <1>1 DEF Set
  <2>2. PICK i : i = [job[p] EXCEPT !["left"] = job[p].left \ {f}]
    OBVIOUS
  <2>3. job'[p] = i /\ \A q \in Procs \ {p} : job'[q] = job[q]
    BY <1>j, <2>1, <2>2
  <2>4. /\ i.left = job[p].left \ {f} /\ i.entry = job[p].entry /\ i.at = job[p].at
        /\ i.conflict = job[p].conflict /\ i.parent = job[p].parent /\ i.add = job[p].add
    BY <1>j, <2>2, JobSkips
  <2>5. f \in job[p].left
    BY DEF Decide
  <2>6. pc[p] = "apply" /\ pc'[p] = "apply" /\ \A q \in Procs \ {p} : pc'[q] = pc[q]
    BY <1>1, <1>j DEF Goto
  <2>7. QED
    BY <1>1, <2>3, <2>4, <2>5, <2>6
<1>2. ASSUME NEW next, NEW held \in Triples, Takes(p, f, next, held)
      PROVE  /\ pc[p] = "apply" /\ pc'[p] = next
             /\ job'[p].left = job[p].left \ {f} /\ job'[p].entry = job[p].entry
             /\ job'[p].at = job[p].at /\ job'[p].conflict = job[p].conflict
             /\ job'[p].parent = job[p].parent /\ job'[p].add = job[p].add
             /\ job'[p].file = f /\ job'[p].held = held
             /\ \A q \in Procs \ {p} : pc'[q] = pc[q] /\ job'[q] = job[q]
  <2>1. PICK i : i = [job[p] EXCEPT !.left = @ \ {f}, !.file = f, !.held = held]
    OBVIOUS
  <2>2. job' = [job EXCEPT ![p] = i]
    BY <1>2, <2>1 DEF Takes
  <2>3. job'[p] = i /\ \A q \in Procs \ {p} : job'[q] = job[q]
    BY <1>j, <2>2
  <2>4. /\ i.left = job[p].left \ {f} /\ i.entry = job[p].entry /\ i.at = job[p].at
        /\ i.conflict = job[p].conflict /\ i.parent = job[p].parent /\ i.add = job[p].add
        /\ i.file = f /\ i.held = held
    BY <1>j, <1>2, <2>1 DEF Jobs
  <2>6. pc[p] = "apply" /\ pc'[p] = next /\ \A q \in Procs \ {p} : pc'[q] = pc[q]
    BY <1>2, <1>j DEF Takes, Goto
  <2>7. QED
    BY <2>3, <2>4, <2>6
<1>3. /\ work[f] \in Contents /\ Ours(p, f) \in Contents
      /\ stash[job[p].at][f].base \in Contents /\ {LocalGone, RemoteGone, Absent} \subseteq Contents
  <2>1. job[p].at \in Times
    BY <1>j DEF Jobs
  <2>2. QED
    BY <2>1 DEF Ours, Contents, Files, Trees, TypeOK, GitTypeOK
<1>4. f \in job[p].left
  BY DEF Decide
<1>5. CASE Fate(p, f) = "write" /\ Takes(p, f, "replace", [None EXCEPT !.local = Ours(p, f)])
  <2>1. PICK held : held = [None EXCEPT !.local = Ours(p, f)]
    OBVIOUS
  <2>2. held \in Triples /\ held.local = Ours(p, f)
    BY <1>3, <2>1 DEF None, Triples
  <2>3. Takes(p, f, "replace", held)
    BY <1>5, <2>1
  <2>4. QED
    BY <1>2, <1>4, <1>5, <2>2, <2>3
<1>6. CASE /\ Fate(p, f) = "conflict"
           /\ Takes(p, f, "copyRemote",
                [remote |-> IF work[f] \in {Absent, Empty} THEN RemoteGone ELSE work[f],
                 base |-> stash[job[p].at][f].base,
                 local |-> IF Ours(p, f) = Absent THEN LocalGone ELSE Ours(p, f)])
  <2>1. PICK x : x = IF work[f] \in {Absent, Empty} THEN RemoteGone ELSE work[f]
    OBVIOUS
  <2>2. PICK y : y = IF Ours(p, f) = Absent THEN LocalGone ELSE Ours(p, f)
    OBVIOUS
  <2>3. PICK held : held = [remote |-> x, base |-> stash[job[p].at][f].base, local |-> y]
    OBVIOUS
  <2>4. held \in Triples /\ held.local = y /\ held.remote = x
    BY <1>3, <2>1, <2>2, <2>3 DEF Triples
  <2>5. Takes(p, f, "copyRemote", held)
    BY <1>6, <2>1, <2>2, <2>3
  <2>6. QED
    BY <1>2, <1>4, <1>6, <2>1, <2>2, <2>4, <2>5
<1>7. QED
  BY <1>1, <1>5, <1>6 DEF Decide

LEMMA NextFileJob ==
  ASSUME TypeOK, NEW p \in Procs, NEW c \in BOOLEAN, NextFile(p, c)
  PROVE  /\ pc'[p] = "apply"
         /\ job'[p].left = job[p].left /\ job'[p].entry = job[p].entry
         /\ job'[p].at = job[p].at /\ job'[p].conflict = c
         /\ job'[p].parent = job[p].parent /\ job'[p].add = job[p].add
         /\ \A q \in Procs \ {p} : pc'[q] = pc[q] /\ job'[q] = job[q]
<1>j. job[p] \in Jobs /\ job \in [Procs -> Jobs] /\ p \in DOMAIN pc
  BY DEF TypeOK, GitTypeOK
<1>1. PICK i : i = [job[p] EXCEPT !.file = "", !.held = None, !.conflict = c]
  OBVIOUS
<1>2. job' = [job EXCEPT ![p] = i]
  BY <1>1 DEF NextFile
<1>3. job'[p] = i /\ \A q \in Procs \ {p} : job'[q] = job[q]
  BY <1>j, <1>2
<1>4. /\ i.left = job[p].left /\ i.entry = job[p].entry /\ i.at = job[p].at
      /\ i.conflict = c /\ i.parent = job[p].parent /\ i.add = job[p].add
  BY <1>j, <1>1 DEF Jobs
<1>5. pc'[p] = "apply" /\ \A q \in Procs \ {p} : pc'[q] = pc[q]
  BY DEF NextFile, Goto, TypeOK, GitTypeOK
<1>6. QED
  BY <1>3, <1>4, <1>5

LEMMA CopyJob ==
  ASSUME TypeOK, NEW p \in Procs, CopyRemote(p) \/ CopyBase(p)
  PROVE  /\ pc[p] \in {"copyRemote", "copyBase"} /\ pc'[p] \in {"copyBase", "copyLocal"}
         /\ pc[p] = "copyRemote" <=> CopyRemote(p)
         /\ job' = job /\ \A q \in Procs \ {p} : pc'[q] = pc[q]
BY DEF CopyRemote, CopyBase, Goto, TypeOK, GitTypeOK

LEMMA ReturnRests ==
  ASSUME TypeOK, RestInv, NEW p \in Procs, Return(p)
  PROVE  RestInv'
<1>1. Stashed(p)' = {} /\ ~job'[p].conflict /\ pc'[p] = "ready"
  BY DEF TypeOK, GitTypeOK, Return, Stashed, NoJob, NoEntry
<1>2. \A q \in Procs \ {p} : pc'[q] = pc[q] /\ job'[q] = job[q]
  BY DEF TypeOK, GitTypeOK, Return
<1>3. Rests(p)'
  BY <1>1, PcSets DEF Rests
<1>4. QED
  BY <1>2, <1>3, RestStep

\* A process that is not pulling and does not begin to.
LEMMA GoesOnRests ==
  ASSUME TypeOK, RestInv, NEW p \in Procs, pc[p] \notin StashPcs,
         NEW next, pc' = [pc EXCEPT ![p] = next], next \notin StashPcs,
         \A q \in Procs : /\ job'[q].entry = job[q].entry /\ job'[q].conflict = job[q].conflict
                          /\ job'[q].left = job[q].left /\ job'[q].file = job[q].file
                          /\ job'[q].held = job[q].held
  PROVE  RestInv'
<1>1. SUFFICES ASSUME NEW q \in Procs PROVE Rests(q)'
  BY DEF RestInv
<1>3. pc'[q] = IF q = p THEN next ELSE pc[q]
  BY DEF TypeOK, GitTypeOK
<1>4. Stashed(q)' = Stashed(q)
  BY DEF Stashed
<1>5. Rests(q)
  BY DEF RestInv
<1>6. CASE q = p
  BY <1>3, <1>4, <1>5, <1>6, PcSets DEF Rests
<1>7. CASE q # p
  BY <1>3, <1>4, <1>5, <1>7 DEF Rests
<1>8. QED
  BY <1>6, <1>7

LEMMA PulledRests ==
  ASSUME TypeOK, RestInv, NEW p \in Procs, pc[p] = "pull", Pulled(p)
  PROVE  RestInv'
<1>1. CASE Return(p)
  BY <1>1, ReturnRests
<1>2. CASE Goto(p, "pull", "apply") /\ Set(p, "left", Stashed(p))
  <2>1. /\ pc'[p] = "apply" /\ job'[p].left = Stashed(p) /\ job'[p].entry = job[p].entry
        /\ \A q \in Procs \ {p} : pc'[q] = pc[q] /\ job'[q] = job[q]
    BY <1>2 DEF Goto, Set, TypeOK, GitTypeOK, Jobs
  <2>2. p \in Pullers /\ Stashed(p)' = Stashed(p)
    BY <2>1, PcSets DEF RestInv, Rests, Stashed
  <2>3. Rests(p)'
    BY <2>1, <2>2, PcSets DEF Rests
  <2>4. QED
    BY <2>1, <2>3, RestStep
<1>3. QED
  BY <1>1, <1>2 DEF Pulled

LEMMA PullRests ==
  ASSUME TypeOK, RestInv, NEW p \in Procs, Pull(p)
  PROVE  RestInv'
<1>j. /\ job[p] \in Jobs /\ \A f \in Paths : job[p].entry[f] \in Entries
      /\ pc \in [Procs -> {"idle", "ready", "status", "pullStatus"} \cup BootPcs \cup CommitPcs \cup StashPcs]
  BY DEF TypeOK, GitTypeOK, Jobs
<1>o. job \in [Procs -> Jobs]
  BY DEF TypeOK, GitTypeOK
<1>1. CASE PullStatus(p)
  <2>1. p \in Pullers /\ pc[p] = "ready" /\ ~job[p].conflict /\ Stashed(p) = {}
    BY <1>1, PcSets DEF PullStatus, RestInv, Rests
  <2>2. /\ pc'[p] \in {"stash", "pull"} /\ job'[p].conflict = job[p].conflict
        /\ \A q \in Procs \ {p} : pc'[q] = pc[q] /\ job'[q] = job[q]
    <3>1. CASE Dirty = {}
      BY <1>1, <1>j, <3>1 DEF PullStatus, Goto
    <3>2. CASE Dirty # {}
      <4>1. PICK e : job' = [job EXCEPT ![p].left = Dirty, ![p].at = now, ![p].entry = e]
        BY <1>1, <3>2, Zenon DEF PullStatus
      <4>2. job'[p].conflict = job[p].conflict /\ \A q \in Procs \ {p} : job'[q] = job[q]
        BY <1>j, <1>o, <4>1 DEF Jobs
      <4>3. pc'[p] = "stash" /\ \A q \in Procs \ {p} : pc'[q] = pc[q]
        BY <1>1, <1>j, <3>2 DEF PullStatus, Goto
      <4>4. QED
        BY <4>2, <4>3
    <3>3. QED
      BY <3>1, <3>2
  <2>3. Rests(p)'
    BY <2>1, <2>2, PcSets DEF Rests
  <2>4. QED
    BY <2>1, <2>2, <2>3, RestStep
<1>2. ASSUME NEW f \in Paths, StashFile(p, f) PROVE RestInv'
  <2>1. /\ pc'[p] = "stash" /\ job'[p].conflict = job[p].conflict
        /\ \A q \in Procs \ {p} : pc'[q] = pc[q] /\ job'[q] = job[q]
    BY <1>2, <1>j, <1>o DEF StashFile, Jobs
  <2>2. p \in Pullers /\ ~job[p].conflict
    BY <1>2, PcSets DEF StashFile, RestInv, Rests
  <2>3. Rests(p)'
    BY <2>1, <2>2, PcSets DEF Rests
  <2>4. QED
    BY <2>1, <2>2, <2>3, RestStep
<1>3. CASE Reset(p)
  <2>1. /\ pc'[p] = "pull" /\ job' = job
        /\ \A q \in Procs \ {p} : pc'[q] = pc[q]
    BY <1>3, <1>j DEF Reset, Goto
  <2>2. p \in Pullers /\ ~job[p].conflict
    BY <1>3, PcSets DEF Reset, Goto, RestInv, Rests
  <2>3. Rests(p)'
    BY <2>1, <2>2, PcSets DEF Rests
  <2>4. QED
    BY <2>1, <2>2, <2>3, RestStep
<1>4. CASE UpToDate(p) \/ FastForward(p)
  BY <1>4, PulledRests DEF UpToDate, FastForward
<1>5. CASE PullRefused(p) \/ Applied(p)
  BY <1>5, ReturnRests DEF PullRefused, Applied
<1>6. ASSUME NEW f \in Paths, Decide(p, f) PROVE RestInv'
  <2>1. Stashed(p)' = Stashed(p)
    BY <1>6, DecideJob DEF Stashed
  <2>2. p \in Pullers /\ job[p].left \subseteq Stashed(p)
    BY <1>6, DecideJob, PcSets DEF RestInv, Rests
  <2>3. LocalGone # Absent /\ RemoteGone # Absent
    BY GitSyncAssumption DEF GitSyncAssumption, IsInjective
  <2>4. pc'[p] \in ArtifactPcs => job'[p].held.local # Absent /\ job'[p].held.remote # Absent
    <3>1. pc'[p] \in ArtifactPcs => pc'[p] = "copyRemote"
      BY <1>6, DecideJob, PcSets
    <3>2. pc'[p] = "copyRemote" =>
            /\ job'[p].held.local = IF Ours(p, f) = Absent THEN LocalGone ELSE Ours(p, f)
            /\ job'[p].held.remote = IF work[f] \in {Absent, Empty} THEN RemoteGone ELSE work[f]
      BY <1>6, DecideJob
    <3>3. QED
      BY <2>3, <3>1, <3>2
  <2>5. /\ pc'[p] \in ApplyPcs /\ job'[p].left = job[p].left \ {f}
        /\ pc'[p] \in WritePcs => job'[p].file = f
    BY <1>6, DecideJob, PcSets
  <2>6. f \in job[p].left /\ \A q \in Procs \ {p} : pc'[q] = pc[q] /\ job'[q] = job[q]
    BY <1>6, DecideJob
  <2>7. Rests(p)'
    BY <2>1, <2>2, <2>4, <2>5, <2>6, PcSets DEF Rests
  <2>8. QED
    BY <2>6, <2>7, RestStep
<1>7. CASE ApplyFails(p)
  BY <1>7, ReturnRests DEF ApplyFails
<1>9. ASSUME NEW c \in BOOLEAN, NextFile(p, c), pc[p] \in ApplyPcs PROVE RestInv'
  <2>1. Stashed(p)' = Stashed(p)
    BY <1>9, NextFileJob DEF Stashed
  <2>2. p \in Pullers /\ job[p].left \subseteq Stashed(p)
    BY <1>9, PcSets DEF RestInv, Rests
  <2>3. Rests(p)'
    BY <1>9, NextFileJob, <2>1, <2>2, PcSets DEF Rests
  <2>4. QED
    BY <1>9, NextFileJob, <2>3, RestStep
<1>10. CASE CopyRemote(p) \/ CopyBase(p)
  <2>1. Stashed(p)' = Stashed(p) /\ Rests(p)
    BY <1>10, CopyJob DEF Stashed, RestInv
  <2>2. Rests(p)'
    BY <1>10, CopyJob, <2>1, PcSets DEF Rests
  <2>3. QED
    BY <1>10, CopyJob, <2>2, RestStep
<1>11. CASE Replace(p) \/ CopyLocal(p)
  <2>1. job[p].conflict \in BOOLEAN
    BY <1>j DEF Jobs
  <2>2. QED
    BY <1>9, <1>11, <2>1, PcSets DEF Replace, CopyLocal
<1>8. QED
  BY <1>1, <1>2, <1>3, <1>4, <1>5, <1>6, <1>7, <1>10, <1>11 DEF Pull

LEMMA RestKept == TypeOK /\ RestInv /\ [Next]_allVars => RestInv'
<1> SUFFICES ASSUME TypeOK, RestInv, [Next]_allVars PROVE RestInv'
  OBVIOUS
<1>1. CASE UNCHANGED processVars
  BY <1>1 DEF RestInv, Rests, Stashed, processVars
<1>2. ASSUME NEW p \in Procs, Bootstrap(p) PROVE RestInv'
  <2>1. UNCHANGED job
    BY <1>2 DEF Bootstrap, Boot, MakeDirectory, Clone, OpenOrInit, EnsureRemote, BootRest
  <2>2. \/ UNCHANGED pc
        \/ pc[p] \notin StashPcs /\ \E next \in {"boot", "clone", "remote", "ready"} :
                                     pc' = [pc EXCEPT ![p] = next]
    BY <1>2, PcSets DEF Bootstrap, Boot, MakeDirectory, Clone, OpenOrInit, EnsureRemote, Goto
  <2>3. QED
    BY <1>1, <2>1, <2>2, GoesOnRests, PcSets DEF processVars
<1>3. ASSUME NEW p \in Procs, Sync(p) PROVE RestInv'
  <2>1. CASE Push(p)
    BY <2>1, ReturnRests DEF Push
  <2>2. CASE ~Push(p)
    <3>1. pc[p] \notin StashPcs /\ \E next \in CommitPcs : pc' = [pc EXCEPT ![p] = next]
      BY <1>3, <2>2, PcSets DEF Sync, CheckStatus, ReadWorkTree, AddAll, ReadParent, Commit, Goto, CommitPcs
    <3>2. \/ UNCHANGED job
          \/ \E field \in {"add", "parent"} : \E value : Set(p, field, value)
      BY <1>3, <2>2 DEF Sync, CheckStatus, ReadWorkTree, AddAll, ReadParent, Commit
    <3>3. \A q \in Procs : /\ job'[q].entry = job[q].entry /\ job'[q].conflict = job[q].conflict
                           /\ job'[q].left = job[q].left /\ job'[q].file = job[q].file
                           /\ job'[q].held = job[q].held
      <4>1. job \in [Procs -> Jobs]
        BY DEF TypeOK, GitTypeOK
      <4>2. CASE UNCHANGED job
        BY <4>2
      <4>3. ASSUME NEW field \in {"add", "parent"}, NEW value, Set(p, field, value)
            PROVE  \A q \in Procs : /\ job'[q].entry = job[q].entry /\ job'[q].left = job[q].left
                                    /\ job'[q].conflict = job[q].conflict
                                    /\ job'[q].file = job[q].file /\ job'[q].held = job[q].held
        BY <4>1, <4>3 DEF Set, Jobs
      <4>4. QED
        BY <3>2, <4>2, <4>3
    <3>4. QED
      BY <3>1, <3>3, GoesOnRests, PcSets DEF CommitPcs
  <2>3. QED
    BY <2>1, <2>2
<1>4. ASSUME NEW p \in Procs, Stop(p) PROVE RestInv'
  <2>1. CASE pc[p] \in BootPcs
    BY <1>4, <2>1, GoesOnRests, PcSets DEF Stop, Goto, BootPcs
  <2>2. CASE pc[p] \notin BootPcs
    BY <1>4, <2>2, ReturnRests DEF Stop
  <2>3. QED
    BY <2>1, <2>2
<1>5. ASSUME NEW r \in Resolvers, Resolver(r) PROVE UNCHANGED processVars
  BY <1>5 DEF Resolver, Resolve, Find, Copy, CopyFails, CopyFile, RemoveArtifacts,
              RemoveArtifact, Resolved, Abandon, gitVars, vars
<1>6. QED
  BY <1>1, <1>2, <1>3, <1>4, <1>5, PullRests
     DEF Next, GitNext, Edit, RemoteCommit, Tick, allVars, vars
-----------------------------------------------------------------------------
(* What a step leaves alone.                                                 *)

PcTypes == {"idle", "ready", "status", "pullStatus"} \cup BootPcs \cup CommitPcs \cup StashPcs

LEMMA ProcTypes ==
  ASSUME TypeOK
  PROVE  pc \in [Procs -> PcTypes] /\ job \in [Procs -> Jobs] /\ arts \in [Times -> [Paths -> Triples]]
BY DEF TypeOK, GitTypeOK, PcTypes

LEMMA OthersStay ==
  ASSUME TypeOK, NEW p \in Procs, Bootstrap(p) \/ Sync(p) \/ Pull(p) \/ Stop(p)
  PROVE  \A q \in Procs \ {p} : pc'[q] = pc[q] /\ job'[q] = job[q]
<1>t. pc \in [Procs -> PcTypes] /\ job \in [Procs -> Jobs]
  BY ProcTypes
<1>1. CASE Bootstrap(p)
  BY <1>t, <1>1 DEF Bootstrap, Boot, MakeDirectory, Clone, OpenOrInit, EnsureRemote, BootRest, Goto
<1>2. CASE Sync(p) \/ Stop(p)
  BY <1>t, <1>2 DEF Sync, CheckStatus, ReadWorkTree, AddAll, ReadParent, Commit, Push, Stop, Goto, Return, Set
<1>3. ASSUME NEW f \in Paths, StashFile(p, f) PROVE \A q \in Procs \ {p} : pc'[q] = pc[q] /\ job'[q] = job[q]
  BY <1>t, <1>3 DEF StashFile
<1>4. ASSUME NEW f \in Paths, Decide(p, f) PROVE \A q \in Procs \ {p} : pc'[q] = pc[q] /\ job'[q] = job[q]
  BY <1>4, DecideJob
<1>5. CASE ApplyFails(p)
  BY <1>t, <1>5 DEF ApplyFails, Return
<1>6. CASE PullStatus(p)
  BY <1>t, <1>6 DEF PullStatus, Goto
<1>7. CASE Reset(p) \/ UpToDate(p) \/ FastForward(p) \/ PullRefused(p) \/ Applied(p)
  BY <1>t, <1>7 DEF Reset, UpToDate, FastForward, PullRefused, Applied, Pulled, Goto, Return, Set
<1>8. CASE CopyRemote(p) \/ CopyBase(p) \/ CopyLocal(p) \/ Replace(p)
  <2>1. job[p].conflict \in BOOLEAN
    BY <1>t DEF Jobs
  <2>2. QED
    BY <1>8, <2>1, CopyJob, NextFileJob DEF Replace, CopyLocal
<1>9. QED
  BY <1>1, <1>2, <1>3, <1>4, <1>5, <1>6, <1>7, <1>8 DEF Pull

\* The resolvers and the user leave the processes alone.
LEMMA ProcessesStay ==
  ASSUME Next, ~\E p \in Procs : Bootstrap(p) \/ Sync(p) \/ Pull(p) \/ Stop(p)
  PROVE  UNCHANGED <<pc, job>>
<1>1. ASSUME NEW r \in Resolvers, Resolver(r) PROVE UNCHANGED <<pc, job>>
  BY <1>1 DEF Resolver, Resolve, Find, Copy, CopyFails, CopyFile, RemoveArtifacts,
              RemoveArtifact, Resolved, Abandon, gitVars, vars, processVars
<1>2. QED
  BY <1>1 DEF Next, GitNext, Edit, RemoteCommit, Tick, processVars

\* One write to one artifact.
LEMMA WriteOne ==
  ASSUME TypeOK, NEW p \in Procs, job[p].file \in Paths,
         NEW version \in {"remote", "base", "local"}, NEW c, WriteArtifact(p, version, c)
  PROVE  /\ \A u \in Times, g \in Paths : u # job[p].at \/ g # job[p].file => arts'[u][g] = arts[u][g]
         /\ \A k \in {"remote", "base", "local"} :
              arts'[job[p].at][job[p].file][k] =
                IF k = version THEN c ELSE arts[job[p].at][job[p].file][k]
<1> DEFINE at == job[p].at
           f == job[p].file
           x == arts[at][f]
<1>t. arts \in [Times -> [Paths -> Triples]] /\ at \in Times /\ f \in Paths
  BY ProcTypes DEF Jobs
<1>1. arts' = [arts EXCEPT ![at][f] = [x EXCEPT ![version] = c]]
  BY <1>t DEF WriteArtifact
<1>2. x \in Triples
  BY <1>t
<1> HIDE DEF at, f, x
<1>3. /\ \A u \in Times, g \in Paths : u # at \/ g # f => arts'[u][g] = arts[u][g]
      /\ arts'[at][f] = [x EXCEPT ![version] = c]
  BY <1>t, <1>1
<1>4. \A k \in {"remote", "base", "local"} : arts'[at][f][k] = IF k = version THEN c ELSE x[k]
  BY <1>2, <1>3 DEF Triples
<1>5. QED
  BY <1>3, <1>4 DEF at, f, x
\* The same of one version, and of another artifact.
LEMMA WriteVersion ==
  ASSUME TypeOK, NEW p \in Procs, NEW f \in Paths, f = job[p].file, NEW c,
         WriteArtifact(p, "local", c)
  PROVE  arts'[job[p].at][f].local = c
BY WriteOne

LEMMA WriteAside ==
  ASSUME TypeOK, NEW p \in Procs, job[p].file \in Paths,
         NEW version \in {"remote", "base", "local"}, NEW c, WriteArtifact(p, version, c),
         NEW t \in Times, NEW f \in Paths, t # job[p].at \/ f # job[p].file
  PROVE  arts'[t][f] = arts[t][f]
<1>1. \A u \in Times, g \in Paths : u # job[p].at \/ g # job[p].file => arts'[u][g] = arts[u][g]
  BY WriteOne
<1>2. QED
  BY <1>1

-----------------------------------------------------------------------------
(* Conflicts are whole.                                                      *)

\* A pull is between the writes of the remote and of the local version.
Persisting(p, t, f) == pc[p] \in {"copyBase", "copyLocal"} /\ job[p].at = t /\ job[p].file = f

\* A conflict has its local version, unless a resolver is between the removal of
\* the local and of the remote version or a pull between the writes of the remote
\* and of the local version, or something has failed.
WholeInv ==
  "failure" \notin odd =>
    \A t \in Times, f \in Paths :
      arts[t][f].remote # Absent =>
        \/ arts[t][f].local # Absent
        \/ \E r \in Resolvers : step[r] = "remote" /\ task[r].at = t /\ task[r].file = f
        \/ \E p \in Procs : Persisting(p, t, f)

LEMMA OddGrows ==
  ASSUME [Next]_allVars
  PROVE  odd \subseteq odd'
<1>1. ASSUME NEW p \in Procs, Bootstrap(p) PROVE odd \subseteq odd'
  BY <1>1 DEF Bootstrap, Boot, MakeDirectory, Clone, OpenOrInit, EnsureRemote, BootRest
<1>2. ASSUME NEW p \in Procs, Sync(p) PROVE odd \subseteq odd'
  BY <1>2 DEF Sync, CheckStatus, ReadWorkTree, AddAll, ReadParent, Commit, Push, Begins, Coincidence
<1>3. ASSUME NEW p \in Procs, Pull(p) PROVE odd \subseteq odd'
  BY <1>3 DEF Pull, PullStatus, StashFile, Reset, UpToDate, FastForward, PullRefused,
              Decide, Replace, CopyRemote, CopyBase, CopyLocal, ApplyFails, Applied, BeginsPull,
              ArtifactRest, Strands, Coincidence
<1>4. ASSUME NEW p \in Procs, Stop(p) PROVE odd \subseteq odd'
  BY <1>4 DEF Stop, Strands, Coincidence
<1>5. ASSUME NEW r \in Resolvers, Resolver(r) PROVE odd \subseteq odd'
  BY <1>5 DEF Resolver, Resolve, Find, Copy, CopyFails, CopyFile, RemoveArtifacts,
              RemoveArtifact, Resolved, Abandon, Coincidence, gitVars, vars
<1>6. QED
  BY <1>1, <1>2, <1>3, <1>4, <1>5
     DEF Next, GitNext, Edit, RemoteCommit, Tick, Coincidence, allVars, vars

\* Only a pull and a resolver change the artifacts.
LEMMA ArtifactsStay ==
  ASSUME GitNext, arts' # arts
  PROVE  \E p \in Procs : CopyRemote(p) \/ CopyBase(p) \/ CopyLocal(p) \/ ApplyFails(p)
<1>1. ASSUME NEW p \in Procs, Bootstrap(p) PROVE FALSE
  BY <1>1 DEF Bootstrap, Boot, MakeDirectory, Clone, OpenOrInit, EnsureRemote, BootRest
<1>2. ASSUME NEW p \in Procs, Sync(p) PROVE FALSE
  BY <1>2 DEF Sync, CheckStatus, ReadWorkTree, AddAll, ReadParent, Commit, Push, CommitRest
<1>3. ASSUME NEW p \in Procs, Pull(p)
      PROVE  CopyRemote(p) \/ CopyBase(p) \/ CopyLocal(p) \/ ApplyFails(p)
  BY <1>3 DEF Pull, PullStatus, StashFile, Reset, UpToDate, FastForward, PullRefused, Applied,
              Decide, Replace
<1>4. ASSUME NEW p \in Procs, Stop(p) PROVE FALSE
  BY <1>4 DEF Stop
<1>5. QED
  BY <1>1, <1>2, <1>3, <1>4 DEF GitNext, Edit, RemoteCommit, Tick

\* A pull that stops there has failed.
LEMMA PersistingStays ==
  ASSUME TypeOK, RestInv, [Next]_allVars, "failure" \notin odd',
         NEW p \in Procs, NEW t \in Times, NEW f \in Paths, Persisting(p, t, f)
  PROVE  Persisting(p, t, f)' \/ CopyLocal(p)
<1>1. CASE UNCHANGED <<pc, job>>
  BY <1>1 DEF Persisting
<1>2. ASSUME NEW q \in Procs \ {p}, Bootstrap(q) \/ Sync(q) \/ Pull(q) \/ Stop(q)
      PROVE  Persisting(p, t, f)'
  BY <1>2, OthersStay DEF Persisting
<1>3. CASE Bootstrap(p) \/ Sync(p) \/ Pull(p) \/ Stop(p)
  <2>1. ~Strands(p)
    <3>1. Stashed(p) # {} /\ pc[p] \in ApplyPcs
      BY PcSets DEF Persisting, RestInv, Rests
    <3>2. QED
      BY <3>1 DEF Strands, Coincidence
  <2>2. CASE Bootstrap(p) \/ Sync(p)
    BY <2>2 DEF Persisting, Bootstrap, Boot, MakeDirectory, Clone, OpenOrInit, EnsureRemote, Goto,
                Sync, CheckStatus, ReadWorkTree, AddAll, ReadParent, Commit, Push
  <2>3. CASE CopyBase(p)
    BY <2>3, CopyJob DEF Persisting, CopyBase, Goto, TypeOK, GitTypeOK
  <2>4. CASE Pull(p) /\ ~CopyBase(p)
    BY <2>1, <2>4 DEF Persisting, Pull, PullStatus, StashFile, Reset, UpToDate, FastForward, PullRefused,
                Applied, Decide, Takes, Replace, CopyRemote, ApplyFails, Goto
  <2>5. CASE Stop(p)
    BY <2>1, <2>5 DEF Stop
  <2>6. QED
    BY <1>3, <2>2, <2>3, <2>4, <2>5
<1>4. QED
  BY <1>1, <1>2, <1>3, ProcessesStay DEF allVars, vars, processVars

LEMMA WholeKept == TypeInv /\ RestInv /\ WholeInv /\ [Next]_allVars => WholeInv'
<1> SUFFICES ASSUME TypeInv, RestInv, WholeInv, [Next]_allVars, "failure" \notin odd',
                    NEW t \in Times, NEW f \in Paths, arts'[t][f].remote # Absent,
                    arts'[t][f].local = Absent
             PROVE  \/ \E r \in Resolvers : step'[r] = "remote" /\ task'[r].at = t /\ task'[r].file = f
                    \/ \E p \in Procs : Persisting(p, t, f)'
  BY DEF WholeInv
<1> DEFINE Removing == \E r \in Resolvers : step[r] = "remote" /\ task[r].at = t /\ task[r].file = f
           Goal == Removing' \/ \E p \in Procs : Persisting(p, t, f)'
<1>o. "failure" \notin odd
  BY OddGrows
<1>u. TypeOK /\ arts \in [Times -> [Paths -> Triples]]
  BY DEF TypeInv, TypeOK, GitTypeOK
<1>w. \/ arts[t][f].remote = Absent \/ arts[t][f].local # Absent
      \/ Removing \/ \E p \in Procs : Persisting(p, t, f)
  BY <1>o DEF WholeInv
<1>p. ASSUME NEW p \in Procs, Persisting(p, t, f) PROVE Goal
  <2>1. Persisting(p, t, f)' \/ CopyLocal(p)
    BY <1>p, <1>u, PersistingStays
  <2>2. CASE CopyLocal(p)
    <3>1. job[p].held.local # Absent /\ job[p].file = f /\ job[p].at = t
      BY <1>p, PcSets DEF RestInv, Rests, Persisting
    <3>2. arts'[t][f].local = job[p].held.local
      <4>1. WriteArtifact(p, "local", job[p].held.local)
        BY <2>2 DEF CopyLocal
      <4>2. QED
        BY <1>u, <3>1, <4>1, WriteVersion
    <3>3. QED
      BY <3>1, <3>2
  <2>3. QED
    BY <2>1, <2>2
<1>s. CASE UNCHANGED <<arts, step, task>>
  BY <1>p, <1>s, <1>w
<1>1. CASE GitNext /\ UNCHANGED resolveVars
  <2> USE DEF resolveVars
  <2>1. ASSUME NEW p \in Procs, CopyRemote(p) \/ CopyBase(p) \/ CopyLocal(p) PROVE Goal
    <3>1. job[p].file \in Paths /\ job[p].held.local # Absent
      BY <2>1, PcSets DEF CopyRemote, CopyBase, CopyLocal, Goto, RestInv, Rests, Stashed
    <3>2. CASE job[p].at # t \/ job[p].file # f
      <4>1. arts'[t][f] = arts[t][f]
        <5>1. ASSUME NEW version \in {"remote", "base", "local"}, NEW c, WriteArtifact(p, version, c)
              PROVE  arts'[t][f] = arts[t][f]
          BY <1>u, <3>1, <3>2, <5>1, WriteAside
        <5>2. QED
          BY <2>1, <5>1 DEF CopyRemote, CopyBase, CopyLocal
      <4>2. QED
        BY <1>1, <1>p, <1>w, <4>1
    <3>3. CASE job[p].at = t /\ job[p].file = f
      <4>1. CASE CopyRemote(p)
        BY <1>u, <3>3, <4>1, CopyJob DEF Persisting, CopyRemote, Goto, TypeOK, GitTypeOK
      <4>2. CASE CopyBase(p)
        BY <1>p, <3>3, <4>2 DEF Persisting, CopyBase, Goto
      <4>3. CASE CopyLocal(p)
        BY <1>p, <3>3, <4>3 DEF Persisting, CopyLocal
      <4>4. QED
        BY <2>1, <4>1, <4>2, <4>3
    <3>4. QED
      BY <3>2, <3>3
  <2>2. ASSUME NEW p \in Procs, ApplyFails(p) PROVE Goal
    <3>1. Stashed(p) # {} /\ Strands(p) /\ pc[p] \in ApplyPcs
      BY <2>2, PcSets DEF ApplyFails, RestInv, Rests
    <3>2. QED
      BY <3>1 DEF Strands, Coincidence
  <2>3. QED
    BY <1>1, <1>s, <2>1, <2>2, ArtifactsStay
<1>2. ASSUME NEW r \in Resolvers, Resolver(r)
      PROVE  Goal
  <2> DEFINE Aside == /\ step[r] # "remote" /\ UNCHANGED arts
                      /\ \A q \in Resolvers \ {r} : step'[q] = step[q] /\ task'[q] = task[q]
  <2>t. /\ step \in [Resolvers -> Steps] /\ task \in [Resolvers -> Tasks]
        /\ step[r] \in {"local", "remote", "base"} => task[r].at \in Times /\ task[r].file \in Paths
    BY DEF TypeInv, TypeOK, TaskInv, Tasks
  <2>1. CASE Aside
    BY <1>p, <1>w, <2>1
  <2>2. ASSUME NEW choice \in Versions, Resolve(r, choice) PROVE Aside
    BY <2>2, <2>t DEF Resolve, Moves
  <2>3. ASSUME NEW g \in Paths, Find(r, g) PROVE Aside
    BY <2>3, <2>t DEF Find
  <2>4. CASE Copy(r) \/ CopyFails(r) \/ Resolved(r)
    BY <2>1, <2>4, <2>t DEF Copy, CopyFails, Resolved, Moves, CopyFile, vars
  <2>5. CASE Abandon(r)
    <3>1. step[r] # "remote"
      BY <2>5 DEF Abandon, Coincidence
    <3>2. QED
      BY <2>1, <2>5, <2>t, <3>1 DEF Abandon, Moves
  <2>6. ASSUME RemoveArtifact(r, "local", "remote") PROVE Goal
    <3>1. CASE t = task[r].at /\ f = task[r].file
      BY <2>6, <2>t, <3>1 DEF RemoveArtifact, Moves
    <3>2. CASE ~(t = task[r].at /\ f = task[r].file)
      <4>1. arts'[t][f] = arts[t][f]
        BY <2>6, <2>t, <1>u, <3>2 DEF RemoveArtifact, Moves
      <4>2. QED
        BY <1>p, <1>w, <2>6, <2>t, <4>1 DEF RemoveArtifact, Moves
    <3>3. QED
      BY <3>1, <3>2
  <2>7. ASSUME RemoveArtifact(r, "remote", "base") PROVE Goal
    <3>1. ~(t = task[r].at /\ f = task[r].file)
      <4> SUFFICES ASSUME t = task[r].at, f = task[r].file PROVE FALSE
        OBVIOUS
      <4>1. arts[t][f] \in Triples
        BY <1>u
      <4>2. arts'[t][f] = [arts[t][f] EXCEPT !["remote"] = Absent]
        BY <2>7, <1>u DEF RemoveArtifact
      <4>3. QED
        BY <4>1, <4>2 DEF Triples
    <3>2. arts'[t][f] = arts[t][f]
      BY <2>7, <2>t, <1>u, <3>1 DEF RemoveArtifact, Moves
    <3>3. QED
      BY <1>p, <1>w, <2>7, <2>t, <3>1, <3>2 DEF RemoveArtifact, Moves
  <2>8. ASSUME RemoveArtifact(r, "base", "find") PROVE Goal
    <3>1. arts'[t][f].remote = arts[t][f].remote /\ arts'[t][f].local = arts[t][f].local
      BY <2>8, <2>t, <1>u DEF RemoveArtifact, Moves
    <3>2. CASE Removing
      <4>1. PICK q \in Resolvers : step[q] = "remote" /\ task[q].at = t /\ task[q].file = f
        BY <3>2
      <4>2. step'[q] = "remote" /\ task'[q] = task[q]
        BY <2>8, <2>t, <4>1 DEF RemoveArtifact, Moves
      <4>3. QED
        BY <4>1, <4>2
    <3>3. QED
      BY <1>p, <1>w, <3>1, <3>2
  <2>9. QED
    BY <1>2, <2>1, <2>2, <2>3, <2>4, <2>5, <2>6, <2>7, <2>8 DEF Resolver, RemoveArtifacts
<1>3. QED
  BY <1>1, <1>2, <1>s DEF Next, allVars, vars, resolveVars

\* A conflict that dsm conflicts lists can be resolved with either version.
THEOREM ListedIsWholeCorrect == Spec => []ListedIsWhole
<1>1. Init => TypeInv /\ RestInv /\ WholeInv
  <2> SUFFICES ASSUME Init PROVE TypeInv /\ RestInv /\ WholeInv
    OBVIOUS
  <2>1. TypeInv
    BY InitTypes DEF TypeInv, TaskInv, Init
  <2>2. RestInv
    BY PcSets DEF Init, GitInit, RestInv, Rests, NoJob, NoEntry, Stashed
  <2>3. WholeInv
    BY DEF Init, GitInit, WholeInv, None
  <2>4. QED
    BY <2>1, <2>2, <2>3
<1>2. TypeInv /\ RestInv /\ WholeInv /\ [Next]_allVars => (TypeInv /\ RestInv /\ WholeInv)'
  BY TypesKept, RestKept, WholeKept DEF TypeInv
<1>3. WholeInv => ListedIsWhole
  <2> SUFFICES ASSUME WholeInv, "failure" \notin odd, \A p \in Procs : pc[p] \notin ArtifactPcs,
                      \A r \in Resolvers : step[r] = "idle",
                      NEW f \in GetConflicts
               PROVE  LatestConflict(f).local # Absent
    BY DEF ListedIsWhole
  <2>1. f \in Paths /\ Dirs(f) \in SUBSET Times /\ Dirs(f) # {}
    BY DEF GetConflicts, Dirs
  <2>2. Max(Dirs(f)) \in Dirs(f)
    BY <2>1, Latest
  <2>3. QED
    BY <2>1, <2>2, PcSets DEF WholeInv, Persisting, LatestConflict, Dirs
<1>4. QED
  BY <1>1, <1>2, <1>3, PTL DEF Spec
-----------------------------------------------------------------------------
(* No edit is lost.                                                          *)

\* None of the coincidences that can lose an edit.
Calm == odd \cap {"edit", "second", "pulls", "overwrite"} = {}

Written(h, f, c) == \E i \in DOMAIN h : h[i].tree[f] = c

\* The user's version of a file is somewhere that no reset reaches.
Safe(f) ==
  \/ mine[f] = Absent \/ home[f] = mine[f]
  \/ Written(head, f, mine[f]) \/ Written(remote, f, mine[f])
  \/ \E t \in Times : stash[t][f].local = mine[f]

MineInv == \A f \in Paths : mine[f] \in Texts \cup {Absent}

\* Without a repository there is nothing to lose.
BareInv ==
  repo # "git" =>
    /\ \A p \in Procs : pc[p] \in {"idle", "boot", "clone"}
    /\ \A r \in Resolvers : step[r] = "idle"
    /\ head = <<>>
    /\ \A f \in Paths : mine[f] = Absent
    /\ \A t \in Times, f \in Paths : stash[t][f] = NoStash /\ arts[t][f] = None

\* The base that is put into a stash comes from a commit.
BaseInv ==
  \A t \in Times, f \in Paths :
    LET c == stash[t][f].base IN c = Absent \/ Written(head, f, c) \/ Written(remote, f, c)

\* A text that is the local version of a conflict is still in the stash.
ArtsInv ==
  \A t \in Times, f \in Paths : arts[t][f].local \in Texts => stash[t][f].local = arts[t][f].local

\* The stash directory of p has what p has put there, and no conflict yet.
Own(p) == \A f \in Paths : stash[job[p].at][f].local # Absent => job[p].entry[f].kind = "copy"
Fresh(p) == \A f \in Paths : arts[job[p].at][f].local \notin Texts

\* While p makes its stash, before it pulls, and while it applies the stash: the
\* stash can go once it is applied, for what the user wrote is elsewhere too.
StashInv(p) ==
  /\ \A f \in Paths \ job[p].left : Safe(f)
  /\ \A f \in Paths : job[p].entry[f].kind = "deleted" => work[f] = Absent
  /\ Stashed(p) \ job[p].left # {} => Fresh(p) /\ Own(p)
PullInv(p) ==
  /\ \A f \in Paths : Safe(f)
  /\ Stashed(p) # {} => Fresh(p) /\ Own(p)
Elsewhere(p, f) ==
  \/ mine[f] = Absent \/ work[f] = mine[f] \/ home[f] = mine[f]
  \/ Written(head, f, mine[f]) \/ Written(remote, f, mine[f])
  \/ \E t \in Times \ {job[p].at} : stash[t][f].local = mine[f]
Current(p) == {f \in Paths : pc[p] \in WritePcs /\ job[p].file = f}
ApplyInv(p) ==
  /\ Own(p)
  /\ ~job[p].conflict =>
       Fresh(p) /\ \A f \in Paths \ (job[p].left \cup Current(p)) : Elsewhere(p, f)

\* While it writes a file: what it overwrites is elsewhere, what it writes is from
\* the stash.
WriteInv(p) ==
  LET f == job[p].file IN
  /\ pc[p] = "replace" => Safe(f) /\ job[p].held.local = Ours(p, f)
  /\ pc[p] \in ArtifactPcs /\ job[p].held.local \in Texts =>
       job[p].held.local = stash[job[p].at][f].local

PhaseInv ==
  \A p \in Procs : /\ pc[p] = "stash" => StashInv(p)
                   /\ pc[p] = "pull" => PullInv(p)
                   /\ pc[p] \in ApplyPcs => ApplyInv(p)
                   /\ pc[p] \in WritePcs => WriteInv(p)
KeptInv == \A f \in Paths : Safe(f) \/ work[f] = mine[f]


\* One process pulls.
OnePull == \A p, q \in Procs : pc[p] \in StashPcs /\ pc[q] \in StashPcs => p = q

CalmInv == Calm => OnePull /\ KeptInv /\ BaseInv /\ ArtsInv /\ PhaseInv

LEMMA WrittenStays ==
  ASSUME NEW h \in Histories, NEW g \in Histories, IsPrefix(h, g), NEW f, NEW c, Written(h, f, c)
  PROVE  Written(g, f, c)
BY HistoryGoesOn DEF Written

LEMMA WrittenTree ==
  ASSUME NEW h \in Histories, NEW f \in Paths, Tree(h)[f] # Absent
  PROVE  Written(h, f, Tree(h)[f])
BY TreeInHistory DEF Written

\* Both branches only go on, but for two commits upon one parent.
LEMMA BranchesGoOn ==
  ASSUME TypeOK, TypeOK', BareInv, Next, "overwrite" \notin odd'
  PROVE  IsPrefix(head, head') /\ IsPrefix(remote, remote')
<1>t. head \in Histories /\ remote \in Histories
  BY DEF TypeOK, GitTypeOK
<1>i. IsPrefix(head, head) /\ IsPrefix(remote, remote)
  BY <1>t, HistoryItself
<1>u. CASE UNCHANGED <<head, remote>>
  BY <1>i, <1>u
<1>1. ASSUME NEW p \in Procs, Bootstrap(p) PROVE IsPrefix(head, head') /\ UNCHANGED remote
  <2>1. CASE Clone(p)
    BY <1>t, <2>1 DEF Clone, BareInv, BootRest, IsPrefix, Histories
  <2>2. CASE ~Clone(p)
    BY <1>1, <1>i, <2>2 DEF Bootstrap, Boot, MakeDirectory, OpenOrInit, EnsureRemote, BootRest, treeVars
  <2>3. QED
    BY <2>1, <2>2
<1>2. ASSUME NEW p \in Procs, Sync(p) PROVE IsPrefix(head, head') /\ IsPrefix(remote, remote')
  <2>1. CASE Commit(p)
    <3>1. head' = Append(head, [tree |-> index, by |-> p]) /\ UNCHANGED remote
      BY <2>1 DEF Commit, Coincidence
    <3>2. [tree |-> index, by |-> p] \in [tree : Trees, by : Procs \cup {Other}]
      BY DEF TypeOK, GitTypeOK
    <3>3. QED
      BY <1>t, <1>i, <3>1, <3>2, HistoryAppend
  <2>2. CASE ~Commit(p)
    BY <1>2, <1>i, <2>2 DEF Sync, CheckStatus, ReadWorkTree, AddAll, ReadParent, Push
  <2>3. QED
    BY <2>1, <2>2
<1>3. ASSUME NEW p \in Procs, Pull(p) PROVE IsPrefix(head, head') /\ UNCHANGED remote
  <2>1. CASE FastForward(p) \/ PullRefused(p)
    BY <2>1 DEF FastForward, PullRefused, PullRest, IsStrictPrefix
  <2>2. CASE ~(FastForward(p) \/ PullRefused(p))
    BY <1>3, <1>i, <2>2 DEF Pull, PullStatus, StashFile, Reset, UpToDate, Decide, Replace, CopyRemote,
                            CopyBase, CopyLocal, ApplyFails, Applied, ArtifactRest, PullRest, ApplyRest,
                            treeVars
  <2>3. QED
    BY <2>1, <2>2
<1>4. ASSUME NEW p \in Procs, Stop(p) PROVE UNCHANGED <<head, remote>>
  BY <1>4 DEF Stop, treeVars
<1>5. ASSUME NEW f \in Paths, NEW c \in OtherWrites, RemoteCommit(f, c)
      PROVE  UNCHANGED head /\ IsPrefix(remote, remote')
  <2>1. [tree |-> [Tree(remote) EXCEPT ![f] = c], by |-> Other]
          \in [tree : Trees, by : Procs \cup {Other}]
    BY <1>t, TreeType, GitSyncAssumption
       DEF Trees, Contents, Files, GitSyncAssumption
  <2>2. QED
    BY <1>5, <1>t, <2>1, HistoryAppend DEF RemoteCommit, treeVars
<1>6. ASSUME NEW r \in Resolvers, Resolver(r) PROVE UNCHANGED <<head, remote>>
  BY <1>6 DEF Resolver, Resolve, Find, Copy, CopyFails, CopyFile, RemoveArtifacts,
              RemoveArtifact, Resolved, Abandon, gitVars, vars, treeVars
<1>7. QED
  BY <1>i, <1>u, <1>1, <1>2, <1>3, <1>4, <1>5, <1>6 DEF Next, GitNext, Edit, Tick, treeVars

\* What only the user and the resolvers change.
LEMMA MineStays ==
  ASSUME GitNext
  PROVE  \/ UNCHANGED mine
         \/ \E f \in Paths, c \in UserWrites : Edit(f, c)
<1>1. ASSUME NEW p \in Procs, Bootstrap(p) \/ Sync(p) PROVE UNCHANGED mine
  BY <1>1 DEF Bootstrap, Boot, MakeDirectory, Clone, OpenOrInit, EnsureRemote, BootRest,
              Sync, CheckStatus, ReadWorkTree, AddAll, ReadParent, Commit, Push, CommitRest, userVars
<1>2. ASSUME NEW p \in Procs, Pull(p) PROVE UNCHANGED mine
  BY <1>2 DEF Pull, PullStatus, StashFile, Reset, UpToDate, FastForward, PullRefused,
              Decide, Replace, CopyRemote, CopyBase, CopyLocal, ApplyFails, Applied, ArtifactRest,
              PullRest, ApplyRest, userVars
<1>3. ASSUME NEW p \in Procs, Stop(p) PROVE UNCHANGED mine
  BY <1>3 DEF Stop, userVars
<1>4. QED
  BY <1>1, <1>2, <1>3 DEF GitNext, RemoteCommit, Tick, userVars

LEMMA MineKept == TypeOK /\ MineInv /\ [Next]_allVars => MineInv'
<1> SUFFICES ASSUME TypeOK, MineInv, [Next]_allVars PROVE MineInv'
  OBVIOUS
<1>t. mine \in [Paths -> Contents]
  BY DEF TypeOK, GitTypeOK
<1>0. CASE UNCHANGED mine
  BY <1>0 DEF MineInv
<1>1. ASSUME NEW f \in Paths, NEW c \in UserWrites, Edit(f, c) PROVE MineInv'
  BY <1>t, <1>1, GitSyncAssumption DEF Edit, MineInv, GitSyncAssumption
<1>2. ASSUME NEW r \in Resolvers, Resolver(r) PROVE MineInv'
  <2>1. CASE UNCHANGED mine
    BY <1>0, <2>1
  <2>2. CASE mine' # mine
    <3>1. (\E f \in Paths : Find(r, f)) \/ Copy(r) \/ CopyFails(r)
      BY <1>2, <2>2 DEF Resolver, Resolve, RemoveArtifacts, RemoveArtifact, Resolved, Abandon, vars, userVars
    <3>2. \E f, c : c \in Texts \cup {Absent} /\ mine' = [mine EXCEPT ![f] = c]
      BY <2>2, <3>1 DEF Find, Copy, CopyFails, CopyFile
    <3>3. QED
      BY <1>t, <3>2 DEF MineInv
  <2>3. QED
    BY <2>1, <2>2
<1>3. QED
  BY <1>0, <1>1, <1>2, MineStays DEF Next, allVars, vars, userVars

LEMMA BareKept == TypeInv /\ BareInv /\ [Next]_allVars => BareInv'
<1> SUFFICES ASSUME TypeInv, BareInv, [Next]_allVars, repo' # "git" PROVE BareInv'
  BY DEF BareInv
<1>0. repo # "git"
  <2>1. ASSUME NEW p \in Procs, Bootstrap(p), repo = "git" PROVE FALSE
    BY <2>1 DEF Bootstrap, Boot, MakeDirectory, Clone, OpenOrInit, EnsureRemote, setupVars
  <2>2. ASSUME NEW p \in Procs, Sync(p) PROVE UNCHANGED repo
    BY <2>2 DEF Sync, CheckStatus, ReadWorkTree, AddAll, ReadParent, Commit, Push, CommitRest, setupVars
  <2>3. ASSUME NEW p \in Procs, Pull(p) PROVE UNCHANGED repo
    BY <2>3 DEF Pull, PullStatus, StashFile, Reset, UpToDate, FastForward, PullRefused,
                Decide, Replace, CopyRemote, CopyBase, CopyLocal, ApplyFails, Applied, ArtifactRest,
                PullRest, ApplyRest, setupVars
  <2>4. ASSUME NEW p \in Procs, Stop(p) PROVE UNCHANGED repo
    BY <2>4 DEF Stop, setupVars
  <2>5. ASSUME NEW r \in Resolvers, Resolver(r) PROVE UNCHANGED repo
    BY <2>5 DEF Resolver, Resolve, Find, Copy, CopyFails, CopyFile, RemoveArtifacts,
                RemoveArtifact, Resolved, Abandon, gitVars, vars, setupVars
  <2>6. QED
    BY <2>1, <2>2, <2>3, <2>4, <2>5
       DEF Next, GitNext, Edit, RemoteCommit, Tick, allVars, vars, setupVars
<1>t. pc \in [Procs -> {"idle", "ready", "status", "pullStatus"} \cup BootPcs \cup CommitPcs \cup StashPcs]
  BY DEF TypeInv, TypeOK, GitTypeOK
<1>b. /\ \A p \in Procs : pc[p] \in {"idle", "boot", "clone"}
      /\ \A r \in Resolvers : step[r] = "idle"
      /\ head = <<>>
      /\ \A f \in Paths : mine[f] = Absent
      /\ \A t \in Times, f \in Paths : stash[t][f] = NoStash /\ arts[t][f] = None
  BY <1>0 DEF BareInv
<1>s. CASE UNCHANGED <<pc, step, head, mine, stash, arts>>
  BY <1>s, <1>b DEF BareInv
<1>1. ASSUME NEW p \in Procs, Bootstrap(p), UNCHANGED step PROVE BareInv'
  <2>1. Boot(p) \/ MakeDirectory(p)
    BY <1>0, <1>1, <1>b DEF Bootstrap, Clone, OpenOrInit, EnsureRemote, BootPcs
  <2>2. /\ UNCHANGED <<step, head, mine, stash, arts>>
        /\ \E next \in {"boot", "clone"} : pc' = [pc EXCEPT ![p] = next]
    BY <1>1, <2>1 DEF Boot, MakeDirectory, Goto, BootRest, treeVars, userVars
  <2>3. \A q \in Procs : pc'[q] \in {"idle", "boot", "clone"}
    BY <1>b, <1>t, <2>2
  <2>4. QED
    BY <1>b, <2>2, <2>3 DEF BareInv
<1>2. ASSUME NEW p \in Procs, Sync(p) PROVE FALSE
  BY <1>2, <1>b DEF Sync, CheckStatus, ReadWorkTree, AddAll, ReadParent, Commit, Push, Goto
<1>3. ASSUME NEW p \in Procs, Pull(p) PROVE FALSE
  BY <1>3, <1>b DEF Pull, PullStatus, StashFile, Reset, UpToDate, FastForward, PullRefused,
                    Decide, Takes, Replace, CopyRemote, CopyBase, CopyLocal, ApplyFails, Applied, Goto
<1>4. ASSUME NEW p \in Procs, Stop(p), UNCHANGED step PROVE BareInv'
  <2>1. Goto(p, pc[p], "idle") /\ UNCHANGED <<head, mine, stash, arts>>
    BY <1>4, <1>b DEF Stop, BootPcs, treeVars, userVars
  <2>2. \A q \in Procs : pc'[q] \in {"idle", "boot", "clone"}
    BY <1>b, <1>t, <2>1 DEF Goto
  <2>3. QED
    BY <1>4, <1>b, <2>1, <2>2 DEF BareInv
<1>5. ASSUME NEW f \in Paths, NEW c \in UserWrites, Edit(f, c) PROVE FALSE
  BY <1>0, <1>5 DEF Edit
<1>6. ASSUME NEW r \in Resolvers, Resolver(r) PROVE FALSE
  <2>1. GetConflicts = {}
    BY <1>b DEF GetConflicts, Dirs, None
  <2>2. QED
    BY <1>6, <1>b, <2>1 DEF Resolver, Resolve, Find, Copy, CopyFails, RemoveArtifacts, RemoveArtifact,
                            Resolved, Abandon, Moves
<1>7. QED
  BY <1>s, <1>1, <1>2, <1>3, <1>4, <1>5, <1>6
     DEF Next, GitNext, RemoteCommit, Tick, allVars, vars, processVars, treeVars, userVars, resolveVars
-----------------------------------------------------------------------------
(* The steps that lose no edit, one by one.                                  *)

\* A step from a state that keeps to everything, without a bad coincidence.
CalmStep ==
  /\ TypeInv /\ TypeInv' /\ RestInv /\ MineInv /\ BareInv
  /\ OnePull /\ OnePull' /\ KeptInv /\ BaseInv /\ ArtsInv /\ PhaseInv
  /\ IsPrefix(head, head') /\ IsPrefix(remote, remote')

LEMMA CalmTypes ==
  ASSUME TypeInv
  PROVE  /\ head \in Histories /\ remote \in Histories
         /\ work \in [Paths -> Contents] /\ home \in [Paths -> Contents]
         /\ mine \in [Paths -> Contents]
         /\ stash \in [Times -> [Paths -> [local : Contents, base : Contents]]]
         /\ arts \in [Times -> [Paths -> Triples]]
         /\ job \in [Procs -> Jobs]
         /\ \A p \in Procs : /\ job[p].left \subseteq Paths /\ job[p].at \in Times
                              /\ job[p].entry \in [Paths -> Entries] /\ job[p].conflict \in BOOLEAN
BY DEF TypeInv, TypeOK, GitTypeOK, Trees, Jobs

LEMMA SafeStays ==
  ASSUME CalmStep, NEW f \in Paths, mine'[f] = mine[f], home'[f] = home[f],
         \A t \in Times : stash[t][f].local = mine[f] => \E u \in Times : stash'[u][f].local = mine[f],
         Safe(f)
  PROVE  Safe(f)'
<1>1. /\ head \in Histories /\ remote \in Histories /\ head' \in Histories /\ remote' \in Histories
  BY DEF CalmStep, TypeInv, TypeOK, GitTypeOK
<1>2. /\ Written(head, f, mine[f]) => Written(head', f, mine[f])
      /\ Written(remote, f, mine[f]) => Written(remote', f, mine[f])
  BY <1>1, WrittenStays DEF CalmStep
<1>3. QED
  BY <1>2 DEF Safe

LEMMA ElsewhereStays ==
  ASSUME CalmStep, NEW f \in Paths, NEW p \in Procs, mine'[f] = mine[f], home'[f] = home[f],
         work'[f] = work[f], UNCHANGED stash, job'[p].at = job[p].at, Elsewhere(p, f)
  PROVE  Elsewhere(p, f)'
<1>1. /\ head \in Histories /\ remote \in Histories /\ head' \in Histories /\ remote' \in Histories
  BY DEF CalmStep, TypeInv, TypeOK, GitTypeOK
<1>2. /\ Written(head, f, mine[f]) => Written(head', f, mine[f])
      /\ Written(remote, f, mine[f]) => Written(remote', f, mine[f])
  BY <1>1, WrittenStays DEF CalmStep
<1>3. QED
  BY <1>2 DEF Elsewhere

LEMMA BaseStays ==
  ASSUME CalmStep, \A t \in Times, f \in Paths : stash'[t][f].base \in {stash[t][f].base, Absent}
  PROVE  BaseInv'
<1>1. /\ head \in Histories /\ remote \in Histories /\ head' \in Histories /\ remote' \in Histories
  BY DEF CalmStep, TypeInv, TypeOK, GitTypeOK
<1>2. SUFFICES ASSUME NEW t \in Times, NEW f \in Paths, NEW c, c = stash'[t][f].base, c # Absent
               PROVE  Written(head', f, c) \/ Written(remote', f, c)
  BY DEF BaseInv
<1>3. Written(head, f, c) \/ Written(remote, f, c)
  BY <1>2 DEF CalmStep, BaseInv
<1>4. QED
  BY <1>1, <1>3, WrittenStays DEF CalmStep

\* A process that is away from a pull before and after the step.
Away(p) == pc'[p] \in StashPcs => pc'[p] = pc[p] /\ job'[p] = job[p]

\* Beside the pulls: the work tree and the stashes stay, artifacts and wishes go.
LEMMA CalmAside ==
  ASSUME CalmStep, UNCHANGED <<work, stash, home>>, \A p \in Procs : Away(p),
         \A f \in Paths : mine'[f] \in {mine[f], Absent},
         \A t \in Times, f \in Paths : arts'[t][f].local \in {arts[t][f].local, Absent}
  PROVE  (KeptInv /\ BaseInv /\ ArtsInv /\ PhaseInv)'
<1>a. Absent \notin Texts
  BY GitSyncAssumption DEF GitSyncAssumption
<1>1. ASSUME NEW f \in Paths, Safe(f) PROVE Safe(f)'
  <2>1. CASE mine'[f] = mine[f]
    BY <1>1, <2>1, SafeStays
  <2>2. CASE mine'[f] = Absent
    BY <2>2 DEF Safe
  <2>3. QED
    BY <2>1, <2>2
<1>2. KeptInv'
  BY <1>1 DEF CalmStep, KeptInv, Safe
<1>3. BaseInv'
  BY BaseStays
<1>4. ArtsInv'
  BY <1>a DEF CalmStep, ArtsInv
<1>5. ASSUME NEW p \in Procs, pc'[p] \in StashPcs
      PROVE  /\ pc'[p] = pc[p] /\ job'[p] = job[p] /\ Stashed(p)' = Stashed(p)
             /\ Own(p) => Own(p)'
             /\ Fresh(p) => Fresh(p)'
  <2>1. pc'[p] = pc[p] /\ job'[p] = job[p] /\ job[p].at \in Times
    BY <1>5, CalmTypes DEF Away, CalmStep
  <2>2. QED
    BY <1>a, <2>1 DEF Stashed, Own, Fresh
<1>6. ASSUME NEW p \in Procs, pc'[p] = "stash" PROVE StashInv(p)'
  <2>1. StashInv(p)
    BY <1>5, <1>6, PcSets DEF CalmStep, PhaseInv
  <2>2. QED
    BY <1>1, <1>5, <1>6, <2>1, PcSets DEF StashInv
<1>7. ASSUME NEW p \in Procs, pc'[p] = "pull" PROVE PullInv(p)'
  <2>1. PullInv(p)
    BY <1>5, <1>7, PcSets DEF CalmStep, PhaseInv
  <2>2. QED
    BY <1>1, <1>5, <1>7, <2>1, PcSets DEF PullInv
<1>8. ASSUME NEW p \in Procs, pc'[p] \in ApplyPcs PROVE ApplyInv(p)'
  <2>1. /\ ApplyInv(p) /\ job'[p] = job[p] /\ (Own(p) => Own(p)') /\ (Fresh(p) => Fresh(p)')
        /\ Current(p)' = Current(p)
    BY <1>5, <1>8, PcSets DEF CalmStep, PhaseInv, Current
  <2>2. ASSUME NEW f \in Paths, Elsewhere(p, f) PROVE Elsewhere(p, f)'
    <3>1. CASE mine'[f] = mine[f]
      BY <2>1, <2>2, <3>1, ElsewhereStays
    <3>2. CASE mine'[f] = Absent
      BY <3>2 DEF Elsewhere
    <3>3. QED
      BY <3>1, <3>2
  <2>3. QED
    BY <2>1, <2>2 DEF ApplyInv
<1>10. ASSUME NEW p \in Procs, pc'[p] \in WritePcs PROVE WriteInv(p)'
  <2>1. WriteInv(p) /\ pc'[p] = pc[p] /\ job'[p] = job[p] /\ job[p].file \in Paths
    BY <1>5, <1>10, PcSets DEF CalmStep, PhaseInv, RestInv, Rests, Stashed
  <2>2. QED
    BY <1>1, <2>1 DEF WriteInv, Ours
<1>9. QED
  BY <1>2, <1>3, <1>4, <1>6, <1>7, <1>8, <1>10 DEF PhaseInv

LEMMA BootCalm ==
  ASSUME CalmStep, UNCHANGED home, NEW p \in Procs, Bootstrap(p)
  PROVE  (KeptInv /\ BaseInv /\ ArtsInv /\ PhaseInv)'
<1>t. pc \in [Procs -> {"idle", "ready", "status", "pullStatus"} \cup BootPcs \cup CommitPcs \cup StashPcs]
  BY DEF CalmStep, TypeInv, TypeOK, GitTypeOK
<1>1. CASE Clone(p)
  <2>1. /\ \A q \in Procs : pc[q] \in {"idle", "boot", "clone"}
        /\ \A f \in Paths : mine[f] = Absent
        /\ \A t \in Times, f \in Paths : stash[t][f] = NoStash /\ arts[t][f] = None
        /\ UNCHANGED <<mine, stash, arts>> /\ pc' = [pc EXCEPT ![p] = "ready"]
    BY <1>1 DEF CalmStep, BareInv, Clone, BootRest, userVars, Goto
  <2>2. KeptInv'
    BY <2>1 DEF KeptInv, Safe
  <2>3. BaseInv'
    BY <2>1 DEF BaseInv, NoStash
  <2>4. ArtsInv'
    BY <2>1, GitSyncAssumption DEF ArtsInv, None, GitSyncAssumption
  <2>5. PhaseInv'
    BY <1>t, <2>1, PcSets DEF PhaseInv
  <2>6. QED
    BY <2>2, <2>3, <2>4, <2>5
<1>2. CASE ~Clone(p)
  <2>1. UNCHANGED <<work, stash, mine, arts, job>>
    BY <1>2 DEF Bootstrap, Boot, MakeDirectory, OpenOrInit, EnsureRemote, BootRest, treeVars, userVars
  <2>2. \A q \in Procs : pc'[q] \in StashPcs => pc'[q] = pc[q]
    BY <1>t, <1>2, PcSets DEF Bootstrap, Boot, MakeDirectory, OpenOrInit, EnsureRemote, Goto
  <2>3. QED
    BY <2>1, <2>2, CalmAside DEF Away
<1>3. QED
  BY <1>1, <1>2

LEMMA SyncCalm ==
  ASSUME CalmStep, UNCHANGED home, NEW p \in Procs, Sync(p) \/ Stop(p)
  PROVE  (KeptInv /\ BaseInv /\ ArtsInv /\ PhaseInv)'
<1>t. /\ pc \in [Procs -> {"idle", "ready", "status", "pullStatus"} \cup BootPcs \cup CommitPcs \cup StashPcs]
      /\ job \in [Procs -> Jobs]
  BY DEF CalmStep, TypeInv, TypeOK, GitTypeOK
<1>1. UNCHANGED <<work, stash, mine, arts>>
  BY DEF Sync, CheckStatus, ReadWorkTree, AddAll, ReadParent, Commit, Push, CommitRest, Stop, treeVars, userVars
<1>2. pc'[p] \notin StashPcs
  BY <1>t, PcSets DEF Sync, CheckStatus, ReadWorkTree, AddAll, ReadParent, Commit, Push, Stop, Goto, Return,
                     BootPcs
<1>3. \A q \in Procs \ {p} : pc'[q] = pc[q] /\ job'[q] = job[q]
  BY <1>t DEF Sync, CheckStatus, ReadWorkTree, AddAll, ReadParent, Commit, Push, Stop, Goto, Return, Set
<1>4. QED
  BY <1>1, <1>2, <1>3, CalmAside DEF Away

LEMMA EditCalm ==
  ASSUME CalmStep, UNCHANGED home, Calm', NEW f \in Paths, NEW c \in UserWrites, Edit(f, c)
  PROVE  (KeptInv /\ BaseInv /\ ArtsInv /\ PhaseInv)'
<1>t. mine \in [Paths -> Contents] /\ work \in [Paths -> Contents]
  BY CalmTypes DEF CalmStep
<1>1. /\ UNCHANGED <<stash, arts, pc, job>>
      /\ \A g \in Paths \ {f} : mine'[g] = mine[g] /\ work'[g] = work[g]
      /\ work'[f] = c /\ mine'[f] \in {c, Absent}
  BY <1>t DEF Edit, processVars
<1>2. ASSUME NEW p \in Procs PROVE pc[p] \notin {"stash", "pull"}
  BY DEF Edit, Coincidence, Calm, Window
<1>3. KeptInv'
  <2> SUFFICES ASSUME NEW g \in Paths PROVE Safe(g)' \/ work'[g] = mine'[g]
    BY DEF KeptInv
  <2>1. CASE g = f
    BY <1>1, <2>1 DEF Safe
  <2>2. CASE g # f
    BY <1>1, <2>2, SafeStays DEF CalmStep, KeptInv
  <2>3. QED
    BY <2>1, <2>2
<1>4. BaseInv'
  BY <1>1, BaseStays
<1>5. ArtsInv'
  BY <1>1 DEF CalmStep, ArtsInv
<1>6. ASSUME NEW p \in Procs, pc[p] \in ApplyPcs PROVE ApplyInv(p)'
  <2>1. ApplyInv(p) /\ Current(p)' = Current(p)
    BY <1>1, <1>6 DEF CalmStep, PhaseInv, Current
  <2>2. ASSUME NEW g \in Paths, Elsewhere(p, g) PROVE Elsewhere(p, g)'
    <3>1. CASE g = f
      BY <1>1, <3>1 DEF Elsewhere
    <3>2. CASE g # f
      BY <1>1, <2>2, <3>2, ElsewhereStays
    <3>3. QED
      BY <3>1, <3>2
  <2>3. QED
    BY <1>1, <2>1, <2>2 DEF ApplyInv, Own, Fresh
<1>8. ASSUME NEW p \in Procs, pc[p] \in WritePcs PROVE WriteInv(p)'
  <2>1. WriteInv(p) /\ job[p].file \in Paths
    BY <1>8, PcSets DEF CalmStep, PhaseInv, RestInv, Rests, Stashed
  <2>2. pc[p] = "replace" => job[p].file # f
    BY DEF Edit, Coincidence, Calm, Window
  <2>3. pc[p] = "replace" => Safe(job[p].file)'
    BY <1>1, <2>1, <2>2, SafeStays DEF WriteInv
  <2>4. QED
    BY <1>1, <2>1, <2>3 DEF WriteInv, Ours
<1>7. QED
  BY <1>1, <1>2, <1>3, <1>4, <1>5, <1>6, <1>8 DEF PhaseInv

\* A version that is copied is in a stash, unless the user gives up what he had.
LEMMA CopyCalm ==
  ASSUME CalmStep, Calm', NEW r \in Resolvers, step[r] = "copy", NEW c, CopyFile(r, c)
  PROVE  (KeptInv /\ BaseInv /\ ArtsInv /\ PhaseInv)'
<1>0. task[r].file \in Paths /\ task[r].at \in Times
  BY DEF CalmStep, TypeInv, TypeOK, TaskInv, Tasks
<1>f. PICK f \in Paths, at \in Times : f = task[r].file /\ at = task[r].at
  BY <1>0
<1>t. mine \in [Paths -> Contents] /\ work \in [Paths -> Contents] /\ home \in [Paths -> Contents]
  BY CalmTypes DEF CalmStep
<1>1. /\ UNCHANGED <<stash, arts, pc, job>>
      /\ \A g \in Paths \ {f} : mine'[g] = mine[g] /\ work'[g] = work[g] /\ home'[g] = home[g]
  BY <1>t, <1>f DEF CopyFile, gitVars, processVars
<1>2. mine'[f] # Absent => /\ mine'[f] \in Texts /\ arts[at][f].local = mine'[f]
                           /\ stash[at][f].local = mine'[f]
  <2>1. mine'[f] # Absent => /\ task[r].choice = "local" /\ Version(r) \in Texts
                             /\ mine'[f] = Version(r)
    BY <1>t, <1>f DEF CopyFile
  <2>2. task[r].choice = "local" => Version(r) = arts[at][f].local
    BY <1>f DEF Version
  <2>3. QED
    BY <1>t, <2>1, <2>2 DEF CalmStep, ArtsInv
<1>3. Safe(f)'
  BY <1>t, <1>1, <1>2 DEF Safe
<1>4. \A g \in Paths : Safe(g) => Safe(g)'
  BY <1>1, <1>3, SafeStays
<1>5. KeptInv'
  BY <1>1, <1>3, <1>4 DEF CalmStep, KeptInv
<1>6. BaseInv'
  BY <1>1, BaseStays
<1>7. ArtsInv'
  BY <1>1 DEF CalmStep, ArtsInv
<1>8. ASSUME NEW p \in Procs, pc[p] \in {"stash", "pull"} PROVE UNCHANGED work
  <2>1. f \notin Linked
    BY <1>f, <1>8 DEF CopyFile, Window, Calm
  <2>2. QED
    BY <1>f, <2>1 DEF CopyFile
<1>9. ASSUME NEW p \in Procs, pc[p] = "stash" PROVE StashInv(p)'
  BY <1>1, <1>4, <1>8, <1>9 DEF CalmStep, PhaseInv, StashInv, Stashed, Own, Fresh
<1>10. ASSUME NEW p \in Procs, pc[p] = "pull" PROVE PullInv(p)'
  BY <1>1, <1>4, <1>10 DEF CalmStep, PhaseInv, PullInv, Stashed, Own, Fresh
<1>11. ASSUME NEW p \in Procs, pc[p] \in ApplyPcs PROVE ApplyInv(p)'
  <2>1. ApplyInv(p) /\ Current(p)' = Current(p)
    BY <1>1, <1>11 DEF CalmStep, PhaseInv, Current
  <2>2. ASSUME Fresh(p), NEW g \in Paths, Elsewhere(p, g) PROVE Elsewhere(p, g)'
    <3>1. CASE g = f
      <4>1. mine'[f] # Absent => at # job[p].at
        BY <1>t, <1>2, <2>2 DEF Fresh
      <4>2. QED
        BY <1>t, <1>1, <1>2, <3>1, <4>1 DEF Elsewhere
    <3>2. CASE g # f
      BY <1>1, <2>2, <3>2, ElsewhereStays
    <3>3. QED
      BY <3>1, <3>2
  <2>3. QED
    BY <1>1, <2>1, <2>2 DEF ApplyInv, Own, Fresh
<1>13. ASSUME NEW p \in Procs, pc[p] \in WritePcs PROVE WriteInv(p)'
  <2>1. WriteInv(p) /\ job[p].file \in Paths
    BY <1>13, PcSets DEF CalmStep, PhaseInv, RestInv, Rests, Stashed
  <2>2. QED
    BY <1>1, <1>4, <2>1 DEF WriteInv, Ours
<1>12. QED
  BY <1>1, <1>5, <1>6, <1>7, <1>9, <1>10, <1>11, <1>13 DEF PhaseInv

LEMMA ResolverCalm ==
  ASSUME CalmStep, Calm', NEW r \in Resolvers, Resolver(r)
  PROVE  (KeptInv /\ BaseInv /\ ArtsInv /\ PhaseInv)'
<1>t. /\ mine \in [Paths -> Contents]
      /\ arts \in [Times -> [Paths -> Triples]]
  BY CalmTypes DEF CalmStep
<1>1. CASE Copy(r) \/ CopyFails(r)
  BY <1>1, CopyCalm DEF Copy, CopyFails, Moves
<1>2. CASE ~(Copy(r) \/ CopyFails(r))
  <2>1. UNCHANGED <<work, stash, home, pc, job>>
    BY <1>2 DEF Resolver, Resolve, Find, RemoveArtifacts, RemoveArtifact, Resolved, Abandon,
                gitVars, vars, treeVars, processVars
  <2>2. \A f \in Paths : mine'[f] \in {mine[f], Absent}
    <3>1. UNCHANGED mine \/ \E f \in Paths : mine' = [mine EXCEPT ![f] = Absent]
      BY <1>2 DEF Resolver, Resolve, Find, RemoveArtifacts, RemoveArtifact, Resolved, Abandon,
                  gitVars, vars, userVars
    <3>2. QED
      BY <1>t, <3>1
  <2>3. \A t \in Times, f \in Paths : arts'[t][f].local \in {arts[t][f].local, Absent}
    <3>1. \/ UNCHANGED arts
          \/ \E t, f, kind : /\ kind \in {"local", "remote", "base"}
                             /\ arts' = [arts EXCEPT ![t][f][kind] = Absent]
      BY <1>2 DEF Resolver, Resolve, Find, RemoveArtifacts, RemoveArtifact, Resolved, Abandon,
                  gitVars, vars
    <3>2. ASSUME NEW u, NEW g, NEW kind \in {"local", "remote", "base"},
                 arts' = [arts EXCEPT ![u][g][kind] = Absent], NEW t \in Times, NEW f \in Paths
          PROVE  arts'[t][f].local \in {arts[t][f].local, Absent}
      <4>1. CASE u = t /\ g = f
        <5>1. arts'[t][f] = [arts[t][f] EXCEPT ![kind] = Absent]
          BY <1>t, <3>2, <4>1
        <5>2. arts[t][f] \in Triples
          BY <1>t
        <5>3. QED
          BY <3>2, <5>1, <5>2 DEF Triples
      <4>2. CASE ~(u = t /\ g = f)
        BY <1>t, <3>2, <4>2
      <4>3. QED
        BY <4>1, <4>2
    <3>3. QED
      BY <3>1, <3>2
  <2>4. QED
    BY <2>1, <2>2, <2>3, CalmAside DEF Away
<1>3. QED
  BY <1>1, <1>2

\* The steps of the pull itself, of which there is one at a time.
LEMMA PullerPhase ==
  ASSUME CalmStep, NEW p \in Procs, pc[p] \in StashPcs \/ pc'[p] \in StashPcs,
         \A q \in Procs \ {p} : pc'[q] = pc[q] /\ job'[q] = job[q],
         /\ pc'[p] = "stash" => StashInv(p)'
         /\ pc'[p] = "pull" => PullInv(p)'
         /\ pc'[p] \in ApplyPcs => ApplyInv(p)'
         /\ pc'[p] \in WritePcs => WriteInv(p)'
  PROVE  PhaseInv'
<1>1. \A q \in Procs \ {p} : pc'[q] \notin StashPcs
  BY DEF CalmStep, OnePull
<1>2. QED
  BY <1>1, PcSets DEF PhaseInv

\* Nothing is lost where nothing changes.
LEMMA KeptAside ==
  ASSUME CalmStep, UNCHANGED <<work, stash, arts, home, mine>>
  PROVE  (KeptInv /\ BaseInv /\ ArtsInv)' /\ \A f \in Paths : Safe(f) => Safe(f)'
<1>1. \A f \in Paths : Safe(f) => Safe(f)'
  BY SafeStays
<1>2. KeptInv'
  BY <1>1 DEF CalmStep, KeptInv
<1>3. BaseInv'
  BY BaseStays
<1>4. ArtsInv'
  BY DEF CalmStep, ArtsInv
<1>5. QED
  BY <1>1, <1>2, <1>3, <1>4

\* A clean file is in a commit.
LEMMA CleanIsSafe ==
  ASSUME CalmStep, NEW f \in Paths, work[f] = Tree(head)[f]
  PROVE  Safe(f)
<1>1. head \in Histories
  BY CalmTypes DEF CalmStep
<1>2. CASE work[f] = mine[f] /\ mine[f] # Absent
  BY <1>1, <1>2, WrittenTree DEF Safe
<1>3. QED
  BY <1>2 DEF CalmStep, KeptInv, Safe

LEMMA PullStatusCalm ==
  ASSUME CalmStep, UNCHANGED <<home>>, NEW p \in Procs, PullStatus(p)
  PROVE  (KeptInv /\ BaseInv /\ ArtsInv /\ PhaseInv)'
<1>t. /\ pc \in [Procs -> {"idle", "ready", "status", "pullStatus"} \cup BootPcs \cup CommitPcs \cup StashPcs]
      /\ job \in [Procs -> Jobs]
  BY DEF CalmStep, TypeInv, TypeOK, GitTypeOK
<1>1. UNCHANGED <<work, stash, arts, home, mine, head>> /\ p \in Pullers /\ pc[p] = "ready"
  BY DEF PullStatus, PullRest, treeVars, userVars, Goto
<1>2. (KeptInv /\ BaseInv /\ ArtsInv)' /\ \A f \in Paths : Safe(f) => Safe(f)'
  BY <1>1, KeptAside
<1>3. \A f \in Paths \ Dirty : Safe(f)
  BY CleanIsSafe DEF Dirty
<1>4. CASE Dirty = {}
  <2>1. UNCHANGED job /\ pc' = [pc EXCEPT ![p] = "pull"] /\ Stashed(p) = {}
    BY <1>1, <1>4, PcSets DEF PullStatus, Goto, CalmStep, RestInv, Rests
  <2>2. PullInv(p)'
    BY <1>2, <1>3, <1>4, <2>1 DEF PullInv, Stashed
  <2>3. QED
    BY <1>1, <1>2, <1>t, <2>1, <2>2, PullerPhase, PcSets
<1>5. CASE Dirty # {}
  <2> DEFINE e == [f \in Paths |-> IF f \in Dirty /\ work[f] = Absent
                                  THEN [kind |-> "deleted", base |-> FALSE] ELSE NoEntry]
  <2>1. /\ pc' = [pc EXCEPT ![p] = "stash"] /\ job'[p].left = Dirty /\ job'[p].entry = e
        /\ \A q \in Procs \ {p} : job'[q] = job[q]
    <3>1. /\ pc' = [pc EXCEPT ![p] = "stash"]
          /\ job' = [job EXCEPT ![p].left = Dirty, ![p].at = now, ![p].entry = e]
      BY <1>5 DEF PullStatus, Goto
    <3>2. job[p] \in Jobs
      BY <1>t
    <3> HIDE DEF e
    <3>3. job'[p] = [job[p] EXCEPT !.left = Dirty, !.at = now, !.entry = e]
      BY <1>t, <3>1, <3>2 DEF Jobs
    <3>4. job'[p].left = Dirty /\ job'[p].entry = e
      BY <3>2, <3>3 DEF Jobs
    <3>5. QED
      BY <1>t, <3>1, <3>4
  <2>2. StashInv(p)'
    <3>1. \A f \in Paths \ job'[p].left : Safe(f)'
      BY <1>2, <1>3, <2>1
    <3>2. \A f \in Paths : job'[p].entry[f].kind = "deleted" => work'[f] = Absent
      BY <1>1, <2>1 DEF NoEntry
    <3>3. Stashed(p)' \ job'[p].left = {}
      BY <2>1 DEF Stashed
    <3>4. QED
      BY <3>1, <3>2, <3>3 DEF StashInv
  <2>3. QED
    BY <1>1, <1>2, <1>t, <2>1, <2>2, PullerPhase, PcSets
<1>6. QED
  BY <1>4, <1>5

LEMMA ResetCalm ==
  ASSUME CalmStep, UNCHANGED <<home>>, NEW p \in Procs, Reset(p)
  PROVE  (KeptInv /\ BaseInv /\ ArtsInv /\ PhaseInv)'
<1>t. pc \in [Procs -> {"idle", "ready", "status", "pullStatus"} \cup BootPcs \cup CommitPcs \cup StashPcs]
  BY DEF CalmStep, TypeInv, TypeOK, GitTypeOK
<1>1. /\ UNCHANGED <<stash, arts, home, mine, head, job>> /\ pc[p] = "stash" /\ job[p].left = {}
      /\ pc' = [pc EXCEPT ![p] = "pull"]
  BY DEF Reset, PullRest, userVars, Goto
<1>2. StashInv(p)
  BY <1>1 DEF CalmStep, PhaseInv
<1>3. \A f \in Paths : Safe(f)'
  BY <1>1, <1>2, SafeStays DEF StashInv
<1>4. PullInv(p)'
  BY <1>1, <1>2, <1>3 DEF StashInv, PullInv, Stashed, Own, Fresh
<1>5. BaseInv'
  BY <1>1, BaseStays
<1>6. ArtsInv'
  BY <1>1 DEF CalmStep, ArtsInv
<1>7. PhaseInv'
  BY <1>1, <1>2, <1>4, <1>t, PullerPhase, PcSets
<1>8. QED
  BY <1>3, <1>5, <1>6, <1>7 DEF KeptInv

LEMMA PulledCalm ==
  ASSUME CalmStep, UNCHANGED <<home>>, NEW p \in Procs, UpToDate(p) \/ FastForward(p)
  PROVE  (KeptInv /\ BaseInv /\ ArtsInv /\ PhaseInv)'
<1>t. /\ pc \in [Procs -> {"idle", "ready", "status", "pullStatus"} \cup BootPcs \cup CommitPcs \cup StashPcs]
      /\ job \in [Procs -> Jobs] /\ job[p].at \in Times
  BY CalmTypes DEF CalmStep, TypeInv, TypeOK, GitTypeOK
<1>1. UNCHANGED <<stash, arts, home, mine>> /\ pc[p] = "pull" /\ Pulled(p)
  BY DEF UpToDate, FastForward, PullRest, userVars
<1>2. PullInv(p) /\ ~job[p].conflict
  BY <1>1, PcSets DEF CalmStep, PhaseInv, RestInv, Rests
<1>3. \A f \in Paths : Safe(f)'
  BY <1>1, <1>2, SafeStays DEF PullInv
<1>4. \A q \in Procs \ {p} : pc'[q] = pc[q] /\ job'[q] = job[q]
  BY <1>t, <1>1 DEF Pulled, Return, Goto, Set
<1>5. CASE Stashed(p) = {}
  <2>1. pc'[p] = "ready"
    BY <1>t, <1>1, <1>5 DEF Pulled, Return
  <2>2. PhaseInv'
    BY <1>1, <1>2, <1>4, <2>1, PullerPhase, PcSets
  <2>3. QED
    BY <1>1, <1>3, <2>2, BaseStays DEF KeptInv, CalmStep, ArtsInv
<1>6. CASE Stashed(p) # {}
  <2>1. /\ pc'[p] = "apply" /\ job'[p].left = Stashed(p) /\ job'[p].entry = job[p].entry
        /\ job'[p].at = job[p].at
    <3>1. /\ pc' = [pc EXCEPT ![p] = "apply"]
          /\ job' = [job EXCEPT ![p] = [@ EXCEPT !["left"] = Stashed(p)]]
      BY <1>1, <1>6 DEF Pulled, Goto, Set
    <3>2. job'[p] = [job[p] EXCEPT !["left"] = Stashed(p)] /\ job[p] \in Jobs /\ pc'[p] = "apply"
      BY <1>t, <3>1
    <3>3. QED
      BY <3>2 DEF Jobs
  <2>2. Own(p) /\ Fresh(p)
    BY <1>2, <1>6 DEF PullInv
  <2>3. Own(p)' /\ Fresh(p)'
    BY <1>1, <2>1, <2>2 DEF Own, Fresh
  <2>4. ASSUME NEW f \in Paths \ Stashed(p) PROVE Elsewhere(p, f)'
    <3>1. job[p].entry[f].kind # "copy"
      BY DEF Stashed, NoEntry
    <3>2. stash'[job'[p].at][f].local = Absent
      BY <1>1, <2>1, <2>2, <3>1 DEF Own
    <3>3. QED
      BY <1>3, <3>2 DEF Safe, Elsewhere
  <2>5. ApplyInv(p)'
    BY <2>1, <2>3, <2>4 DEF ApplyInv
  <2>6. PhaseInv'
    BY <1>1, <1>2, <1>4, <2>1, <2>5, PullerPhase, PcSets
  <2>7. QED
    BY <1>1, <1>3, <2>6, BaseStays DEF KeptInv, CalmStep, ArtsInv
<1>7. QED
  BY <1>5, <1>6

LEMMA StashFileCalm ==
  ASSUME CalmStep, Calm', UNCHANGED home, NEW p \in Procs, NEW f \in Paths, StashFile(p, f)
  PROVE  (KeptInv /\ BaseInv /\ ArtsInv /\ PhaseInv)'
<1> DEFINE done == Stashed(p) \ job[p].left
<1>a. Absent \notin Texts
  BY GitSyncAssumption DEF GitSyncAssumption
<1>t. /\ pc \in [Procs -> {"idle", "ready", "status", "pullStatus"} \cup BootPcs \cup CommitPcs \cup StashPcs]
      /\ job \in [Procs -> Jobs] /\ job[p].left \subseteq Paths
      /\ stash \in [Times -> [Paths -> [local : Contents, base : Contents]]]
      /\ head \in Histories /\ work \in [Paths -> Contents]
  BY CalmTypes DEF CalmStep, TypeInv, TypeOK, GitTypeOK
<1>at. PICK t \in Times : t = job[p].at
  BY CalmTypes DEF CalmStep
<1>1. /\ UNCHANGED <<work, arts, home, mine, head, remote, pc>> /\ pc[p] = "stash" /\ f \in job[p].left
  BY DEF StashFile, PullRest, userVars, treeVars
<1>2. StashInv(p)
  BY <1>1 DEF CalmStep, PhaseInv
<1>3. \A g \in Paths \ done : stash[t][g] = NoStash /\ arts[t][g] = None
  BY <1>at DEF StashFile, Coincidence, Calm, Occupied
<1> DEFINE deleted == job[p].entry[f].kind = "deleted" \/ work[f] = Absent
           base == Tree(head)[f]
<1>4. /\ stash'[t][f].local = IF deleted THEN stash[t][f].local ELSE work[f]
      /\ stash'[t][f].base = IF base = Absent THEN stash[t][f].base ELSE base
      /\ \A u \in Times, g \in Paths : u # t \/ g # f => stash'[u][g] = stash[u][g]
  <2>1. stash' = [stash EXCEPT ![t][f] = [local |-> IF deleted THEN @.local ELSE work[f],
                                          base |-> IF base = Absent THEN @.base ELSE base]]
    BY <1>at DEF StashFile
  <2> HIDE DEF deleted, base
  <2>2. QED
    BY <1>t, <2>1
<1>5. /\ job'[p].left = job[p].left \ {f} /\ job'[p].at = t
      /\ job'[p].entry[f].kind = IF deleted THEN "deleted" ELSE "copy"
      /\ \A g \in Paths \ {f} : job'[p].entry[g] = job[p].entry[g]
      /\ \A q \in Procs \ {p} : job'[q] = job[q]
  <2> DEFINE x == [kind |-> IF deleted THEN "deleted" ELSE "copy", base |-> base # Absent]
  <2>1. job' = [job EXCEPT ![p].left = @ \ {f}, ![p].entry[f] = x]
    BY DEF StashFile
  <2>2. x.kind = IF deleted THEN "deleted" ELSE "copy"
    OBVIOUS
  <2> HIDE DEF x, deleted
  <2>3. job'[p].left = job[p].left \ {f} /\ job'[p].at = job[p].at
    BY <1>t, <2>1 DEF Jobs
  <2>4. job'[p].entry = [job[p].entry EXCEPT ![f] = x] /\ job[p].entry \in [Paths -> Entries]
    BY <1>t, <2>1 DEF Jobs
  <2>5. \A q \in Procs \ {p} : job'[q] = job[q]
    BY <1>t, <2>1
  <2>6. QED
    BY <1>at, <2>2, <2>3, <2>4, <2>5
<1>6. stash[t][f].local = Absent /\ stash[t][f].base = Absent /\ arts[t][f].local = Absent
  BY <1>1, <1>3 DEF NoStash, None
<1>7. deleted => work[f] = Absent
  BY <1>2 DEF StashInv
<1>8. ASSUME NEW g \in Paths, Safe(g) PROVE Safe(g)'
  <2>1. CASE mine[g] = Absent
    BY <1>1, <2>1 DEF Safe
  <2>2. CASE mine[g] # Absent
    <3>1. ASSUME NEW u \in Times, stash[u][g].local = mine[g] PROVE stash'[u][g].local = mine[g]
      BY <1>4, <1>6, <2>2, <3>1
    <3>2. QED
      BY <1>1, <1>8, <3>1, SafeStays
  <2>3. QED
    BY <2>1, <2>2
<1>9. Safe(f)'
  <2>1. CASE mine[f] = work[f]
    BY <1>1, <1>4, <1>7, <2>1 DEF Safe
  <2>2. CASE mine[f] # work[f]
    BY <1>8, <2>2 DEF CalmStep, KeptInv
  <2>3. QED
    BY <2>1, <2>2
<1>10. KeptInv'
  BY <1>1, <1>8 DEF CalmStep, KeptInv
<1>11. BaseInv'
  <2> SUFFICES ASSUME NEW u \in Times, NEW g \in Paths, stash'[u][g].base # Absent
               PROVE  LET c == stash'[u][g].base IN Written(head, g, c) \/ Written(remote, g, c)
    BY <1>1 DEF BaseInv
  <2>1. CASE u = t /\ g = f
    BY <1>t, <1>4, <1>6, <2>1, WrittenTree
  <2>2. CASE ~(u = t /\ g = f)
    BY <1>4, <2>2 DEF CalmStep, BaseInv
  <2>3. QED
    BY <2>1, <2>2
<1>12. ArtsInv'
  <2> SUFFICES ASSUME NEW u \in Times, NEW g \in Paths, arts[u][g].local \in Texts
               PROVE  stash'[u][g].local = arts[u][g].local
    BY <1>1 DEF ArtsInv
  <2>1. ~(u = t /\ g = f)
    BY <1>a, <1>6
  <2>2. QED
    BY <1>4, <2>1 DEF CalmStep, ArtsInv
<1>13. Fresh(p)'
  <2>1. CASE done = {}
    BY <1>a, <1>1, <1>3, <1>5, <2>1 DEF Fresh, None
  <2>2. CASE done # {}
    BY <1>at, <1>1, <1>2, <1>5, <2>2 DEF StashInv, Fresh
  <2>3. QED
    BY <2>1, <2>2
<1>14. Own(p)'
  <2> SUFFICES ASSUME NEW g \in Paths, stash'[t][g].local # Absent PROVE job'[p].entry[g].kind = "copy"
    BY <1>5 DEF Own
  <2>1. CASE g = f
    BY <1>4, <1>5, <1>6, <2>1
  <2>2. CASE g # f
    <3>1. stash[t][g].local # Absent
      BY <1>4, <2>2
    <3>2. done # {}
      BY <1>3, <3>1 DEF NoStash
    <3>3. QED
      BY <1>at, <1>2, <1>5, <2>2, <3>1, <3>2 DEF StashInv, Own
  <2>3. QED
    BY <2>1, <2>2
<1>15. StashInv(p)'
  <2>1. \A g \in Paths \ job'[p].left : Safe(g)'
    BY <1>2, <1>5, <1>8, <1>9 DEF StashInv
  <2>2. \A g \in Paths : job'[p].entry[g].kind = "deleted" => work'[g] = Absent
    BY <1>1, <1>2, <1>5, <1>7 DEF StashInv
  <2>3. QED
    BY <1>13, <1>14, <2>1, <2>2 DEF StashInv
<1>16. PhaseInv'
  BY <1>1, <1>2, <1>5, <1>15, PullerPhase, PcSets
<1>17. QED
  BY <1>10, <1>11, <1>12, <1>16

\* What an applied stash overwrites is in a commit, or nothing.
LEMMA WritesTheSafe ==
  ASSUME CalmStep, NEW p \in Procs, NEW f \in Paths, Fate(p, f) = "write"
  PROVE  Safe(f)
<1>1. job[p].at \in Times
  BY CalmTypes DEF CalmStep
<1>2. \/ work[f] \in {Absent, Empty}
      \/ work[f] = stash[job[p].at][f].base
  <2>1. CASE job[p].entry[f].kind = "deleted"
    BY <2>1 DEF Fate
  <2>2. CASE job[p].entry[f].kind # "deleted"
    BY <2>2 DEF Fate
  <2>3. QED
    BY <2>1, <2>2
<1>3. Empty \notin Texts /\ Empty # Absent
  BY GitSyncAssumption DEF GitSyncAssumption, IsInjective
<1>4. CASE work[f] = mine[f]
  BY <1>1, <1>2, <1>3, <1>4 DEF CalmStep, MineInv, BaseInv, Safe
<1>5. QED
  BY <1>4 DEF CalmStep, KeptInv

\* What a file in the stash and elsewhere is worth once the stash is gone.
LEMMA SafeElsewhere ==
  ASSUME NEW p \in Procs, NEW f \in Paths, Safe(f) \/ work[f] = mine[f], Own(p),
         work[f] = Ours(p, f) \/ (job[p].entry[f].kind = "copy" => work[f] = stash[job[p].at][f].local)
  PROVE  Elsewhere(p, f)
<1>1. CASE mine[f] = Absent \/ stash[job[p].at][f].local # mine[f]
  BY <1>1 DEF Safe, Elsewhere
<1>2. CASE mine[f] # Absent /\ stash[job[p].at][f].local = mine[f]
  <2>1. job[p].entry[f].kind = "copy"
    BY <1>2 DEF Own
  <2>2. work[f] = stash[job[p].at][f].local
    BY <2>1 DEF Ours
  <2>3. QED
    BY <1>2, <2>2 DEF Elsewhere
<1>3. QED
  BY <1>1, <1>2

LEMMA DecideCalm ==
  ASSUME CalmStep, UNCHANGED home, NEW p \in Procs, NEW f \in Paths, Decide(p, f)
  PROVE  (KeptInv /\ BaseInv /\ ArtsInv /\ PhaseInv)'
<1>a. LocalGone \notin Texts /\ Absent \notin Texts
  BY GitSyncAssumption DEF GitSyncAssumption
<1>t. TypeOK /\ job[p].at \in Times /\ job[p].entry[f] \in Entries
  BY CalmTypes DEF CalmStep, TypeInv
<1>1. UNCHANGED <<work, stash, arts, home, mine, head>>
  BY DEF Decide, ApplyRest, PullRest, userVars
<1>j. /\ pc[p] = "apply" /\ f \in job[p].left
      /\ job'[p].left = job[p].left \ {f} /\ job'[p].entry = job[p].entry
      /\ job'[p].at = job[p].at /\ job'[p].conflict = job[p].conflict
      /\ \A q \in Procs \ {p} : pc'[q] = pc[q] /\ job'[q] = job[q]
  BY <1>t, DecideJob
<1>2. ApplyInv(p) /\ Current(p) = {}
  BY <1>j, PcSets DEF CalmStep, PhaseInv, Current
<1>3. (KeptInv /\ BaseInv /\ ArtsInv)' /\ \A g \in Paths : Safe(g) => Safe(g)'
  BY <1>1, KeptAside
<1>4. Own(p)' /\ (Fresh(p) => Fresh(p)')
  BY <1>1, <1>2, <1>j DEF ApplyInv, Own, Fresh
<1>5. \A g \in Paths : Elsewhere(p, g) => Elsewhere(p, g)'
  BY <1>1, <1>j, ElsewhereStays
<1>6. CASE pc'[p] = "apply" /\ Fate(p, f) = "keep"
  <2>1. Elsewhere(p, f)
    <3>1. job[p].entry[f].kind = "copy" => work[f] = stash[job[p].at][f].local
      BY <1>6 DEF Fate
    <3>2. QED
      BY <1>2, <3>1, SafeElsewhere DEF CalmStep, KeptInv, ApplyInv
  <2>2. ApplyInv(p)'
    BY <1>2, <1>4, <1>5, <1>j, <2>1 DEF ApplyInv
  <2>3. PhaseInv'
    BY <1>6, <1>j, <2>2, PullerPhase, PcSets
  <2>4. QED
    BY <1>3, <2>3
<1>7. CASE pc'[p] \in {"replace", "copyRemote"} /\ job'[p].file = f
  <2>1. Current(p)' = {f}
    BY <1>7, PcSets DEF Current
  <2>2. ApplyInv(p)'
    BY <1>2, <1>4, <1>5, <1>j, <2>1 DEF ApplyInv
  <2>3. WriteInv(p)'
    <3>1. Ours(p, f)' = Ours(p, f)
      BY <1>1, <1>j DEF Ours
    <3>2. CASE pc'[p] = "replace"
      <4>1. Fate(p, f) = "write" /\ job'[p].held.local = Ours(p, f)
        BY <1>t, <3>2, DecideJob
      <4>2. Safe(f)'
        BY <1>3, <4>1, WritesTheSafe
      <4>3. QED
        BY <1>7, <3>1, <3>2, <4>1, <4>2, PcSets DEF WriteInv
    <3>3. CASE pc'[p] = "copyRemote"
      <4>1. job'[p].held.local = IF Ours(p, f) = Absent THEN LocalGone ELSE Ours(p, f)
        BY <1>t, <3>3, DecideJob
      <4>2. job'[p].held.local \in Texts => job'[p].held.local = stash[job[p].at][f].local
        BY <1>a, <4>1 DEF Ours
      <4>3. QED
        BY <1>1, <1>7, <1>j, <3>3, <4>2 DEF WriteInv
    <3>4. QED
      BY <1>7, <3>2, <3>3
  <2>4. PhaseInv'
    BY <1>7, <1>j, <2>2, <2>3, PullerPhase, PcSets
  <2>5. QED
    BY <1>3, <2>4
<1>8. QED
  BY <1>6, <1>7, <1>t, DecideJob

LEMMA ReplaceCalm ==
  ASSUME CalmStep, UNCHANGED home, NEW p \in Procs, Replace(p)
  PROVE  (KeptInv /\ BaseInv /\ ArtsInv /\ PhaseInv)'
<1>t. TypeOK /\ job[p].at \in Times /\ job[p].conflict \in BOOLEAN /\ work \in [Paths -> Contents]
  BY CalmTypes DEF CalmStep, TypeInv
<1>1. /\ UNCHANGED <<stash, arts, home, mine, head>> /\ pc[p] = "replace"
      /\ NextFile(p, job[p].conflict)
  BY DEF Replace, ApplyRest, PullRest, userVars
<1>j. /\ pc'[p] = "apply" /\ job'[p].left = job[p].left /\ job'[p].entry = job[p].entry
      /\ job'[p].at = job[p].at /\ job'[p].conflict = job[p].conflict
      /\ \A q \in Procs \ {p} : pc'[q] = pc[q] /\ job'[q] = job[q]
  BY <1>t, <1>1, NextFileJob
<1>f. PICK f \in Paths : f = job[p].file
  BY <1>1, PcSets DEF CalmStep, RestInv, Rests, Stashed
<1>2. /\ ApplyInv(p) /\ Current(p) = {f} /\ Safe(f) /\ job[p].held.local = Ours(p, f)
  BY <1>1, <1>f, PcSets DEF CalmStep, PhaseInv, Current, WriteInv
<1>3. work'[f] = Ours(p, f) /\ \A g \in Paths \ {f} : work'[g] = work[g]
  BY <1>t, <1>2, <1>f DEF Replace
<1>4. \A g \in Paths : Safe(g) => Safe(g)'
  BY <1>1, SafeStays
<1>5. KeptInv'
  BY <1>1, <1>2, <1>3, <1>4 DEF CalmStep, KeptInv
<1>6. BaseInv' /\ ArtsInv'
  BY <1>1, BaseStays DEF CalmStep, ArtsInv
<1>7. Own(p)' /\ (Fresh(p) => Fresh(p)') /\ Current(p)' = {}
  BY <1>1, <1>2, <1>j, PcSets DEF ApplyInv, Own, Fresh, Current
<1>8. Elsewhere(p, f)'
  <2>1. Ours(p, f)' = Ours(p, f)
    BY <1>1, <1>j DEF Ours
  <2>2. /\ job'[p].entry[f].kind = "copy" => work'[f] = stash'[job'[p].at][f].local
        /\ Safe(f)'
    BY <1>2, <1>3, <1>4, <2>1 DEF Ours
  <2>3. CASE mine'[f] = Absent \/ stash'[job'[p].at][f].local # mine'[f]
    BY <2>2, <2>3 DEF Safe, Elsewhere
  <2>4. CASE mine'[f] # Absent /\ stash'[job'[p].at][f].local = mine'[f]
    BY <1>7, <2>2, <2>4 DEF Own, Elsewhere
  <2>5. QED
    BY <2>3, <2>4
<1>9. \A g \in Paths \ {f} : Elsewhere(p, g) => Elsewhere(p, g)'
  BY <1>1, <1>3, <1>j, ElsewhereStays
<1>10. ApplyInv(p)'
  BY <1>2, <1>7, <1>8, <1>9, <1>j DEF ApplyInv
<1>11. PhaseInv'
  BY <1>1, <1>10, <1>j, PullerPhase, PcSets
<1>12. QED
  BY <1>5, <1>6, <1>11

\* The remote and the base version of a conflict.
LEMMA CopiesCalm ==
  ASSUME CalmStep, UNCHANGED home, NEW p \in Procs, CopyRemote(p) \/ CopyBase(p)
  PROVE  (KeptInv /\ BaseInv /\ ArtsInv /\ PhaseInv)'
<1>t. TypeOK /\ job[p].at \in Times
  BY CalmTypes DEF CalmStep, TypeInv
<1>1. UNCHANGED <<work, stash, home, mine, head>>
  BY DEF CopyRemote, CopyBase, ArtifactRest, ApplyRest, PullRest, userVars
<1>j. /\ pc[p] \in {"copyRemote", "copyBase"} /\ pc'[p] \in {"copyBase", "copyLocal"}
      /\ job' = job /\ \A q \in Procs \ {p} : pc'[q] = pc[q]
  BY <1>t, CopyJob
<1>f. job[p].file \in Paths
  BY <1>j, PcSets DEF CalmStep, RestInv, Rests, Stashed
<1>2. \A t \in Times, g \in Paths : arts'[t][g].local = arts[t][g].local
  <2>1. ASSUME NEW version \in {"remote", "base"}, NEW c, WriteArtifact(p, version, c)
        PROVE  \A t \in Times, g \in Paths : arts'[t][g].local = arts[t][g].local
    <3>1. version \in {"remote", "base", "local"} /\ version # "local"
      BY <2>1
    <3>2. /\ \A u \in Times, g \in Paths : u # job[p].at \/ g # job[p].file => arts'[u][g] = arts[u][g]
          /\ arts'[job[p].at][job[p].file]["local"] = arts[job[p].at][job[p].file]["local"]
      BY <1>t, <1>f, <2>1, <3>1, WriteOne
    <3>3. QED
      BY <3>2
  <2>2. QED
    BY <2>1 DEF CopyRemote, CopyBase
<1>3. \A g \in Paths : Safe(g) => Safe(g)'
  BY <1>1, SafeStays
<1>4. KeptInv'
  BY <1>1, <1>3 DEF CalmStep, KeptInv
<1>5. BaseInv' /\ ArtsInv'
  BY <1>1, <1>2, BaseStays DEF CalmStep, ArtsInv
<1>6. ApplyInv(p) /\ WriteInv(p) /\ Current(p)' = Current(p)
  BY <1>j, PcSets DEF CalmStep, PhaseInv, Current
<1>7. \A g \in Paths : Elsewhere(p, g) => Elsewhere(p, g)'
  BY <1>1, <1>j, ElsewhereStays
<1>8. ApplyInv(p)'
  BY <1>t, <1>1, <1>2, <1>6, <1>7, <1>j DEF ApplyInv, Own, Fresh
<1>9. WriteInv(p)'
  BY <1>1, <1>6, <1>j, PcSets DEF WriteInv
<1>10. PhaseInv'
  BY <1>8, <1>9, <1>j, PullerPhase, PcSets
<1>11. QED
  BY <1>4, <1>5, <1>10

LEMMA CopyLocalCalm ==
  ASSUME CalmStep, UNCHANGED home, NEW p \in Procs, CopyLocal(p)
  PROVE  (KeptInv /\ BaseInv /\ ArtsInv /\ PhaseInv)'
<1>t. TypeOK /\ job[p].at \in Times
  BY CalmTypes DEF CalmStep, TypeInv
<1>1. /\ UNCHANGED <<work, stash, home, mine, head>> /\ pc[p] = "copyLocal" /\ NextFile(p, TRUE)
      /\ WriteArtifact(p, "local", job[p].held.local)
  BY DEF CopyLocal, ArtifactRest, ApplyRest, PullRest, userVars
<1>j. /\ pc'[p] = "apply" /\ job'[p].entry = job[p].entry
      /\ job'[p].at = job[p].at /\ job'[p].conflict = TRUE
      /\ \A q \in Procs \ {p} : pc'[q] = pc[q] /\ job'[q] = job[q]
  BY <1>t, <1>1, NextFileJob
<1>f. PICK f \in Paths : f = job[p].file
  BY <1>1, PcSets DEF CalmStep, RestInv, Rests, Stashed
<1>2. /\ arts'[job[p].at][f].local = job[p].held.local
      /\ \A u \in Times, g \in Paths : u # job[p].at \/ g # f => arts'[u][g] = arts[u][g]
  <2>1. WriteArtifact(p, "local", job[p].held.local) /\ TypeOK /\ job[p].file \in Paths
    BY <1>t, <1>f, <1>1
  <2>2. arts'[job[p].at][f].local = job[p].held.local
    BY <1>f, <2>1, WriteVersion
  <2>3. \A u \in Times, g \in Paths : u # job[p].at \/ g # f => arts'[u][g] = arts[u][g]
    BY <1>f, <2>1, WriteAside
  <2>4. QED
    BY <2>2, <2>3
<1>3. ApplyInv(p) /\ WriteInv(p)
  BY <1>1, PcSets DEF CalmStep, PhaseInv
<1>4. KeptInv'
  BY <1>1, SafeStays DEF CalmStep, KeptInv
<1>5. BaseInv'
  BY <1>1, BaseStays
<1>6. ArtsInv'
  BY <1>1, <1>2, <1>3, <1>f, PcSets DEF CalmStep, ArtsInv, WriteInv
<1>7. ApplyInv(p)'
  BY <1>1, <1>3, <1>j DEF ApplyInv, Own
<1>8. PhaseInv'
  BY <1>1, <1>7, <1>j, PullerPhase, PcSets
<1>9. QED
  BY <1>4, <1>5, <1>6, <1>8

LEMMA ApplyFailsCalm ==
  ASSUME CalmStep, UNCHANGED home, NEW p \in Procs, ApplyFails(p)
  PROVE  (KeptInv /\ BaseInv /\ ArtsInv /\ PhaseInv)'
<1>a. Empty \notin Texts
  BY GitSyncAssumption DEF GitSyncAssumption
<1>t. TypeOK /\ job[p].at \in Times /\ work \in [Paths -> Contents]
  BY CalmTypes DEF CalmStep, TypeInv
<1>1. UNCHANGED <<stash, home, mine, head>> /\ pc[p] \in WritePcs /\ Return(p)
  BY PcSets DEF ApplyFails, ApplyRest, PullRest, userVars
<1>2. pc'[p] = "ready" /\ \A q \in Procs \ {p} : pc'[q] = pc[q] /\ job'[q] = job[q]
  BY <1>1, <1>t DEF TypeOK, GitTypeOK, Return
<1>f. PICK f \in Paths : f = job[p].file
  BY <1>1, PcSets DEF CalmStep, RestInv, Rests, Stashed
<1>3. \A g \in Paths : Safe(g) => Safe(g)'
  BY <1>1, SafeStays
<1>4. BaseInv'
  BY <1>1, BaseStays
<1>5. KeptInv'
  <2>1. \/ UNCHANGED work
        \/ pc[p] = "replace" /\ \A g \in Paths \ {f} : work'[g] = work[g]
    BY <1>t, <1>f DEF ApplyFails, Truncates
  <2>2. pc[p] = "replace" => Safe(f)
    BY <1>1, <1>f DEF CalmStep, PhaseInv, WriteInv
  <2>3. QED
    BY <1>1, <1>3, <2>1, <2>2 DEF CalmStep, KeptInv
<1>6. \A t \in Times, g \in Paths : arts'[t][g].local \in {arts[t][g].local, Empty}
  <2>1. ASSUME NEW version \in {"remote", "base", "local"}, WriteArtifact(p, version, Empty)
        PROVE  \A t \in Times, g \in Paths : arts'[t][g].local \in {arts[t][g].local, Empty}
    <3>1. TypeOK /\ job[p].file \in Paths
      BY <1>t, <1>f
    <3>2. \A u \in Times, g \in Paths : u # job[p].at \/ g # f => arts'[u][g] = arts[u][g]
      BY <1>f, <2>1, <3>1, WriteAside
    <3>3. arts'[job[p].at][f]["local"] =
            IF "local" = version THEN Empty ELSE arts[job[p].at][f]["local"]
      BY <1>f, <2>1, <3>1, WriteOne
    <3>4. QED
      BY <3>2, <3>3
  <2>2. QED
    BY <2>1 DEF ApplyFails, Truncates
<1>7. ArtsInv'
  BY <1>a, <1>1, <1>6 DEF CalmStep, ArtsInv
<1>8. PhaseInv'
  BY <1>1, <1>2, PullerPhase, PcSets
<1>9. QED
  BY <1>4, <1>5, <1>7, <1>8

\* The stash goes, and nothing with it.
LEMMA AppliedCalm ==
  ASSUME CalmStep, UNCHANGED home, NEW p \in Procs, Applied(p)
  PROVE  (KeptInv /\ BaseInv /\ ArtsInv /\ PhaseInv)'
<1>t. /\ pc \in [Procs -> {"idle", "ready", "status", "pullStatus"} \cup BootPcs \cup CommitPcs \cup StashPcs]
      /\ job \in [Procs -> Jobs] /\ job[p].conflict \in BOOLEAN
      /\ stash \in [Times -> [Paths -> [local : Contents, base : Contents]]]
      /\ head \in Histories /\ remote \in Histories /\ job[p].at \in Times
  BY CalmTypes DEF CalmStep, TypeInv, TypeOK, GitTypeOK
<1>1. /\ UNCHANGED <<work, arts, home, mine, head, remote>> /\ pc[p] = "apply" /\ Return(p)
      /\ job[p].left = {}
  BY DEF Applied, PullRest, userVars, treeVars
<1>2. /\ ApplyInv(p) /\ pc'[p] = "ready" /\ Current(p) = {}
      /\ \A q \in Procs \ {p} : pc'[q] = pc[q] /\ job'[q] = job[q]
  BY <1>1, <1>t, PcSets DEF CalmStep, PhaseInv, Return, Current
<1>3. PhaseInv'
  BY <1>1, <1>2, PullerPhase, PcSets
<1>4. CASE job[p].conflict
  <2>1. UNCHANGED stash
    BY <1>4 DEF Applied
  <2>2. QED
    BY <1>1, <1>3, <2>1, KeptAside
<1>5. CASE ~job[p].conflict
  <2>1. \A t \in Times, f \in Paths :
          stash'[t][f] = IF t = job[p].at THEN NoStash ELSE stash[t][f]
    BY <1>5, <1>t DEF Applied
  <2>2. Fresh(p) /\ \A f \in Paths : Elsewhere(p, f)
    BY <1>1, <1>2, <1>5 DEF ApplyInv
  <2>3. KeptInv'
    BY <1>1, <2>1, <2>2 DEF Elsewhere, KeptInv, Safe
  <2>4. BaseInv'
    BY <2>1, BaseStays DEF NoStash
  <2>5. ArtsInv'
    BY <1>1, <2>1, <2>2 DEF CalmStep, ArtsInv, Fresh
  <2>6. QED
    BY <1>3, <2>3, <2>4, <2>5
<1>6. QED
  BY <1>4, <1>5

LEMMA PullCalm ==
  ASSUME CalmStep, Calm', UNCHANGED home, NEW p \in Procs, Pull(p)
  PROVE  (KeptInv /\ BaseInv /\ ArtsInv /\ PhaseInv)'
<1>1. CASE PullRefused(p)
  <2>1. UNCHANGED <<work, stash, arts, mine>> /\ Return(p)
    BY <1>1 DEF PullRefused, PullRest, userVars
  <2>2. \A q \in Procs : Away(q)
    BY <2>1, PcSets DEF Away, Return, CalmStep, TypeInv, TypeOK, GitTypeOK
  <2>3. QED
    BY <2>1, <2>2, CalmAside
<1>2. QED
  BY <1>1, PullStatusCalm, StashFileCalm, ResetCalm, PulledCalm, DecideCalm, ReplaceCalm, CopiesCalm,
     CopyLocalCalm, ApplyFailsCalm, AppliedCalm DEF Pull

-----------------------------------------------------------------------------
EditInv == TypeInv /\ RestInv /\ MineInv /\ BareInv /\ CalmInv

LEMMA OnePullKept ==
  ASSUME TypeOK, OnePull, "pulls" \notin odd', Next
  PROVE  OnePull'
<1>1. CASE UNCHANGED <<pc, job>>
  BY <1>1 DEF OnePull
<1>2. ASSUME NEW p \in Procs, Bootstrap(p) \/ Sync(p) \/ Pull(p) \/ Stop(p) PROVE OnePull'
  <2>1. \A q \in Procs \ {p} : pc'[q] = pc[q]
    BY <1>2, OthersStay
  <2>2. CASE PullStatus(p)
    BY <2>1, <2>2 DEF PullStatus, BeginsPull, Beside, OnePull
  <2>3. CASE ~PullStatus(p)
    <3>1. pc'[p] \in StashPcs => pc[p] \in StashPcs
      <4>1. CASE Bootstrap(p)
        BY <4>1, PcSets DEF Bootstrap, Boot, MakeDirectory, Clone, OpenOrInit, EnsureRemote, Goto,
                            TypeOK, GitTypeOK
      <4>2. CASE Sync(p)
        BY <4>2, PcSets DEF Sync, CheckStatus, ReadWorkTree, AddAll, ReadParent, Commit, Push, Goto, Return,
                            TypeOK, GitTypeOK
      <4>3. CASE Stop(p)
        BY <4>3, PcSets DEF Stop, Goto, Return, TypeOK, GitTypeOK
      <4>4. CASE Pull(p)
        BY <2>3, <4>4, PcSets
           DEF Pull, StashFile, Reset, UpToDate, FastForward, PullRefused, Pulled, Decide, Takes, Replace,
               CopyRemote, CopyBase, CopyLocal, ApplyFails, Applied, Goto, Return
      <4>5. QED
        BY <1>2, <4>1, <4>2, <4>3, <4>4
    <3>2. QED
      BY <2>1, <3>1 DEF OnePull
  <2>4. QED
    BY <2>2, <2>3
<1>3. QED
  BY <1>1, <1>2, ProcessesStay

LEMMA CalmKept ==
  ASSUME EditInv, [Next]_allVars
  PROVE  CalmInv'
<1>1. CASE UNCHANGED allVars
  <2>1. UNCHANGED <<head, remote, work, stash, arts, mine, home, pc, job, odd>>
    BY <1>1 DEF allVars, vars, resolveVars, setupVars, treeVars, processVars, userVars
  <2>2. CalmInv /\ (Calm' => Calm)
    BY <2>1 DEF EditInv, Calm
  <2>3. Calm' => (KeptInv /\ BaseInv /\ ArtsInv)'
    BY <2>1, <2>2 DEF CalmInv, KeptInv, BaseInv, ArtsInv, Safe, Written
  <2>6. Calm' => OnePull'
    BY <2>1, <2>2 DEF CalmInv, OnePull
  <2>4. Calm' => PhaseInv'
    <3>1. \A p, f : /\ Safe(f)' = Safe(f) /\ Ours(p, f)' = Ours(p, f)
                    /\ Elsewhere(p, f)' = Elsewhere(p, f)
      BY <2>1 DEF Ours, Elsewhere, Safe, Written
    <3>2. \A p : /\ Stashed(p)' = Stashed(p) /\ Current(p)' = Current(p)
                 /\ Own(p)' = Own(p) /\ Fresh(p)' = Fresh(p)
      BY <2>1 DEF Stashed, Current, Own, Fresh
    <3>3. PhaseInv' = PhaseInv
      BY <2>1, <3>1, <3>2 DEF PhaseInv, StashInv, PullInv, ApplyInv, WriteInv
    <3>4. QED
      BY <2>2, <3>3 DEF CalmInv
  <2>5. QED
    BY <2>3, <2>4, <2>6 DEF CalmInv
<1>2. CASE Next
  <2> SUFFICES ASSUME Calm' PROVE (OnePull /\ KeptInv /\ BaseInv /\ ArtsInv /\ PhaseInv)'
    BY DEF CalmInv
  <2>1. Calm /\ "overwrite" \notin odd' /\ "pulls" \notin odd'
    BY OddGrows DEF Calm
  <2>o. OnePull'
    BY <1>2, <2>1, OnePullKept DEF EditInv, CalmInv, TypeInv
  <2>2. TypeInv'
    BY TypesKept DEF EditInv
  <2>3. CalmStep
    BY <1>2, <2>1, <2>2, <2>o, BranchesGoOn DEF EditInv, CalmInv, CalmStep, TypeInv
  <2>4. ASSUME GitNext, UNCHANGED resolveVars PROVE (KeptInv /\ BaseInv /\ ArtsInv /\ PhaseInv)'
    <3>0. UNCHANGED home
      BY <2>4 DEF resolveVars
    <3>1. CASE Tick \/ \E f \in Paths, c \in OtherWrites : RemoteCommit(f, c)
      <4>1. UNCHANGED <<work, stash, arts, mine, pc, job>>
        BY <3>1 DEF Tick, RemoteCommit, treeVars, processVars, userVars
      <4>2. QED
        BY <2>3, <3>0, <4>1, CalmAside DEF Away
    <3>2. QED
      BY <2>3, <2>4, <3>0, <3>1, BootCalm, SyncCalm, PullCalm, EditCalm DEF GitNext
  <2>5. QED
    BY <1>2, <2>3, <2>4, <2>o, ResolverCalm DEF Next
<1>3. QED
  BY <1>1, <1>2

\* What the user wrote last is in the work tree, in a commit, in a stash or among
\* the artifacts, whatever fails and whoever else is at work on the repository,
\* also between the read and the write of a file, unless one of the coincidences
\* that the property names has come about; it assumes nothing of the processes.
THEOREM NoEditLostCorrect == Spec => []NoEditLost
<1>1. Init => EditInv
  <2> SUFFICES ASSUME Init PROVE EditInv
    OBVIOUS
  <2>1. TypeInv
    BY InitTypes DEF TypeInv, TaskInv, Init
  <2>2. RestInv
    BY PcSets DEF Init, GitInit, RestInv, Rests, NoJob, NoEntry, Stashed
  <2>3. MineInv
    BY DEF Init, GitInit, MineInv
  <2>4. BareInv
    BY DEF Init, GitInit, BareInv
  <2>5. CalmInv
    BY GitSyncAssumption, PcSets DEF Init, GitInit, CalmInv, OnePull, KeptInv, Safe, BaseInv, ArtsInv,
                                     PhaseInv, NoStash, None, GitSyncAssumption
  <2>6. QED
    BY <2>1, <2>2, <2>3, <2>4, <2>5 DEF EditInv
<1>2. EditInv /\ [Next]_allVars => EditInv'
  BY TypesKept, RestKept, MineKept, BareKept, CalmKept DEF EditInv, TypeInv
<1>3. EditInv => NoEditLost
  <2> SUFFICES ASSUME EditInv, Calm, NEW f \in Paths
               PROVE  \/ mine[f] = Absent \/ InPlace(f, mine[f])
                      \/ InStashes(f, mine[f])
    BY DEF NoEditLost, Calm
  <2>1. Safe(f) \/ work[f] = mine[f]
    BY DEF EditInv, CalmInv, KeptInv
  <2>2. QED
    BY <2>1 DEF Safe, Written, InPlace, InHistory, InStashes
<1>4. QED
  BY <1>1, <1>2, <1>3, PTL DEF Spec

-----------------------------------------------------------------------------
(* The user finds his edit.                                                  *)

\* None of the coincidences that hide an edit.
Undisturbed == odd \cap {"edit", "second", "failure", "processes", "resolvers"} = {}

\* One process at a time changes the repository, and makes its commit upon the
\* tip of the branch.
AtWork(p) == pc[p] \in CommitPcs \cup StashPcs
AloneInv == \A p, q \in Procs : AtWork(p) /\ AtWork(q) => p = q
TipInv == \A p \in Procs : pc[p] = "commitWrite" => job[p].parent = head

\* No conflict is later than the clock, or than the stash that is in use.
UsesStash(p) == pc[p] = "stash" \/ (pc[p] = "pull" /\ Stashed(p) # {}) \/ pc[p] \in ApplyPcs
ClockInv ==
  /\ \A f \in Paths : \A t \in Dirs(f) : t <= now
  /\ \A p \in Procs : UsesStash(p) =>
       job[p].at <= now /\ \A f \in Paths : \A t \in Dirs(f) : t <= job[p].at

\* One resolver is at work, and the conflict that he is about is still there.
OneResolver == \A r, s \in Resolvers : step[r] # "idle" /\ step[s] # "idle" => r = s
HeldInv ==
  \A r \in Resolvers :
    step[r] \in {"copy", "local", "remote"} => arts[task[r].at][task[r].file].remote # Absent

\* In the second of the stash there are no artifacts of the files to apply.
Untouched(p) ==
  /\ \/ pc[p] = "stash" /\ Stashed(p) \ job[p].left # {}
     \/ pc[p] = "pull" /\ Stashed(p) # {}
     => \A f \in Paths : arts[job[p].at][f] = None
  /\ pc[p] \in ApplyPcs => \A f \in job[p].left : arts[job[p].at][f] = None
  /\ pc[p] = "copyRemote" => arts[job[p].at][job[p].file] = None
UntouchedInv == \A p \in Procs : Untouched(p)

\* The user's version of a file is where it is wanted, or need not be.
Placed(f) ==
  \/ mine[f] = Absent \/ home[f] = mine[f]
  \/ Written(head, f, mine[f]) \/ Written(remote, f, mine[f])

\* It is in the stash of p, which is to be applied: to a file still to come, or to
\* the one it is at.  The conflict over that one, while it is written, has its remote
\* version, and no resolver is removing it.
Holds(p, f) == job[p].entry[f].kind = "copy" /\ stash[job[p].at][f].local = mine[f]
Removes(r, t, f) == step[r] \in {"local", "remote"} /\ task[r].at = t /\ task[r].file = f
Returns(p, f) ==
  /\ Holds(p, f)
  /\ \/ pc[p] = "pull"
     \/ pc[p] \in ApplyPcs /\ f \in job[p].left
     \/ /\ f \in Current(p)
        /\ pc[p] \in {"copyBase", "copyLocal"} =>
             /\ arts[job[p].at][f].remote # Absent
             /\ \A r \in Resolvers : ~Removes(r, job[p].at, f)

\* A reset reaches what p has stashed, or what is in a commit.
PutAway(p) ==
  /\ pc[p] = "stash" => \A f \in Paths :
       /\ job[p].entry[f].kind = "deleted" => work[f] = Absent
       /\ f \notin job[p].left /\ work[f] = mine[f] => Placed(f) \/ Holds(p, f)
  /\ pc[p] = "pull" => /\ ~Unstaged
                       /\ \A f \in Paths : work[f] = mine[f] => Placed(f) \/ Holds(p, f)
PutAwayInv == \A p \in Procs : PutAway(p)

\* What p is writing is what it has decided upon, and a file that it writes is
\* still what it was then.
Writes(p) ==
  LET f == job[p].file IN
  /\ pc[p] = "replace" => Fate(p, f) = "write" /\ job[p].held.local = Ours(p, f)
  /\ pc[p] \in ArtifactPcs =>
       job[p].held.local = IF Ours(p, f) = Absent THEN LocalGone ELSE Ours(p, f)
WritesInv == \A p \in Procs : Writes(p)

Clean(f) == work[f] = Tree(head)[f] /\ index[f] = Tree(head)[f]

\* p will not make another conflict over the file.
LeavesAlone(p, f) ==
  /\ pc[p] = "stash" => f \notin job[p].left \cup Stashed(p)
  /\ pc[p] = "pull" => f \notin Stashed(p)
  /\ pc[p] \in ApplyPcs => f \notin job[p].left \cup Current(p)
  /\ pc[p] = "addWrite" => job[p].add[f] = work[f]

\* It is the local version of the latest conflict, and stays it.
Listed(f) ==
  /\ Dirs(f) # {} /\ LatestConflict(f).local = mine[f]
  /\ Clean(f)
  /\ \A p \in Procs : LeavesAlone(p, f)
  /\ \A r \in Resolvers : ~Removes(r, Max(Dirs(f)), f)

Returned(f) == Clean(f) /\ \E p \in Procs : Returns(p, f)
Hand(f) == Placed(f) \/ work[f] = mine[f] \/ Returned(f) \/ Listed(f)
HandInv == \A f \in Paths : Hand(f)

\* What is true of the processes, and beside them of the resolvers and the user.
CourseInv ==
  /\ "overwrite" \notin odd /\ BaseInv /\ AloneInv /\ TipInv /\ ClockInv
  /\ UntouchedInv /\ PutAwayInv /\ WritesInv
FoundInv == CourseInv /\ OneResolver /\ HeldInv /\ HandInv

\* A step upon which both branches go on.
GoesOn == TypeInv /\ TypeInv' /\ IsPrefix(head, head') /\ IsPrefix(remote, remote')

\* A step from such a state without a disturbance.
CourseStep ==
  /\ GoesOn /\ RestInv /\ MineInv /\ BareInv /\ CourseInv /\ AloneInv'
  /\ Undisturbed' /\ Next
FoundStep == CourseStep /\ FoundInv

-----------------------------------------------------------------------------

LEMMA FoundTypes ==
  ASSUME TypeInv
  PROVE  /\ TypeOK /\ pc \in [Procs -> PcTypes] /\ job \in [Procs -> Jobs]
         /\ index \in [Paths -> Contents] /\ Tree(head) \in [Paths -> Contents]
         /\ step \in [Resolvers -> Steps] /\ task \in [Resolvers -> Tasks]
         /\ now \in Times
         /\ \A p \in Procs : job[p].add \in [Paths -> Contents] /\ job[p].parent \in Histories
BY TreeType DEF TypeInv, TypeOK, GitTypeOK, Trees, PcTypes, Jobs

\* The others stay where they are.
LEMMA AloneKept ==
  ASSUME TypeInv, AloneInv, Undisturbed', Next
  PROVE  AloneInv'
<1>t. TypeOK /\ pc \in [Procs -> PcTypes]
  BY FoundTypes
<1>1. ASSUME NEW p \in Procs, Bootstrap(p) \/ Sync(p) \/ Pull(p) \/ Stop(p) PROVE AloneInv'
  <2>1. \A q \in Procs \ {p} : AtWork(q)' = AtWork(q)
    BY <1>t, <1>1, OthersStay DEF AtWork
  <2>2. AtWork(p)' => AtWork(p) \/ \A q \in Procs \ {p} : ~AtWork(q)
    <3>1. CASE CheckStatus(p) \/ PullStatus(p)
      BY <3>1 DEF CheckStatus, PullStatus, Begins, BeginsPull, Beside, AtWork, Coincidence, Undisturbed
    <3>2. CASE Bootstrap(p)
      BY <1>t, <3>2, PcSets DEF Bootstrap, Boot, MakeDirectory, Clone, OpenOrInit, EnsureRemote, Goto, AtWork,
                                CommitPcs, BootRest
    <3>3. CASE Stop(p)
      BY <1>t, <3>3, PcSets DEF Stop, Goto, Return, AtWork, CommitPcs
    <3>4. CASE Sync(p) /\ ~CheckStatus(p)
      BY <1>t, <3>4 DEF Sync, ReadWorkTree, AddAll, ReadParent, Commit, Push, Goto, Return, AtWork, CommitPcs
    <3>5. CASE Pull(p) /\ ~PullStatus(p)
      <4>1. pc[p] \in StashPcs
        BY <3>5, PcSets
           DEF Pull, StashFile, Reset, UpToDate, FastForward, PullRefused, Decide, Takes, Replace, CopyRemote,
               CopyBase, CopyLocal, ApplyFails, Applied, Goto
      <4>2. QED
        BY <4>1 DEF AtWork
    <3>6. QED
      BY <1>1, <3>1, <3>2, <3>3, <3>4, <3>5
  <2>3. QED
    BY <2>1, <2>2 DEF AloneInv
<1>2. CASE UNCHANGED pc
  BY <1>2 DEF AloneInv, AtWork
<1>3. QED
  BY <1>1, <1>2, ProcessesStay

\* The tip moves under nobody who is about to commit.
LEMMA TipKept ==
  ASSUME TypeInv, BareInv, AloneInv, TipInv, Undisturbed', Next
  PROVE  TipInv' /\ ("overwrite" \notin odd => "overwrite" \notin odd')
<1>t. TypeOK /\ pc \in [Procs -> PcTypes] /\ job \in [Procs -> Jobs]
  BY FoundTypes
<1>1. ASSUME NEW p \in Procs, Bootstrap(p) \/ Sync(p) \/ Pull(p) \/ Stop(p) PROVE TipInv'
  <2>0. \A q \in Procs \ {p} : pc'[q] = pc[q] /\ job'[q] = job[q]
    BY <1>t, <1>1, OthersStay
  <2>1. CASE ReadParent(p)
    <3>1. UNCHANGED head /\ job' = [job EXCEPT ![p] = [@ EXCEPT !["parent"] = head]]
      BY <2>1 DEF ReadParent, Set
    <3>2. job'[p].parent = head
      <4>1. job'[p] = [job[p] EXCEPT !["parent"] = head] /\ job[p] \in Jobs /\ head \in Histories
        BY <1>t, <3>1 DEF TypeInv, TypeOK, GitTypeOK
      <4>2. QED
        BY <4>1, JobParent
    <3>3. QED
      BY <2>0, <3>1, <3>2 DEF TipInv
  <2>2. CASE UNCHANGED head /\ pc'[p] # "commitWrite"
    BY <2>0, <2>2 DEF TipInv
  <2>3. CASE AtWork(p) /\ pc'[p] # "commitWrite"
    BY <2>0, <2>3 DEF TipInv, AloneInv, AtWork, CommitPcs
  <2>4. CASE Clone(p)
    BY <1>t, <2>0, <2>4 DEF Clone, Goto, BareInv, TipInv
  <2>5. CASE (Bootstrap(p) /\ ~Clone(p)) \/ Stop(p)
    BY <1>t, <2>2, <2>5 DEF Bootstrap, Boot, MakeDirectory, OpenOrInit, EnsureRemote, BootRest, Stop, Goto, Return, treeVars
  <2>6. CASE Sync(p) /\ ~ReadParent(p)
    <3>1. pc'[p] # "commitWrite"
      BY <1>t, <2>6 DEF Sync, CheckStatus, ReadWorkTree, AddAll, Commit, Push, Goto, Return
    <3>2. UNCHANGED head \/ AtWork(p)
      BY <2>6 DEF Sync, CheckStatus, ReadWorkTree, AddAll, Commit, Push, AtWork, CommitPcs
    <3>3. QED
      BY <2>2, <2>3, <3>1, <3>2
  <2>7. CASE Pull(p)
    <3>1. pc'[p] # "commitWrite"
      BY <1>t, <2>7
         DEF Pull, PullStatus, StashFile, Reset, UpToDate, FastForward, PullRefused, Pulled, Decide, Takes,
             Replace, CopyRemote, CopyBase, CopyLocal, NextFile, ApplyFails, Applied, Goto, Return
    <3>2. UNCHANGED head \/ AtWork(p)
      BY <2>7, PcSets
         DEF Pull, PullStatus, StashFile, Reset, UpToDate, FastForward, PullRefused, Decide, Replace, CopyRemote,
             CopyBase, CopyLocal, ArtifactRest, ApplyFails, Applied, ApplyRest, treeVars, AtWork
    <3>3. QED
      BY <2>2, <2>3, <3>1, <3>2
  <2>8. QED
    BY <1>1, <2>1, <2>4, <2>5, <2>6, <2>7
<1>2. ASSUME UNCHANGED <<pc, job, head>> PROVE TipInv'
  BY <1>2 DEF TipInv
<1>3. ASSUME NEW r \in Resolvers, Resolver(r) PROVE UNCHANGED <<pc, job, head>>
  BY <1>3 DEF Resolver, Resolve, Find, Copy, CopyFails, CopyFile, RemoveArtifacts,
              RemoveArtifact, Resolved, Abandon, gitVars, vars, processVars, treeVars
<1>4. TipInv'
  BY <1>1, <1>2, <1>3 DEF Next, GitNext, Edit, RemoteCommit, Tick, processVars, treeVars
<1>5. ASSUME "overwrite" \in odd', "overwrite" \notin odd PROVE FALSE
  <2>1. ASSUME NEW p \in Procs, Commit(p) PROVE FALSE
    BY <1>5, <2>1 DEF Commit, Coincidence, TipInv
  <2>2. ASSUME NEW p \in Procs, Bootstrap(p) \/ (Sync(p) /\ ~Commit(p)) \/ Stop(p) PROVE FALSE
    BY <1>5, <2>2 DEF Bootstrap, Boot, MakeDirectory, Clone, OpenOrInit, EnsureRemote, BootRest,
                      Sync, CheckStatus, ReadWorkTree, AddAll, ReadParent, Push, Stop, Begins, Strands, Coincidence
  <2>3. ASSUME NEW p \in Procs, Pull(p) PROVE FALSE
    <3>1. CASE PullStatus(p)
      BY <1>5, <3>1 DEF PullStatus, BeginsPull
    <3>2. CASE \E f \in Paths : StashFile(p, f)
      BY <1>5, <3>2 DEF StashFile, Coincidence
    <3>3. CASE PullRefused(p) \/ ApplyFails(p)
      BY <1>5, <3>3 DEF PullRefused, ApplyFails, Strands, Coincidence
    <3>4. CASE UNCHANGED odd
      BY <1>5, <3>4
    <3>5. QED
      BY <2>3, <3>1, <3>2, <3>3, <3>4 DEF Pull, Reset, UpToDate, FastForward, Decide, Replace,
         CopyRemote, CopyBase, CopyLocal, ArtifactRest, Applied
  <2>4. ASSUME NEW r \in Resolvers, Resolver(r) PROVE FALSE
    <3>1. CASE Copy(r) \/ CopyFails(r)
      BY <1>5, <3>1 DEF Copy, CopyFails, CopyFile
    <3>2. CASE Abandon(r)
      BY <1>5, <3>2 DEF Abandon, Coincidence
    <3>5. ASSUME NEW choice \in Versions, Resolve(r, choice) PROVE FALSE
      BY <1>5, <3>5 DEF Resolve, Coincidence
    <3>3. CASE UNCHANGED odd
      BY <1>5, <3>3
    <3>4. QED
      BY <2>4, <3>1, <3>2, <3>3, <3>5 DEF Resolver, Find, RemoveArtifacts, RemoveArtifact, Resolved, vars
  <2>5. QED
    <3>1. ASSUME NEW f \in Paths, NEW c \in UserWrites, Edit(f, c) PROVE FALSE
      BY <1>5, <3>1 DEF Edit, Coincidence
    <3>2. QED
      BY <1>5, <2>1, <2>2, <2>3, <2>4, <3>1 DEF Next, GitNext, RemoteCommit, Tick
<1>6. QED
  BY <1>4, <1>5

\* A failure while the changes are stashed away is a disturbance.
LEMMA NoFailure ==
  ASSUME TypeInv, RestInv, Undisturbed', NEW p \in Procs
  PROVE  /\ ~ApplyFails(p)
         /\ Stop(p) \/ PullRefused(p) => pc[p] \notin {"pull"} \cup ApplyPcs \/ Stashed(p) = {}
<1>1. pc[p] \in WritePcs => Stashed(p) # {}
  BY DEF RestInv, Rests
<1>2. ASSUME Strands(p) PROVE pc[p] \notin {"pull"} \cup ApplyPcs \/ Stashed(p) = {}
  BY <1>2 DEF Strands, Coincidence, Undisturbed
<1>3. QED
  BY <1>1, <1>2, PcSets DEF ApplyFails, Stop, PullRefused

\* What the steps of a pull upon one file make of its job: each of them leaves the
\* stash and its entries.
LEMMA ApplyJob ==
  ASSUME TypeInv, NEW p \in Procs,
         (\E f \in Paths : Decide(p, f)) \/ Replace(p) \/ CopyRemote(p) \/ CopyBase(p) \/ CopyLocal(p)
  PROVE  /\ pc[p] \in ApplyPcs /\ pc'[p] \in ApplyPcs
         /\ job'[p].left \subseteq job[p].left
         /\ job'[p].left \cup Current(p)' \subseteq job[p].left \cup Current(p)
         /\ job'[p].entry = job[p].entry /\ job'[p].at = job[p].at /\ Stashed(p)' = Stashed(p)
         /\ UNCHANGED <<index, head, stash, mine, basis, remote, now>>
<1>t. TypeOK /\ job[p] \in Jobs
  BY FoundTypes
<1>1. UNCHANGED <<index, head, stash, mine, basis, remote, now>>
  BY DEF Decide, Replace, CopyRemote, CopyBase, CopyLocal, ArtifactRest, ApplyRest, PullRest, userVars
<1>6. SUFFICES /\ pc[p] \in ApplyPcs /\ pc'[p] \in ApplyPcs /\ job'[p].left \subseteq job[p].left
               /\ job'[p].left \cup Current(p)' \subseteq job[p].left \cup Current(p)
               /\ job'[p].entry = job[p].entry /\ job'[p].at = job[p].at
  BY <1>1 DEF Stashed
<1>2. ASSUME NEW f \in Paths, Decide(p, f)
      PROVE  /\ pc[p] \in ApplyPcs /\ pc'[p] \in ApplyPcs /\ job'[p].left \subseteq job[p].left
             /\ job'[p].left \cup Current(p)' \subseteq job[p].left \cup Current(p)
             /\ job'[p].entry = job[p].entry /\ job'[p].at = job[p].at
  BY <1>t, <1>2, DecideJob, PcSets DEF Current
<1>3. CASE Replace(p) \/ CopyLocal(p)
  <2>1. \E c \in BOOLEAN : NextFile(p, c)
    BY <1>t, <1>3 DEF Replace, CopyLocal, Jobs
  <2>2. /\ pc'[p] = "apply" /\ job'[p].left = job[p].left
        /\ job'[p].entry = job[p].entry /\ job'[p].at = job[p].at
    BY <1>t, <2>1, NextFileJob
  <2>3. pc[p] \in ApplyPcs
    BY <1>3, PcSets DEF Replace, CopyLocal
  <2>4. Current(p)' = {}
    BY <2>2, PcSets DEF Current
  <2>5. QED
    BY <2>2, <2>3, <2>4, PcSets
<1>4. CASE CopyRemote(p) \/ CopyBase(p)
  BY <1>t, <1>4, CopyJob, PcSets DEF Current
<1>5. QED
  BY <1>2, <1>3, <1>4

\* What a write makes of the artifacts.
LEMMA CopyArtifacts ==
  ASSUME TypeInv, RestInv, NEW p \in Procs, CopyRemote(p) \/ CopyBase(p) \/ CopyLocal(p)
  PROVE  LET at == job[p].at
             f == job[p].file
         IN  /\ at \in Times /\ f \in Paths
             /\ \A u \in Times, g \in Paths : u # at \/ g # f => arts'[u][g] = arts[u][g]
             /\ arts'[at][f].remote = IF CopyRemote(p) THEN job[p].held.remote ELSE arts[at][f].remote
             /\ arts'[at][f].local = IF CopyLocal(p) THEN job[p].held.local ELSE arts[at][f].local
<1> DEFINE at == job[p].at
           f == job[p].file
<1>t. TypeOK /\ at \in Times /\ pc \in [Procs -> PcTypes]
  BY CalmTypes, FoundTypes
<1>f. f \in Paths
  BY PcSets DEF RestInv, Rests, CopyRemote, CopyBase, CopyLocal, Goto, Stashed
<1> HIDE DEF at, f
<1>1. ASSUME NEW version \in {"remote", "base", "local"}, NEW c, WriteArtifact(p, version, c)
      PROVE  /\ \A u \in Times, g \in Paths : u # at \/ g # f => arts'[u][g] = arts[u][g]
             /\ arts'[at][f].remote = IF version = "remote" THEN c ELSE arts[at][f].remote
             /\ arts'[at][f].local = IF version = "local" THEN c ELSE arts[at][f].local
  <2>a. /\ \A u \in Times, g \in Paths :
             u # job[p].at \/ g # job[p].file => arts'[u][g] = arts[u][g]
        /\ \A k \in {"remote", "base", "local"} :
             arts'[job[p].at][job[p].file][k]
               = IF k = version THEN c ELSE arts[job[p].at][job[p].file][k]
    <3>1. job[p].file \in Paths
      BY <1>f DEF f
    <3>2. QED
      BY <1>t, <3>1, <1>1, WriteOne
  <2>1. /\ \A u \in Times, g \in Paths : u # at \/ g # f => arts'[u][g] = arts[u][g]
        /\ \A k \in {"remote", "base", "local"} : arts'[at][f][k] = IF k = version THEN c ELSE arts[at][f][k]
    BY <2>a DEF at, f
  <2>2. /\ arts'[at][f]["remote"] = IF version = "remote" THEN c ELSE arts[at][f]["remote"]
        /\ arts'[at][f]["local"] = IF version = "local" THEN c ELSE arts[at][f]["local"]
    BY <2>1
  <2>3. QED
    BY <2>1, <2>2
<1>2. CASE CopyRemote(p)
  <2>1. WriteArtifact(p, "remote", job[p].held.remote) /\ ~CopyLocal(p)
    BY <1>2 DEF CopyRemote, CopyLocal, Goto
  <2>2. QED
    BY <1>t, <1>f, <1>1, <1>2, <2>1 DEF at, f
<1>3. CASE CopyBase(p)
  <2>1. (arts' = arts \/ WriteArtifact(p, "base", job[p].held.base)) /\ ~CopyRemote(p) /\ ~CopyLocal(p)
    BY <1>3 DEF CopyBase, CopyRemote, CopyLocal, Goto
  <2>2. CASE arts' = arts
    BY <1>t, <1>f, <2>1, <2>2 DEF at, f
  <2>3. CASE WriteArtifact(p, "base", job[p].held.base)
    BY <1>t, <1>f, <1>1, <2>1, <2>3 DEF at, f
  <2>4. QED
    BY <2>1, <2>2, <2>3
<1>4. CASE CopyLocal(p)
  <2>1. WriteArtifact(p, "local", job[p].held.local) /\ ~CopyRemote(p)
    BY <1>4 DEF CopyRemote, CopyLocal, Goto
  <2>2. QED
    BY <1>t, <1>f, <1>1, <1>4, <2>1 DEF at, f
<1>5. QED
  BY <1>2, <1>3, <1>4

LEMMA PullStatusJob ==
  ASSUME TypeInv, NEW p \in Procs, PullStatus(p)
  PROVE  /\ Dirty = {} => pc'[p] = "pull" /\ job' = job
         /\ Dirty # {} =>
              /\ pc'[p] = "stash" /\ job'[p].left = Dirty /\ job'[p].at = now
              /\ Stashed(p)' \subseteq Dirty
              /\ \A f \in Paths : job'[p].entry[f].kind = "deleted" => work[f] = Absent
<1>t. /\ pc \in [Procs -> PcTypes] /\ job \in [Procs -> Jobs]
  BY FoundTypes
<1>1. CASE Dirty = {}
  BY <1>t, <1>1 DEF PullStatus, Goto
<1>2. CASE Dirty # {}
  <2> DEFINE e == [f \in Paths |-> IF f \in Dirty /\ work[f] = Absent
                                  THEN [kind |-> "deleted", base |-> FALSE] ELSE NoEntry]
  <2>1. /\ pc' = [pc EXCEPT ![p] = "stash"]
        /\ job' = [job EXCEPT ![p].left = Dirty, ![p].at = now, ![p].entry = e]
    BY <1>2 DEF PullStatus, Goto
  <2> HIDE DEF e
  <2>2. job'[p] = [job[p] EXCEPT !.left = Dirty, !.at = now, !.entry = e]
    BY <1>t, <2>1 DEF Jobs
  <2>3. job'[p].left = Dirty /\ job'[p].at = now /\ job'[p].entry = e
    <3>1. job[p] \in Jobs
      BY <1>t
    <3>2. QED
      BY <2>2, <3>1 DEF Jobs
  <2>4. \A f \in Paths : /\ e[f] # NoEntry => f \in Dirty
                         /\ e[f].kind = "deleted" => work[f] = Absent
    BY DEF e, NoEntry
  <2>5. QED
    BY <1>t, <1>2, <2>1, <2>3, <2>4 DEF Stashed
<1>3. QED
  BY <1>1, <1>2

\* What is stashed of a file, if nothing else uses the second.
LEMMA StashFileJob ==
  ASSUME TypeInv, Undisturbed', NEW p \in Procs, NEW f \in Paths, StashFile(p, f),
         job[p].entry[f].kind = "deleted" => work[f] = Absent
  PROVE  /\ pc[p] = "stash" /\ f \in job[p].left
         /\ job'[p].left = job[p].left \ {f} /\ job'[p].at = job[p].at
         /\ \A g \in Paths \ {f} : job'[p].entry[g] = job[p].entry[g]
         /\ job'[p].entry[f].kind = IF work[f] = Absent THEN "deleted" ELSE "copy"
         /\ job'[p].entry[f].base = (Tree(head)[f] # Absent)
         /\ Stashed(p)' = Stashed(p) \cup {f}
         /\ \A g \in Paths \ (Stashed(p) \ job[p].left) :
              stash[job[p].at][g] = NoStash /\ arts[job[p].at][g] = None
         /\ \A u \in Times, g \in Paths : u # job[p].at \/ g # f => stash'[u][g] = stash[u][g]
         /\ stash'[job[p].at][f] = [local |-> work[f], base |-> Tree(head)[f]]
<1>t. /\ pc \in [Procs -> PcTypes] /\ job \in [Procs -> Jobs]
      /\ stash \in [Times -> [Paths -> [local : Contents, base : Contents]]]
      /\ job[p].at \in Times /\ job[p] \in Jobs
  BY FoundTypes, CalmTypes
<1>1. pc[p] = "stash" /\ f \in job[p].left
  BY DEF StashFile
<1>2. \A g \in Paths \ (Stashed(p) \ job[p].left) :
        stash[job[p].at][g] = NoStash /\ arts[job[p].at][g] = None
  BY DEF StashFile, Occupied, Coincidence, Undisturbed
<1> DEFINE deleted == job[p].entry[f].kind = "deleted" \/ work[f] = Absent
           base == Tree(head)[f]
           x == [kind |-> IF deleted THEN "deleted" ELSE "copy", base |-> base # Absent]
           t == job[p].at
<1>3. /\ stash' = [stash EXCEPT ![t][f] = [local |-> IF deleted THEN stash[t][f].local ELSE work[f],
                                           base |-> IF base = Absent THEN stash[t][f].base ELSE base]]
      /\ job' = [job EXCEPT ![p].left = @ \ {f}, ![p].entry[f] = x]
  BY <1>t DEF StashFile
<1>4. deleted <=> work[f] = Absent
  OBVIOUS
<1>5. x # NoEntry /\ x.kind = (IF work[f] = Absent THEN "deleted" ELSE "copy")
      /\ x.base = (Tree(head)[f] # Absent)
  BY <1>4 DEF NoEntry
<1>6. stash[t][f].local = Absent /\ stash[t][f].base = Absent
  BY <1>1, <1>2 DEF NoStash
<1> HIDE DEF x, base, deleted, t
<1>7. /\ \A u \in Times, g \in Paths : u # t \/ g # f => stash'[u][g] = stash[u][g]
      /\ stash'[t][f] = [local |-> work[f], base |-> base]
  <2>1. /\ \A u \in Times, g \in Paths : u # t \/ g # f => stash'[u][g] = stash[u][g]
        /\ stash'[t][f] = [local |-> IF deleted THEN stash[t][f].local ELSE work[f],
                           base |-> IF base = Absent THEN stash[t][f].base ELSE base]
    BY <1>t, <1>3 DEF t
  <2>2. QED
    BY <1>4, <1>6, <2>1
<1>8. job'[p].left = job[p].left \ {f} /\ job'[p].at = job[p].at
      /\ job'[p].entry = [job[p].entry EXCEPT ![f] = x]
  BY <1>t, <1>3 DEF Jobs
<1>9. job'[p].entry[f] = x /\ \A g \in Paths \ {f} : job'[p].entry[g] = job[p].entry[g]
  BY <1>t, <1>8 DEF Jobs
<1>10. Stashed(p)' = Stashed(p) \cup {f}
  BY <1>5, <1>9 DEF Stashed
<1>11. QED
  BY <1>1, <1>2, <1>5, <1>7, <1>8, <1>9, <1>10 DEF base, t

\* What a resolver removes.
LEMMA RemoveArtifactOne ==
  ASSUME TypeInv, NEW r \in Resolvers, NEW kind \in {"local", "remote", "base"},
         NEW next, RemoveArtifact(r, kind, next)
  PROVE  /\ \A u \in Times, g \in Paths : u # task[r].at \/ g # task[r].file => arts'[u][g] = arts[u][g]
         /\ \A k \in {"local", "remote", "base"} :
              arts'[task[r].at][task[r].file][k] =
                IF k = kind THEN Absent ELSE arts[task[r].at][task[r].file][k]
         /\ \A u \in Times, g \in Paths : arts[u][g] = None => arts'[u][g] = None
         /\ \A g \in Paths : Dirs(g)' \subseteq Dirs(g)
<1> DEFINE at == task[r].at
           f == task[r].file
           x == arts[at][f]
<1>t. /\ arts \in [Times -> [Paths -> Triples]]
      /\ at \in Times /\ f \in Paths
  BY CalmTypes, FoundTypes DEF RemoveArtifact, Moves, TypeInv, TaskInv, Tasks
<1>1. arts' = [arts EXCEPT ![at][f] = [x EXCEPT ![kind] = Absent]]
  BY <1>t DEF RemoveArtifact
<1>2. x \in Triples
  BY <1>t
<1> HIDE DEF at, f, x
<1>3. /\ \A u \in Times, g \in Paths : u # at \/ g # f => arts'[u][g] = arts[u][g]
      /\ arts'[at][f] = [x EXCEPT ![kind] = Absent]
  BY <1>t, <1>1
<1>4. \A k \in {"local", "remote", "base"} : arts'[at][f][k] = IF k = kind THEN Absent ELSE x[k]
  BY <1>2, <1>3 DEF Triples
<1>5. x = None => arts'[at][f] = None
  BY <1>2, <1>3 DEF None, Triples
<1>6. ASSUME NEW g \in Paths, NEW u \in Dirs(g)' PROVE u \in Dirs(g)
  <2>1. u \in Times /\ arts'[u][g].remote # Absent
    BY <1>6 DEF Dirs
  <2>2. CASE u # at \/ g # f
    BY <1>3, <2>1, <2>2 DEF Dirs
  <2>3. CASE u = at /\ g = f
    BY <1>4, <2>1, <2>3 DEF Dirs, x
  <2>4. QED
    BY <2>2, <2>3
<1>7. QED
  BY <1>3, <1>4, <1>5, <1>6 DEF at, f, x

\* What a pull takes up or goes on with.
LEMMA PulledJob ==
  ASSUME TypeInv, NEW p \in Procs, UpToDate(p) \/ FastForward(p)
  PROVE  /\ Stashed(p) = {} => pc'[p] = "ready"
         /\ Stashed(p) # {} =>
              /\ pc'[p] = "apply" /\ job'[p].left = Stashed(p)
              /\ job'[p].entry = job[p].entry /\ job'[p].at = job[p].at
<1>t. pc \in [Procs -> PcTypes] /\ job \in [Procs -> Jobs]
  BY FoundTypes
<1>1. CASE Stashed(p) = {}
  BY <1>t, <1>1 DEF UpToDate, FastForward, Pulled, Return
<1>2. CASE Stashed(p) # {}
  <2>1. pc' = [pc EXCEPT ![p] = "apply"] /\ job' = [job EXCEPT ![p] = [@ EXCEPT !["left"] = Stashed(p)]]
    BY <1>2 DEF UpToDate, FastForward, Pulled, Goto, Set
  <2>2. job'[p] = [job[p] EXCEPT !["left"] = Stashed(p)]
    BY <1>t, <2>1
  <2>3. job'[p].left = Stashed(p) /\ job'[p].entry = job[p].entry /\ job'[p].at = job[p].at
    <3>1. job[p] \in Jobs
      BY <1>t
    <3>2. QED
      BY <2>2, <3>1 DEF Jobs
  <2>4. QED
    BY <1>t, <1>2, <2>1, <2>3
<1>3. QED
  BY <1>1, <1>2

\* A step of the pull leads from a phase to the next.
LEMMA Phases ==
  ASSUME TypeInv, RestInv, Undisturbed', NEW p \in Procs, Bootstrap(p) \/ Sync(p) \/ Pull(p) \/ Stop(p),
         pc'[p] \in StashPcs
  PROVE  \/ PullStatus(p) \/ Reset(p) \/ UpToDate(p) \/ FastForward(p)
         \/ (\E f \in Paths : StashFile(p, f) \/ Decide(p, f))
         \/ Replace(p) \/ CopyRemote(p) \/ CopyBase(p) \/ CopyLocal(p)
<1>t. pc \in [Procs -> PcTypes]
  BY FoundTypes
<1>1. CASE Bootstrap(p)
  BY <1>t, <1>1, PcSets DEF Bootstrap, Boot, MakeDirectory, Clone, OpenOrInit, EnsureRemote, Goto, BootRest
<1>2. CASE Sync(p) \/ Stop(p)
  BY <1>t, <1>2, PcSets DEF Sync, CheckStatus, ReadWorkTree, AddAll, ReadParent, Commit, Push, Stop, Goto, Return
<1>3. CASE Pull(p)
  <2>1. ~PullRefused(p) /\ ~Applied(p)
    BY <1>t, PcSets DEF PullRefused, Applied, Return
  <2>2. QED
    BY <1>3, <2>1, NoFailure DEF Pull
<1>4. QED
  BY <1>1, <1>2, <1>3

LEMMA ClockKept ==
  ASSUME TypeInv, RestInv, AloneInv, AloneInv', ClockInv, Undisturbed', Next
  PROVE  ClockInv'
<1>t. /\ TypeOK /\ pc \in [Procs -> PcTypes] /\ job \in [Procs -> Jobs] /\ now \in Nat
      /\ \A p \in Procs : job[p].at \in Nat
      /\ \A f \in Paths : Dirs(f) \subseteq Nat
  BY FoundTypes, CalmTypes, GitSyncAssumption DEF Times, Dirs, GitSyncAssumption
<1>1. CASE UNCHANGED <<pc, job, now>> /\ \A f \in Paths : Dirs(f)' \subseteq Dirs(f)
  BY <1>1 DEF ClockInv, UsesStash, Stashed
<1>2. CASE Tick
  <2>1. UNCHANGED <<pc, job, arts>> /\ now' = now + 1
    BY <1>2 DEF Tick, processVars
  <2>2. \A p \in Procs : UsesStash(p)' = UsesStash(p)
    BY <2>1 DEF UsesStash, Stashed
  <2>3. \A f \in Paths : Dirs(f)' = Dirs(f)
    BY <2>1 DEF Dirs
  <2>4. QED
    BY <1>t, <2>1, <2>2, <2>3 DEF ClockInv
<1>3. ASSUME NEW p \in Procs, Bootstrap(p) \/ Sync(p) \/ Pull(p) \/ Stop(p) PROVE ClockInv'
  <2>0. UNCHANGED now /\ \A q \in Procs \ {p} : pc'[q] = pc[q] /\ job'[q] = job[q]
    <3>1. UNCHANGED now
      BY <1>3 DEF Bootstrap, Boot, MakeDirectory, Clone, OpenOrInit, EnsureRemote, BootRest,
                  Sync, CheckStatus, ReadWorkTree, AddAll, ReadParent, Commit, Push, CommitRest, Stop,
                  Pull, PullStatus, StashFile, Reset, UpToDate, FastForward, PullRefused, Decide, Replace,
                  CopyRemote, CopyBase, CopyLocal, ArtifactRest, ApplyFails, Applied, ApplyRest, PullRest
    <3>2. QED
      BY <1>t, <1>3, <3>1, OthersStay
  <2>1. \A q \in Procs \ {p} : UsesStash(q)' = UsesStash(q)
    BY <2>0 DEF UsesStash, Stashed
  <2>2. UsesStash(p)' => \/ UsesStash(p) /\ job'[p].at = job[p].at
                         \/ job'[p].at = now
    <3> SUFFICES ASSUME UsesStash(p)'
                 PROVE  (UsesStash(p) /\ job'[p].at = job[p].at) \/ job'[p].at = now
      OBVIOUS
    <3>1. pc'[p] \in StashPcs
      BY PcSets DEF UsesStash
    <3>2. CASE PullStatus(p)
      <4>1. Dirty # {}
        <5>1. ASSUME Dirty = {} PROVE FALSE
          <6>1. pc[p] = "ready" /\ pc'[p] = "pull" /\ job' = job
            BY <3>2, <5>1, PullStatusJob DEF PullStatus
          <6>2. Stashed(p)' = {}
            BY <6>1, PcSets DEF RestInv, Rests, Stashed
          <6>3. QED
            BY <6>1, <6>2, PcSets DEF UsesStash
        <5>2. QED
          BY <5>1
      <4>2. QED
        BY <3>2, <4>1, PullStatusJob
    <3>3. CASE Reset(p)
      BY <1>t, <3>3, PcSets DEF Reset, Goto, UsesStash, Stashed
    <3>4. CASE UpToDate(p) \/ FastForward(p)
      <4>1. pc[p] = "pull"
        BY <3>4 DEF UpToDate, FastForward
      <4>2. Stashed(p) # {}
        BY <3>4, PulledJob, PcSets DEF UsesStash
      <4>3. QED
        BY <3>4, <4>1, <4>2, PulledJob DEF UsesStash
    <3>5. ASSUME NEW f \in Paths, StashFile(p, f)
          PROVE  UsesStash(p) /\ job'[p].at = job[p].at
      <4>1. PICK x : job' = [job EXCEPT ![p].left = @ \ {f}, ![p].entry[f] = x]
        BY <3>5, Zenon DEF StashFile
      <4>2. job'[p].at = job[p].at
        BY <1>t, <4>1 DEF Jobs
      <4>3. QED
        BY <3>5, <4>2 DEF StashFile, UsesStash
    <3>6. CASE (\E f \in Paths : Decide(p, f)) \/ Replace(p) \/ CopyRemote(p) \/ CopyBase(p) \/ CopyLocal(p)
      BY <3>6, ApplyJob DEF UsesStash
    <3>7. QED
      BY <1>3, <3>1, <3>2, <3>3, <3>4, <3>5, <3>6, Phases
  <2>3. CASE \A f \in Paths : Dirs(f)' \subseteq Dirs(f)
    <3> SUFFICES ASSUME NEW q \in Procs, UsesStash(q)'
                 PROVE  job'[q].at <= now /\ \A f \in Paths : \A t \in Dirs(f) : t <= job'[q].at
      BY <2>0, <2>3 DEF ClockInv
    <3>1. CASE q = p
      BY <1>t, <2>2, <3>1 DEF ClockInv
    <3>2. CASE q # p
      BY <2>0, <2>1, <3>2 DEF ClockInv
    <3>3. QED
      BY <3>1, <3>2
  <2>4. CASE CopyRemote(p) \/ CopyBase(p) \/ CopyLocal(p)
    <3>1. pc[p] \in ApplyPcs /\ pc'[p] \in ApplyPcs /\ job'[p].at = job[p].at /\ job[p].at <= now
      BY <1>t, <2>4, ApplyJob DEF ClockInv, UsesStash
    <3>2. \A g \in Paths : \A u \in Dirs(g)' : u \in Dirs(g) \/ u = job[p].at
      BY <2>4, CopyArtifacts DEF Dirs
    <3>3. \A q \in Procs \ {p} : ~UsesStash(q)'
      BY <3>1, PcSets DEF AloneInv, AtWork, UsesStash
    <3>4. \A g \in Paths : \A u \in Dirs(g)' : u <= now /\ u <= job[p].at
      BY <1>t, <3>1, <3>2 DEF ClockInv, UsesStash
    <3>5. QED
      BY <2>0, <3>1, <3>3, <3>4 DEF ClockInv
  <2>5. CASE ~(CopyRemote(p) \/ CopyBase(p) \/ CopyLocal(p))
    <3>1. UNCHANGED arts
      BY <1>3, <2>5, NoFailure
         DEF Bootstrap, Boot, MakeDirectory, Clone, OpenOrInit, EnsureRemote, BootRest,
             Sync, CheckStatus, ReadWorkTree, AddAll, ReadParent, Commit, Push, CommitRest, Stop,
             Pull, PullStatus, StashFile, Reset, UpToDate, FastForward, PullRefused, Decide, Replace, Applied
    <3>2. QED
      BY <2>3, <3>1 DEF Dirs
  <2>6. QED
    BY <2>4, <2>5
<1>4. ASSUME NEW r \in Resolvers, Resolver(r) PROVE ClockInv'
  <2>1. UNCHANGED <<pc, job, now>>
    BY <1>4 DEF Resolver, Resolve, Find, Copy, CopyFails, CopyFile, RemoveArtifacts,
                RemoveArtifact, Resolved, Abandon, gitVars, vars, processVars
  <2>2. CASE UNCHANGED arts
    BY <1>1, <2>1, <2>2 DEF Dirs
  <2>3. CASE RemoveArtifacts(r)
    BY <1>1, <2>1, <2>3, RemoveArtifactOne DEF RemoveArtifacts
  <2>4. QED
    BY <1>4, <2>2, <2>3 DEF Resolver, Resolve, Find, Copy, CopyFails, CopyFile, Resolved, Abandon, vars
<1>5. ASSUME NEW f \in Paths, (\E c \in UserWrites : Edit(f, c)) \/ (\E c \in OtherWrites : RemoteCommit(f, c))
      PROVE  ClockInv'
  BY <1>1, <1>5 DEF Edit, RemoteCommit, processVars, Dirs
<1>6. QED
  BY <1>2, <1>3, <1>4, <1>5 DEF Next, GitNext

LEMMA PlacedStays ==
  ASSUME GoesOn, NEW f \in Paths, mine'[f] = mine[f], home'[f] = home[f], Placed(f)
  PROVE  Placed(f)'
<1>1. /\ head \in Histories /\ remote \in Histories /\ head' \in Histories /\ remote' \in Histories
  BY DEF GoesOn, TypeInv, TypeOK, GitTypeOK
<1>2. /\ Written(head, f, mine[f]) => Written(head', f, mine[f])
      /\ Written(remote, f, mine[f]) => Written(remote', f, mine[f])
  BY <1>1, WrittenStays DEF GoesOn
<1>3. QED
  BY <1>2 DEF Placed

LEMMA BaseGoesOn ==
  ASSUME GoesOn, BaseInv,
         \A t \in Times, f \in Paths : stash'[t][f].base \in {stash[t][f].base, Absent, Tree(head)[f]}
  PROVE  BaseInv'
<1>1. /\ head \in Histories /\ remote \in Histories /\ head' \in Histories /\ remote' \in Histories
  BY DEF GoesOn, TypeInv, TypeOK, GitTypeOK
<1>2. SUFFICES ASSUME NEW t \in Times, NEW f \in Paths, NEW c, c = stash'[t][f].base, c # Absent
               PROVE  Written(head', f, c) \/ Written(remote', f, c)
  BY DEF BaseInv
<1>3. Written(head, f, c) \/ Written(remote, f, c)
  <2>1. CASE c = Tree(head)[f]
    BY <1>1, <1>2, <2>1, WrittenTree
  <2>2. CASE c = stash[t][f].base
    BY <1>2, <2>2 DEF BaseInv
  <2>3. QED
    BY <1>2, <2>1, <2>2
<1>4. QED
  BY <1>1, <1>3, WrittenStays DEF GoesOn

LEMMA BaseKept ==
  ASSUME CourseStep
  PROVE  BaseInv'
<1>t. stash \in [Times -> [Paths -> [local : Contents, base : Contents]]]
  BY CalmTypes DEF CourseStep, GoesOn
<1>g. GoesOn /\ BaseInv /\ TypeInv
  BY DEF CourseStep, CourseInv, GoesOn
<1>1. CASE UNCHANGED stash
  BY <1>1, <1>g, BaseGoesOn
<1>2. ASSUME NEW p \in Procs, NEW f \in Paths, StashFile(p, f) PROVE BaseInv'
  <2>1. job[p].entry[f].kind = "deleted" => work[f] = Absent
    BY <1>2 DEF CourseStep, CourseInv, PutAwayInv, PutAway, StashFile
  <2>2. /\ \A u \in Times, g \in Paths : u # job[p].at \/ g # f => stash'[u][g] = stash[u][g]
        /\ stash'[job[p].at][f] = [local |-> work[f], base |-> Tree(head)[f]]
    BY <1>2, <1>g, <2>1, StashFileJob DEF CourseStep
  <2>3. \A u \in Times, g \in Paths : stash'[u][g].base \in {stash[u][g].base, Absent, Tree(head)[g]}
    BY <2>2
  <2>4. QED
    BY <1>g, <2>3, BaseGoesOn
<1>3. ASSUME NEW p \in Procs, Applied(p) PROVE BaseInv'
  <2>1. \A u \in Times, g \in Paths : stash'[u][g] \in {stash[u][g], NoStash}
    BY <1>t, <1>3 DEF Applied
  <2>2. QED
    BY <1>g, <2>1, BaseGoesOn DEF NoStash
<1>4. ASSUME NEW p \in Procs, Bootstrap(p) \/ Sync(p) \/ Stop(p) PROVE UNCHANGED stash
  BY <1>4 DEF Bootstrap, Boot, MakeDirectory, Clone, OpenOrInit, EnsureRemote, BootRest,
              Sync, CheckStatus, ReadWorkTree, AddAll, ReadParent, Commit, Push, CommitRest, Stop
<1>5. ASSUME NEW p \in Procs, Pull(p), ~Applied(p), \A f \in Paths : ~StashFile(p, f) PROVE UNCHANGED stash
  BY <1>5 DEF Pull, PullStatus, Reset, UpToDate, FastForward, PullRefused, Decide, Replace, CopyRemote, CopyBase,
                  CopyLocal, ArtifactRest, ApplyFails, ApplyRest
<1>6. ASSUME NEW r \in Resolvers, Resolver(r) PROVE UNCHANGED stash
  BY <1>6 DEF Resolver, Resolve, Find, Copy, CopyFails, CopyFile, RemoveArtifacts,
              RemoveArtifact, Resolved, Abandon, gitVars, vars
<1>7. QED
  BY <1>1, <1>2, <1>3, <1>4, <1>5, <1>6 DEF CourseStep, Next, GitNext, Edit, RemoteCommit, Tick

\* What a resolver finds.
LEMMA FindTask ==
  ASSUME TypeInv, NEW r \in Resolvers, NEW f \in Paths, Find(r, f), step' # step
  PROVE  /\ Dirs(f) # {} /\ task'[r].file = f /\ task'[r].at = Max(Dirs(f))
         /\ task'[r].choice = task[r].choice
         /\ step'[r] = IF task[r].choice = "mark" THEN "local" ELSE "copy"
<1>t. task \in [Resolvers -> Tasks] /\ step \in [Resolvers -> Steps]
  BY FoundTypes
<1> DEFINE m == Max(Dirs(f))
<1>1. /\ Dirs(f) # {}
      /\ task' = [task EXCEPT ![r].files = @ \ {f}, ![r].file = f, ![r].at = m]
      /\ step' = [step EXCEPT ![r] = IF task[r].choice = "mark" THEN "local" ELSE "copy"]
  BY DEF Find
<1> HIDE DEF m
<1>2. task'[r].file = f /\ task'[r].at = m /\ task'[r].choice = task[r].choice
  BY <1>t, <1>1 DEF Tasks
<1>3. QED
  BY <1>t, <1>1, <1>2 DEF m

\* Beside a resolver that takes a step there is no other.
LEMMA OthersIdle ==
  ASSUME TypeInv, OneResolver, Undisturbed', NEW r \in Resolvers, Resolver(r)
  PROVE  /\ \A s \in Resolvers \ {r} : step[s] = "idle" /\ step'[s] = "idle" /\ task'[s] = task[s]
         /\ OneResolver'
<1>t. task \in [Resolvers -> Tasks] /\ step \in [Resolvers -> Steps]
  BY FoundTypes
<1>1. \A s \in Resolvers \ {r} : step'[s] = step[s] /\ task'[s] = task[s]
  BY <1>t DEF Resolver, Resolve, Find, Copy, CopyFails, CopyFile, RemoveArtifacts, RemoveArtifact, Moves,
              Resolved, Abandon
<1>2. \A s \in Resolvers \ {r} : step[s] = "idle"
  <2>1. ASSUME NEW choice \in Versions, Resolve(r, choice) PROVE \A s \in Resolvers \ {r} : step[s] = "idle"
    BY <2>1 DEF Resolve, Coincidence, Undisturbed
  <2>2. CASE step[r] # "idle"
    BY <2>2 DEF OneResolver
  <2>3. QED
    BY <2>1, <2>2 DEF Resolver, Find, Copy, CopyFails, RemoveArtifacts, RemoveArtifact, Moves, Resolved, Abandon
<1>3. QED
  BY <1>1, <1>2 DEF OneResolver

\* The conflict of a resolver that is at work alone stays until he removes it.
LEMMA HeldKept ==
  ASSUME OneResolver, TypeInv, HeldInv, Next, RestInv, Undisturbed'
  PROVE  HeldInv'
<1>t. task \in [Resolvers -> Tasks] /\ step \in [Resolvers -> Steps]
  BY FoundTypes
<1>1. ASSUME GitNext, UNCHANGED resolveVars PROVE HeldInv'
  <2>1. CASE UNCHANGED arts
    BY <1>1, <2>1 DEF HeldInv, resolveVars
  <2>2. ASSUME NEW p \in Procs, CopyRemote(p) \/ CopyBase(p) \/ CopyLocal(p) PROVE HeldInv'
    <3>0. CopyRemote(p) => job[p].held.remote # Absent
      BY PcSets DEF RestInv, Rests, CopyRemote, Goto
    <3>1. \A u \in Times, g \in Paths : arts[u][g].remote # Absent => arts'[u][g].remote # Absent
      BY <2>2, <3>0, CopyArtifacts
    <3>2. \A r \in Resolvers : step[r] \in {"copy", "local", "remote"} =>
            task[r].at \in Times /\ task[r].file \in Paths
      BY <1>t DEF TypeInv, TaskInv, Tasks
    <3>3. QED
      BY <1>1, <3>1, <3>2 DEF HeldInv, resolveVars
  <2>3. QED
    BY <1>1, <2>1, <2>2, ArtifactsStay, NoFailure
<1>2. ASSUME NEW r \in Resolvers, Resolver(r) PROVE HeldInv'
  <2>0. \A s \in Resolvers \ {r} : step'[s] = "idle"
    BY <1>2, OthersIdle
  <2>1. ASSUME NEW f \in Paths, Find(r, f) PROVE HeldInv'
    <3>1. CASE step' = step
      BY <2>0, <2>1, <3>1 DEF Find, HeldInv
    <3>2. CASE step' # step
      <4>1. Dirs(f) # {} /\ task'[r].file = f /\ task'[r].at = Max(Dirs(f)) /\ UNCHANGED arts
        BY <2>1, <3>2, FindTask DEF Find
      <4>2. Max(Dirs(f)) \in Dirs(f)
        <5>1. Dirs(f) \in SUBSET Times
          BY DEF Dirs
        <5>2. QED
          BY <4>1, <5>1, Latest
      <4>3. arts[task'[r].at][task'[r].file].remote # Absent
        BY <4>1, <4>2 DEF Dirs
      <4>4. QED
        BY <2>0, <4>1, <4>3 DEF HeldInv
    <3>3. QED
      BY <3>1, <3>2
  <2>2. CASE RemoveArtifact(r, "local", "remote")
    <3>1. UNCHANGED task /\ step[r] = "local"
      BY <2>2 DEF RemoveArtifact, Moves
    <3>2. arts'[task[r].at][task[r].file]["remote"] = arts[task[r].at][task[r].file]["remote"]
      BY <2>2, RemoveArtifactOne
    <3>3. QED
      BY <2>0, <3>1, <3>2 DEF HeldInv
  <2>3. CASE Copy(r)
    BY <1>t, <2>0, <2>3 DEF Copy, CopyFile, Moves, HeldInv, gitVars
  <2>4. CASE step'[r] \notin {"copy", "local", "remote"}
    BY <2>0, <2>4 DEF HeldInv
  <2>5. QED
    BY <1>2, <1>t, <2>1, <2>2, <2>3, <2>4
       DEF Resolver, Resolve, CopyFails, RemoveArtifacts, RemoveArtifact, Resolved, Abandon, Moves
<1>3. QED
  BY <1>1, <1>2 DEF Next

LEMMA UntouchedKept ==
  ASSUME CourseStep
  PROVE  UntouchedInv'
<1>t. /\ TypeOK /\ TypeInv /\ RestInv /\ UntouchedInv /\ Undisturbed' /\ \A p \in Procs : job[p].at \in Times
      /\ pc \in [Procs -> PcTypes]
  BY CalmTypes, FoundTypes DEF CourseStep, CourseInv, GoesOn
<1>1. ASSUME NEW q \in Procs, pc'[q] = pc[q], job'[q] = job[q],
             \A u \in Times, g \in Paths : arts[u][g] = None => arts'[u][g] = None
      PROVE  Untouched(q)'
  <2>0. pc[q] = "copyRemote" => job[q].file \in Paths
    BY <1>t, PcSets DEF RestInv, Rests, Stashed
  <2>1. Stashed(q)' = Stashed(q) /\ Untouched(q) /\ job[q].left \subseteq Paths
    BY <1>1, <1>t, CalmTypes DEF Stashed, UntouchedInv
  <2>2. QED
    BY <1>1, <1>t, <2>0, <2>1 DEF Untouched
<1>2. ASSUME NEW r \in Resolvers, Resolver(r) PROVE UntouchedInv'
  <2>1. UNCHANGED <<pc, job>>
    BY <1>2 DEF Resolver, Resolve, Find, Copy, CopyFails, CopyFile, RemoveArtifacts,
                RemoveArtifact, Resolved, Abandon, gitVars, vars, processVars
  <2>2. UNCHANGED arts \/ RemoveArtifacts(r)
    BY <1>2 DEF Resolver, Resolve, Find, Copy, CopyFails, CopyFile, Resolved, Abandon, vars
  <2>3. \A u \in Times, g \in Paths : arts[u][g] = None => arts'[u][g] = None
    BY <1>t, <2>2, RemoveArtifactOne DEF RemoveArtifacts
  <2>4. QED
    BY <1>1, <2>1, <2>3 DEF UntouchedInv
<1>3. ASSUME Tick \/ \E f \in Paths : \/ \E c \in UserWrites : Edit(f, c)
                                      \/ \E c \in OtherWrites : RemoteCommit(f, c)
      PROVE  UntouchedInv'
  BY <1>1, <1>3 DEF UntouchedInv, Tick, Edit, RemoteCommit, processVars
<1>4. ASSUME NEW p \in Procs, Bootstrap(p) \/ Sync(p) \/ Pull(p) \/ Stop(p) PROVE UntouchedInv'
  <2>0. \A q \in Procs \ {p} : pc'[q] = pc[q] /\ job'[q] = job[q]
    BY <1>4, <1>t, OthersStay
  <2>1. CASE CopyRemote(p) \/ CopyBase(p) \/ CopyLocal(p)
    <3>1. /\ pc[p] \in ArtifactPcs /\ pc'[p] \in ApplyPcs \ {"copyRemote"}
          /\ job'[p].left \subseteq job[p].left /\ job'[p].at = job[p].at
      <4>1. /\ pc[p] \in ApplyPcs /\ pc'[p] \in ApplyPcs
            /\ job'[p].left \subseteq job[p].left /\ job'[p].at = job[p].at
        BY <1>t, <2>1, ApplyJob
      <4>2. pc[p] \in ArtifactPcs /\ pc'[p] # "copyRemote"
        BY <1>t, <2>1, PcSets DEF CopyRemote, CopyBase, CopyLocal, NextFile, Goto
      <4>3. QED
        BY <4>1, <4>2
    <3>2. /\ \A g \in Paths \ {job[p].file} : arts'[job[p].at][g] = arts[job[p].at][g]
          /\ job[p].file \notin job[p].left
      BY <1>t, <2>1, <3>1, CopyArtifacts, PcSets DEF RestInv, Rests
    <3>3. Untouched(p)'
      <4>1. \A g \in job[p].left : arts[job[p].at][g] = None /\ g \in Paths
        BY <1>t, <3>1, CalmTypes, PcSets DEF UntouchedInv, Untouched
      <4>2. QED
        BY <3>1, <3>2, <4>1, PcSets DEF Untouched
    <3>4. \A q \in Procs \ {p} : pc'[q] \notin StashPcs
      BY <2>0, <3>1, PcSets DEF CourseStep, CourseInv, AloneInv, AtWork
    <3>5. QED
      BY <3>3, <3>4, PcSets DEF UntouchedInv, Untouched
  <2>2. CASE ~(CopyRemote(p) \/ CopyBase(p) \/ CopyLocal(p))
    <3>1. UNCHANGED arts
      BY <1>4, <1>t, <2>2, NoFailure
         DEF Bootstrap, Boot, MakeDirectory, Clone, OpenOrInit, EnsureRemote, BootRest,
             Sync, CheckStatus, ReadWorkTree, AddAll, ReadParent, Commit, Push, CommitRest, Stop,
             Pull, PullStatus, StashFile, Reset, UpToDate, FastForward, PullRefused, Decide, Replace, Applied
    <3>2. \A q \in Procs \ {p} : Untouched(q)'
      BY <1>1, <2>0, <3>1
    <3>3. CASE PullStatus(p)
      <4>1. CASE Dirty = {}
        <5>1. pc[p] = "ready" /\ pc'[p] = "pull" /\ job' = job
          BY <1>t, <3>3, <4>1, PullStatusJob DEF PullStatus
        <5>2. Stashed(p)' = {}
          BY <1>t, <5>1, PcSets DEF RestInv, Rests, Stashed
        <5>3. QED
          BY <3>2, <5>1, <5>2, PcSets DEF UntouchedInv, Untouched
      <4>2. CASE Dirty # {}
        <5>1. pc'[p] = "stash" /\ Stashed(p)' \ job'[p].left = {}
          BY <1>t, <3>3, <4>2, PullStatusJob
        <5>2. QED
          BY <3>2, <5>1, PcSets DEF UntouchedInv, Untouched
      <4>3. QED
        BY <4>1, <4>2
    <3>4. ASSUME NEW f \in Paths, StashFile(p, f) PROVE UntouchedInv'
      <4>1. job[p].entry[f].kind = "deleted" => work[f] = Absent
        BY <3>4 DEF CourseStep, CourseInv, PutAwayInv, PutAway, StashFile
      <4>2. /\ pc[p] = "stash" /\ job'[p].at = job[p].at
            /\ \A g \in Paths \ (Stashed(p) \ job[p].left) : arts[job[p].at][g] = None
        <5>1. TypeInv /\ Undisturbed'
          BY <1>t
        <5>2. \A g \in Paths \ (Stashed(p) \ job[p].left) :
                stash[job[p].at][g] = NoStash /\ arts[job[p].at][g] = None
          BY <3>4, <4>1, <5>1, StashFileJob
        <5>3. job'[p].at = job[p].at
          BY <3>4, <4>1, <5>1, StashFileJob
        <5>4. QED
          BY <3>4, <5>2, <5>3 DEF StashFile
      <4>3. \A g \in Paths : arts'[job[p].at][g] = None
        BY <1>t, <3>1, <4>2 DEF UntouchedInv, Untouched
      <4>4. pc'[p] = "stash"
        BY <3>4, <4>2 DEF StashFile
      <4>5. Untouched(p)'
        BY <4>2, <4>3, <4>4, PcSets DEF Untouched
      <4>6. QED
        BY <3>2, <4>5 DEF UntouchedInv
    <3>5. CASE Reset(p)
      <4>1. pc[p] = "stash" /\ pc'[p] = "pull" /\ UNCHANGED job /\ job[p].left = {}
        BY <1>t, <3>5 DEF Reset, Goto
      <4>2. Stashed(p)' = Stashed(p)
        BY <4>1 DEF Stashed
      <4>3. QED
        BY <1>t, <3>1, <3>2, <4>1, <4>2, PcSets DEF UntouchedInv, Untouched
    <3>6. CASE UpToDate(p) \/ FastForward(p)
      <4>1. /\ pc[p] = "pull" /\ Stashed(p) = {} => pc'[p] = "ready"
            /\ Stashed(p) # {} => pc'[p] = "apply" /\ job'[p].at = job[p].at /\ job'[p].left = Stashed(p)
        BY <1>t, <3>6, PulledJob
      <4>2. pc[p] = "pull"
        BY <3>6 DEF UpToDate, FastForward
      <4>3. QED
        BY <1>t, <3>1, <3>2, <4>1, <4>2, PcSets DEF UntouchedInv, Untouched, Stashed
    <3>7. CASE pc'[p] \notin StashPcs
      BY <3>2, <3>7, PcSets DEF UntouchedInv, Untouched
    <3>9. ASSUME NEW f \in Paths, Decide(p, f) PROVE UntouchedInv'
      <4>1. /\ pc[p] = "apply" /\ pc'[p] \in ApplyPcs /\ f \in job[p].left
            /\ job'[p].left = job[p].left \ {f} /\ job'[p].at = job[p].at
            /\ pc'[p] = "copyRemote" => job'[p].file = f
        BY <1>t, <3>9, DecideJob, PcSets
      <4>2. \A g \in job[p].left : arts[job[p].at][g] = None
        BY <1>t, <4>1, PcSets DEF UntouchedInv, Untouched
      <4>3. Untouched(p)'
        BY <3>1, <4>1, <4>2, PcSets DEF Untouched
      <4>4. QED
        BY <3>2, <4>3 DEF UntouchedInv
    <3>10. CASE Replace(p)
      <4>1. /\ pc[p] = "replace" /\ pc'[p] = "apply"
            /\ job'[p].left \subseteq job[p].left /\ job'[p].at = job[p].at
        BY <1>t, <3>10, ApplyJob DEF Replace, NextFile, Goto
      <4>2. \A g \in job[p].left : arts[job[p].at][g] = None
        BY <1>t, <4>1, PcSets DEF UntouchedInv, Untouched
      <4>3. Untouched(p)'
        BY <3>1, <4>1, <4>2, PcSets DEF Untouched
      <4>4. QED
        BY <3>2, <4>3 DEF UntouchedInv
    <3>8. QED
      BY <1>4, <1>t, <2>2, <3>3, <3>4, <3>5, <3>6, <3>7, <3>9, <3>10, Phases
  <2>3. QED
    BY <2>1, <2>2
<1>5. QED
  BY <1>2, <1>3, <1>4 DEF CourseStep, Next, GitNext

\* A copied version is in place, or the user has given up what he had.
LEMMA CopyPlaces ==
  ASSUME TypeInv, Undisturbed', NEW r \in Resolvers, Copy(r) \/ CopyFails(r)
  PROVE  /\ UNCHANGED <<index, head, remote, stash, arts, pc, job, task>>
         /\ task[r].file \in Paths
         /\ \A g \in Paths \ {task[r].file} : mine'[g] = mine[g] /\ home'[g] = home[g] /\ work'[g] = work[g]
         /\ LET f == task[r].file IN
              /\ mine'[f] = Absent \/ home'[f] = mine'[f] \/ work'[f] = mine'[f]
              /\ Window(f) => work' = work /\ (mine'[f] = Absent \/ home'[f] = mine'[f])
<1>t. mine \in [Paths -> Contents] /\ work \in [Paths -> Contents] /\ home \in [Paths -> Contents]
  BY CalmTypes
<1>0. step[r] = "copy" /\ \E c \in {Version(r), Empty} : CopyFile(r, c)
  BY DEF Copy, CopyFails, Moves
<1>c. PICK c \in {Version(r), Empty} : CopyFile(r, c)
  BY <1>0
<1>f. PICK f \in Paths : f = task[r].file
  BY <1>0 DEF TypeInv, TaskInv
<1>1. UNCHANGED <<index, head, remote, stash, arts, pc, job, task>>
  BY <1>c DEF CopyFile, gitVars, processVars
<1>2. /\ \A g \in Paths \ {f} : mine'[g] = mine[g] /\ home'[g] = home[g] /\ work'[g] = work[g]
      /\ mine'[f] \in {Version(r), Absent}
      /\ IF f \in Linked THEN work'[f] = c /\ home' = home ELSE home'[f] = c /\ work' = work
  BY <1>c, <1>f, <1>t DEF CopyFile
<1>3. c = Version(r)
  <2>1. c # Version(r) => "failure" \in odd'
    BY <1>c DEF CopyFile
  <2>2. QED
    BY <2>1 DEF Undisturbed
<1>4. Window(f) => f \notin Linked
  <2>1. Window(f) /\ f \in Linked => "edit" \in odd'
    BY <1>c, <1>f DEF CopyFile
  <2>2. QED
    BY <2>1 DEF Undisturbed
<1>5. QED
  BY <1>1, <1>2, <1>3, <1>4, <1>f

\* Nobody changes the repository beside one who is at work on it.
LEMMA OneAtWork ==
  ASSUME CourseStep, NEW p \in Procs, Bootstrap(p) \/ Sync(p) \/ Pull(p) \/ Stop(p),
         NEW q \in Procs \ {p}, AtWork(q)
  PROVE  UNCHANGED <<work, index, head, stash>> /\ ~AtWork(p) /\ ~AtWork(p)'
<1>t. TypeOK /\ TypeInv /\ pc \in [Procs -> PcTypes] /\ BareInv
  BY FoundTypes DEF CourseStep, GoesOn
<1>1. AtWork(q)'
  BY <1>t, OthersStay DEF AtWork
<1>2. ~AtWork(p) /\ ~AtWork(p)'
  BY <1>1 DEF CourseStep, CourseInv, AloneInv
<1>3. CASE Bootstrap(p)
  <2>1. ~Clone(p)
    BY <1>t DEF Clone, BareInv, AtWork, StashPcs, ApplyPcs, ArtifactPcs, CommitPcs
  <2>2. QED
    BY <1>2, <1>3, <2>1 DEF Bootstrap, Boot, MakeDirectory, OpenOrInit, EnsureRemote, BootRest, treeVars
<1>4. CASE Stop(p)
  BY <1>2, <1>4 DEF Stop, treeVars
<1>5. CASE Sync(p)
  BY <1>t, <1>5, <1>2 DEF Sync, CheckStatus, ReadWorkTree, AddAll, ReadParent, Commit, Push, Goto, AtWork, CommitPcs
<1>6. CASE Pull(p)
  <2>1. ~PullStatus(p) => pc[p] \in StashPcs
    BY <1>6, PcSets DEF Pull, StashFile, Reset, UpToDate, FastForward, PullRefused, Decide, Takes, Replace,
                CopyRemote, CopyBase, CopyLocal, ApplyFails, Applied, Goto
  <2>2. PullStatus(p)
    BY <1>2, <2>1 DEF AtWork
  <2>3. QED
    BY <1>2, <2>2 DEF PullStatus, PullRest, treeVars
<1>7. QED
  BY <1>3, <1>4, <1>5, <1>6

LEMMA PutAwayStays ==
  ASSUME CourseStep, NEW p \in Procs, pc'[p] = pc[p], job'[p] = job[p], UNCHANGED <<work, index, stash>>,
         \A f \in Paths : \/ mine'[f] = Absent \/ home'[f] = mine'[f]
                          \/ mine'[f] = mine[f] /\ home'[f] = home[f]
  PROVE  PutAway(p)'
<1>1. PutAway(p) /\ GoesOn
  BY DEF CourseStep, CourseInv, PutAwayInv
<1>2. ASSUME NEW f \in Paths, work[f] = mine[f] => Placed(f) \/ Holds(p, f), work'[f] = mine'[f]
      PROVE  Placed(f)' \/ Holds(p, f)'
  <2>1. CASE mine'[f] = Absent \/ home'[f] = mine'[f]
    BY <2>1 DEF Placed
  <2>2. CASE mine'[f] = mine[f] /\ home'[f] = home[f]
    BY <1>1, <1>2, <2>2, PlacedStays DEF Holds
  <2>3. QED
    BY <2>1, <2>2
<1>3. Unstaged' = Unstaged
  BY DEF Unstaged
<1>4. QED
  BY <1>1, <1>2, <1>3 DEF PutAway

LEMMA PutAwayKept ==
  ASSUME CourseStep
  PROVE  PutAwayInv'
<1>t. /\ TypeOK /\ TypeInv /\ RestInv /\ PutAwayInv /\ BareInv /\ Undisturbed' /\ GoesOn
      /\ pc \in [Procs -> PcTypes] /\ mine \in [Paths -> Contents]
      /\ head \in Histories /\ Tree(head) \in [Paths -> Contents]
      /\ work \in [Paths -> Contents] /\ index \in [Paths -> Contents]
  BY CalmTypes, FoundTypes DEF CourseStep, CourseInv, GoesOn
<1>1. ASSUME NEW r \in Resolvers, Resolver(r) PROVE PutAwayInv'
  <2>1. UNCHANGED <<pc, job, index, stash>>
    BY <1>1 DEF Resolver, Resolve, Find, Copy, CopyFails, CopyFile, RemoveArtifacts,
                RemoveArtifact, Resolved, Abandon, gitVars, vars, processVars, treeVars
  <2>2. CASE Copy(r) \/ CopyFails(r)
    <3>1. CASE \A p \in Procs : pc[p] \notin {"stash", "pull"}
      BY <2>1, <3>1 DEF PutAwayInv, PutAway
    <3>2. CASE \E p \in Procs : pc[p] \in {"stash", "pull"}
      BY <1>t, <2>1, <2>2, <3>2, CopyPlaces, PutAwayStays DEF PutAwayInv, Window
    <3>3. QED
      BY <3>1, <3>2
  <2>3. CASE ~(Copy(r) \/ CopyFails(r))
    <3>1. UNCHANGED <<work, home>> /\ (UNCHANGED mine \/ \E f \in Paths : mine' = [mine EXCEPT ![f] = Absent])
      BY <1>1, <2>3 DEF Resolver, Resolve, Find, RemoveArtifacts, RemoveArtifact, Resolved, Abandon,
                        gitVars, vars, treeVars, userVars
    <3>2. \A f \in Paths : mine'[f] = Absent \/ mine'[f] = mine[f]
      BY <1>t, <3>1
    <3>3. QED
      BY <1>t, <2>1, <3>1, <3>2, PutAwayStays DEF PutAwayInv
  <2>4. QED
    BY <2>2, <2>3
<1>2. ASSUME GitNext, UNCHANGED resolveVars PROVE PutAwayInv'
  <2>h. UNCHANGED home
    BY <1>2 DEF resolveVars
  <2>1. ASSUME NEW f \in Paths, NEW c \in UserWrites, Edit(f, c) PROVE PutAwayInv'
    <3>1. ~Window(f) /\ UNCHANGED pc
      BY <1>t, <2>1 DEF Edit, Coincidence, Undisturbed, processVars
    <3>2. QED
      BY <3>1 DEF Window, PutAwayInv, PutAway
  <2>2. CASE Tick \/ \E f \in Paths, c \in OtherWrites : RemoteCommit(f, c)
    <3>1. UNCHANGED <<pc, job, work, index, stash, mine>>
      BY <2>2 DEF Tick, RemoteCommit, treeVars, processVars, userVars
    <3>2. QED
      BY <2>h, <3>1, PutAwayStays DEF PutAwayInv
  <2>3. ASSUME NEW p \in Procs, Bootstrap(p) \/ Sync(p) \/ Pull(p) \/ Stop(p) PROVE PutAwayInv'
    <3>0. UNCHANGED mine /\ \A q \in Procs \ {p} : pc'[q] = pc[q] /\ job'[q] = job[q]
      <4>1. UNCHANGED mine
        BY <2>3 DEF Bootstrap, Boot, MakeDirectory, Clone, OpenOrInit, EnsureRemote, BootRest,
                    Sync, CheckStatus, ReadWorkTree, AddAll, ReadParent, Commit, Push, CommitRest, Stop,
                    Pull, PullStatus, StashFile, Reset, UpToDate, FastForward, PullRefused,
                    Decide, Replace, CopyRemote, CopyBase, CopyLocal, ArtifactRest, ApplyFails, Applied,
                    ApplyRest, PullRest, userVars
      <4>2. QED
        BY <1>t, <2>3, <4>1, OthersStay
    <3>1. ASSUME NEW q \in Procs \ {p}, pc'[q] \in {"stash", "pull"} PROVE PutAway(q)'
      <4>1. AtWork(q)
        BY <3>0, <3>1, PcSets DEF AtWork
      <4>2. UNCHANGED <<work, index, stash>>
        BY <2>3, <4>1, OneAtWork
      <4>3. QED
        BY <2>h, <3>0, <3>1, <4>2, PutAwayStays
    <3>2. SUFFICES PutAway(p)'
      BY <3>1 DEF PutAwayInv, PutAway
    <3>3. CASE PullStatus(p)
      <4>1. UNCHANGED <<work, index, head, remote, stash>>
        BY <3>3 DEF PullStatus, PullRest, treeVars
      <4>2. ASSUME NEW f \in Paths \ Dirty, work'[f] = mine'[f] PROVE Placed(f)'
        <5>1. work[f] = mine[f] /\ work[f] = Tree(head)[f]
          BY <3>0, <4>1, <4>2 DEF Dirty
        <5>2. Placed(f)
          BY <1>t, <5>1, WrittenTree DEF Placed
        <5>3. QED
          BY <1>t, <2>h, <3>0, <5>2, PlacedStays
      <4>3. CASE Dirty = {}
        <5>1. pc'[p] = "pull" /\ job' = job
          BY <1>t, <3>3, <4>3, PullStatusJob
        <5>2. ~Unstaged'
          <6>1. \A f \in Paths : work[f] = index[f]
            BY <4>3 DEF Dirty
          <6>2. QED
            BY <4>1, <6>1 DEF Unstaged
        <5>3. QED
          BY <4>2, <4>3, <5>1, <5>2 DEF PutAway
      <4>4. CASE Dirty # {}
        <5>1. /\ pc'[p] = "stash" /\ job'[p].left = Dirty
              /\ \A f \in Paths : job'[p].entry[f].kind = "deleted" => work[f] = Absent
          BY <1>t, <3>3, <4>4, PullStatusJob
        <5>2. QED
          BY <4>1, <4>2, <5>1 DEF PutAway
      <4>5. QED
        BY <4>3, <4>4
    <3>4. ASSUME NEW f \in Paths, StashFile(p, f) PROVE PutAway(p)'
      <4>0. pc[p] = "stash" /\ pc'[p] = "stash" /\ UNCHANGED work
        BY <3>4 DEF StashFile, treeVars
      <4>1. job[p].entry[f].kind = "deleted" => work[f] = Absent
        BY <1>t, <4>0 DEF PutAwayInv, PutAway
      <4>2. /\ f \in job[p].left /\ job'[p].left = job[p].left \ {f} /\ job'[p].at = job[p].at
            /\ \A g \in Paths \ {f} : job'[p].entry[g] = job[p].entry[g]
            /\ job'[p].entry[f].kind = IF work[f] = Absent THEN "deleted" ELSE "copy"
            /\ \A u \in Times, g \in Paths : u # job[p].at \/ g # f => stash'[u][g] = stash[u][g]
            /\ stash'[job[p].at][f].local = work[f] /\ job[p].at \in Times
        <5>1. /\ f \in job[p].left /\ job'[p].left = job[p].left \ {f} /\ job'[p].at = job[p].at
              /\ \A g \in Paths \ {f} : job'[p].entry[g] = job[p].entry[g]
              /\ job'[p].entry[f].kind = IF work[f] = Absent THEN "deleted" ELSE "copy"
              /\ \A u \in Times, g \in Paths : u # job[p].at \/ g # f => stash'[u][g] = stash[u][g]
              /\ stash'[job[p].at][f] = [local |-> work[f], base |-> Tree(head)[f]]
          BY <1>t, <3>4, <4>1, StashFileJob
        <5>2. job[p].at \in Times
          BY <1>t, CalmTypes
        <5>3. QED
          BY <5>1, <5>2
      <4>3. \A g \in Paths : job'[p].entry[g].kind = "deleted" => work'[g] = Absent
        BY <1>t, <4>0, <4>2 DEF PutAwayInv, PutAway
      <4>4. ASSUME NEW g \in Paths \ job'[p].left, work'[g] = mine'[g] PROVE Placed(g)' \/ Holds(p, g)'
        <5>1. CASE g = f
          <6>1. CASE work[f] = Absent
            BY <4>0, <4>4, <5>1, <6>1 DEF Placed
          <6>2. CASE work[f] # Absent
            BY <4>0, <4>2, <4>4, <5>1, <6>2 DEF Holds
          <6>3. QED
            BY <6>1, <6>2
        <5>2. CASE g # f
          <6>1. Placed(g) \/ Holds(p, g)
            BY <1>t, <3>0, <4>0, <4>2, <4>4, <5>2 DEF PutAwayInv, PutAway
          <6>2. Holds(p, g) => Holds(p, g)'
            BY <3>0, <4>2, <5>2 DEF Holds
          <6>3. QED
            BY <1>t, <2>h, <3>0, <6>1, <6>2, PlacedStays
        <5>3. QED
          BY <5>1, <5>2
      <4>5. QED
        BY <4>0, <4>3, <4>4 DEF PutAway
    <3>5. CASE Reset(p)
      <4>1. /\ pc[p] = "stash" /\ pc'[p] = "pull" /\ job[p].left = {} /\ UNCHANGED <<job, head, stash>>
            /\ ResetTo(Tree(head))
        BY <1>t, <3>5 DEF Reset, Goto
      <4>2. \A f \in Paths : /\ index'[f] = Tree(head)[f]
                             /\ \/ work'[f] = Tree(head)[f]
                                \/ work'[f] = work[f] /\ Tree(head)[f] = Absent
        BY <1>t, <4>1 DEF ResetTo
      <4>3. ~Unstaged'
        BY <4>2 DEF Unstaged
      <4>4. ASSUME NEW f \in Paths, work'[f] = mine'[f] PROVE Placed(f)' \/ Holds(p, f)'
        <5>1. CASE mine[f] = Absent
          BY <3>0, <5>1 DEF Placed
        <5>2. CASE mine[f] # Absent /\ work'[f] = Tree(head)[f]
          <6>1. Placed(f)
            BY <1>t, <3>0, <4>4, <5>2, WrittenTree DEF Placed
          <6>2. QED
            BY <1>t, <2>h, <3>0, <6>1, PlacedStays
        <5>3. CASE work'[f] = work[f]
          <6>1. Placed(f) \/ Holds(p, f)
            BY <1>t, <3>0, <4>1, <4>4, <5>3 DEF PutAwayInv, PutAway
          <6>2. QED
            BY <1>t, <2>h, <3>0, <4>1, <6>1, PlacedStays DEF Holds
        <5>4. QED
          BY <4>2, <5>1, <5>2, <5>3
      <4>5. QED
        BY <4>1, <4>3, <4>4 DEF PutAway
    <3>6. CASE UpToDate(p) \/ FastForward(p)
      BY <1>t, <3>6, PulledJob DEF PutAway
    <3>7. CASE (\E f \in Paths : Decide(p, f)) \/ Replace(p) \/ CopyRemote(p) \/ CopyBase(p) \/ CopyLocal(p)
      <4>1. pc'[p] \in ApplyPcs
        BY <1>t, <3>7, ApplyJob
      <4>2. QED
        BY <4>1, PcSets DEF PutAway
    <3>8. CASE pc'[p] \notin StashPcs
      BY <3>8, PcSets DEF PutAway
    <3>9. QED
      BY <1>t, <2>3, <3>3, <3>4, <3>5, <3>6, <3>7, <3>8, Phases
  <2>4. QED
    BY <1>2, <2>1, <2>2, <2>3 DEF GitNext
<1>3. QED
  BY <1>1, <1>2 DEF CourseStep, Next

LEMMA WritesStays ==
  ASSUME NEW p \in Procs, Writes(p), pc'[p] = pc[p], job'[p] = job[p], UNCHANGED stash,
         pc[p] = "replace" => work'[job[p].file] = work[job[p].file]
  PROVE  Writes(p)'
<1>1. \A f : Ours(p, f)' = Ours(p, f)
  BY DEF Ours
<1>2. ASSUME pc[p] = "replace" PROVE Fate(p, job[p].file)' = Fate(p, job[p].file)
  <2>1. PICK f : f = job[p].file /\ f = job'[p].file /\ work'[f] = work[f]
    BY <1>2
  <2>2. Fate(p, f)' = Fate(p, f)
    BY <2>1 DEF Fate
  <2>3. QED
    BY <2>1, <2>2
<1>3. QED
  BY <1>1, <1>2 DEF Writes

LEMMA WritesKept ==
  ASSUME CourseStep
  PROVE  WritesInv'
<1>t. /\ TypeOK /\ TypeInv /\ RestInv /\ WritesInv /\ Undisturbed' /\ pc \in [Procs -> PcTypes]
      /\ work \in [Paths -> Contents]
  BY CalmTypes, FoundTypes DEF CourseStep, CourseInv, GoesOn
<1>1. ASSUME UNCHANGED <<pc, job, stash>>,
             \A g \in Paths : work'[g] = work[g] \/ ~Window(g)
      PROVE  WritesInv'
  <2> SUFFICES ASSUME NEW p \in Procs PROVE Writes(p)'
    BY DEF WritesInv
  <2>1. pc[p] = "replace" => job[p].file \in Paths /\ Window(job[p].file)
    BY <1>t, PcSets DEF RestInv, Rests, Stashed, Window
  <2>2. QED
    BY <1>1, <1>t, <2>1, WritesStays DEF WritesInv
<1>2. ASSUME NEW r \in Resolvers, Resolver(r) PROVE WritesInv'
  <2>1. UNCHANGED <<pc, job, stash>>
    BY <1>2 DEF Resolver, Resolve, Find, Copy, CopyFails, CopyFile, RemoveArtifacts,
                RemoveArtifact, Resolved, Abandon, gitVars, vars, processVars
  <2>2. CASE Copy(r) \/ CopyFails(r)
    <3>1. \A g \in Paths : work'[g] = work[g] \/ ~Window(g)
      BY <1>t, <2>2, CopyPlaces
    <3>2. QED
      BY <1>1, <2>1, <3>1
  <2>3. CASE ~(Copy(r) \/ CopyFails(r))
    <3>1. UNCHANGED work
      BY <1>2, <2>3 DEF Resolver, Resolve, Find, RemoveArtifacts, RemoveArtifact, Resolved, Abandon,
                        vars, treeVars
    <3>2. QED
      BY <1>1, <2>1, <3>1
  <2>4. QED
    BY <2>2, <2>3
<1>3. ASSUME Tick \/ \E f \in Paths : \/ \E c \in UserWrites : Edit(f, c)
                                      \/ \E c \in OtherWrites : RemoteCommit(f, c)
      PROVE  WritesInv'
  <2>1. ASSUME NEW f \in Paths, NEW c \in UserWrites, Edit(f, c) PROVE WritesInv'
    <3>1. ~Window(f) /\ UNCHANGED <<pc, job, stash>> /\ \A g \in Paths \ {f} : work'[g] = work[g]
      BY <1>t, <2>1 DEF Edit, Coincidence, Undisturbed, processVars
    <3>2. QED
      BY <1>1, <3>1
  <2>2. CASE Tick \/ \E f \in Paths, c \in OtherWrites : RemoteCommit(f, c)
    BY <1>1, <2>2 DEF Tick, RemoteCommit, treeVars, processVars
  <2>3. QED
    BY <1>3, <2>1, <2>2
<1>4. ASSUME NEW p \in Procs, Bootstrap(p) \/ Sync(p) \/ Pull(p) \/ Stop(p) PROVE WritesInv'
  <2>0. \A q \in Procs \ {p} : pc'[q] = pc[q] /\ job'[q] = job[q]
    BY <1>4, <1>t, OthersStay
  <2>1. ASSUME NEW q \in Procs \ {p} PROVE Writes(q)'
    <3>1. CASE pc[q] \in WritePcs
      <4>1. AtWork(q)
        BY <3>1, PcSets DEF AtWork
      <4>2. UNCHANGED <<work, stash>>
        BY <1>4, <4>1, OneAtWork
      <4>3. QED
        BY <1>t, <2>0, <4>2, WritesStays DEF WritesInv
    <3>2. CASE pc[q] \notin WritePcs
      BY <2>0, <3>2, PcSets DEF Writes
    <3>3. QED
      BY <3>1, <3>2
  <2>2. CASE pc'[p] \notin WritePcs
    <3>1. Writes(p)'
      BY <2>2, PcSets DEF Writes
    <3>2. QED
      BY <2>1, <3>1 DEF WritesInv
  <2>3. ASSUME NEW f \in Paths, Decide(p, f), pc'[p] \in WritePcs PROVE WritesInv'
    <3>1. /\ job'[p].entry = job[p].entry /\ job'[p].at = job[p].at /\ job'[p].file = f
          /\ \/ pc'[p] = "replace" /\ Fate(p, f) = "write" /\ job'[p].held.local = Ours(p, f)
             \/ /\ pc'[p] = "copyRemote"
                /\ job'[p].held.local = IF Ours(p, f) = Absent THEN LocalGone ELSE Ours(p, f)
      BY <1>t, <2>3, DecideJob, PcSets
    <3>2. UNCHANGED <<work, stash>>
      BY <2>3 DEF Decide, ApplyRest
    <3>3. Ours(p, f)' = Ours(p, f) /\ Fate(p, f)' = Fate(p, f)
      BY <3>1, <3>2 DEF Ours, Fate
    <3>4. Writes(p)'
      BY <3>1, <3>3, PcSets DEF Writes
    <3>5. QED
      BY <2>1, <3>4 DEF WritesInv
  <2>4. CASE CopyRemote(p) \/ CopyBase(p)
    <3>1. job' = job /\ UNCHANGED <<work, stash>> /\ pc[p] \in ArtifactPcs /\ pc'[p] \in ArtifactPcs
      BY <1>t, <2>4, CopyJob, PcSets DEF CopyRemote, CopyBase, ArtifactRest, ApplyRest
    <3>2. Ours(p, job[p].file)' = Ours(p, job[p].file)
      BY <3>1 DEF Ours
    <3>3. Writes(p)'
      BY <1>t, <3>1, <3>2, PcSets DEF WritesInv, Writes
    <3>4. QED
      BY <2>1, <3>3 DEF WritesInv
  <2>5. CASE pc'[p] \in WritePcs /\ ~(\E f \in Paths : Decide(p, f)) /\ ~CopyRemote(p) /\ ~CopyBase(p)
    <3>1. pc'[p] \in StashPcs
      BY <2>5, PcSets
    <3>2. \/ PullStatus(p) \/ Reset(p) \/ UpToDate(p) \/ FastForward(p) \/ (\E f \in Paths : StashFile(p, f))
          \/ Replace(p) \/ CopyLocal(p)
      BY <1>4, <1>t, <2>5, <3>1, Phases
    <3>3. pc'[p] \notin WritePcs
      BY <1>t, <3>2, PcSets
         DEF PullStatus, Reset, UpToDate, FastForward, Pulled, StashFile, Replace, CopyLocal, NextFile, Goto, Return
    <3>4. QED
      BY <2>5, <3>3
  <2>6. QED
    BY <2>2, <2>3, <2>4, <2>5
<1>5. QED
  BY <1>2, <1>3, <1>4 DEF CourseStep, Next, GitNext

LEMMA CourseKept ==
  ASSUME TypeInv, RestInv, MineInv, BareInv, CourseInv, Next, Undisturbed'
  PROVE  CourseStep /\ CourseInv'
<1>1. AloneInv' /\ TipInv' /\ "overwrite" \notin odd'
  BY AloneKept, TipKept DEF CourseInv
<1>2. TypeInv'
  BY TypesKept
<1>3. GoesOn
  BY <1>1, <1>2, BranchesGoOn DEF GoesOn, TypeInv
<1>4. CourseStep
  BY <1>1, <1>3 DEF CourseStep
<1>5. ClockInv'
  BY <1>1, ClockKept DEF CourseInv
<1>6. QED
  BY <1>1, <1>4, <1>5, BaseKept, UntouchedKept, PutAwayKept, WritesKept DEF CourseInv

LEMMA CourseStutters ==
  ASSUME UNCHANGED allVars
  PROVE  /\ Undisturbed' = Undisturbed /\ CourseInv' = CourseInv
         /\ UNCHANGED <<work, index, head, remote, stash, arts, now, pc, job, mine, basis, odd, home, step, task>>
<1>1. UNCHANGED <<work, index, head, remote, stash, arts, now, pc, job, mine, basis, odd, home, step, task>>
  BY DEF allVars, vars, treeVars, processVars, userVars, resolveVars
<1>2. Undisturbed' = Undisturbed
  BY <1>1 DEF Undisturbed
<1>3. BaseInv' = BaseInv /\ AloneInv' = AloneInv /\ TipInv' = TipInv /\ ClockInv' = ClockInv
  BY <1>1 DEF BaseInv, AloneInv, AtWork, TipInv, ClockInv, UsesStash, Stashed, Dirs
<1>4. UntouchedInv' = UntouchedInv /\ PutAwayInv' = PutAwayInv /\ WritesInv' = WritesInv
  BY <1>1 DEF UntouchedInv, Untouched, PutAwayInv, PutAway, Placed, Holds, Unstaged, Stashed,
         WritesInv, Writes, Fate, Ours
<1>5. QED
  BY <1>1, <1>2, <1>3, <1>4 DEF CourseInv

LEMMA CourseBegins ==
  ASSUME Init
  PROVE  TypeInv /\ RestInv /\ MineInv /\ BareInv /\ CourseInv
<1>1. TypeInv
  BY InitTypes DEF TypeInv, TaskInv, Init
<1>2. RestInv
  BY PcSets DEF Init, GitInit, RestInv, Rests, NoJob, NoEntry, Stashed
<1>3. MineInv /\ BareInv
  BY DEF Init, GitInit, MineInv, BareInv
<1>4. "overwrite" \notin odd /\ AloneInv /\ TipInv /\ UntouchedInv /\ PutAwayInv /\ WritesInv
  BY PcSets DEF Init, GitInit, AloneInv, AtWork, CommitPcs, TipInv, UntouchedInv, Untouched,
                PutAwayInv, PutAway, WritesInv, Writes
<1>5. BaseInv /\ ClockInv
  BY PcSets DEF Init, GitInit, BaseInv, ClockInv, UsesStash, Dirs, NoStash, None
<1>6. QED
  BY <1>1, <1>2, <1>3, <1>4, <1>5 DEF CourseInv

LEMMA HandTypes ==
  ASSUME FoundStep
  PROVE  /\ TypeOK /\ TypeInv /\ TypeInv' /\ RestInv /\ MineInv /\ BareInv /\ Undisturbed' /\ GoesOn
         /\ HandInv /\ OneResolver /\ HeldInv /\ UntouchedInv /\ PutAwayInv /\ WritesInv /\ ClockInv /\ BaseInv
         /\ pc \in [Procs -> PcTypes] /\ mine \in [Paths -> Contents]
         /\ head \in Histories /\ remote \in Histories /\ Tree(head) \in [Paths -> Contents]
         /\ work \in [Paths -> Contents] /\ index \in [Paths -> Contents]
         /\ \A p \in Procs : job[p].at \in Times
         /\ \A p, q \in Procs : /\ AtWork(p) /\ AtWork(q) => p = q
                                /\ AtWork(p)' /\ AtWork(q)' => p = q
BY CalmTypes, FoundTypes DEF FoundStep, CourseStep, FoundInv, CourseInv, AloneInv, GoesOn

LEMMA HoldsStashed ==
  ASSUME TypeInv, NEW p \in Procs, NEW f \in Paths, Holds(p, f)
  PROVE  f \in Stashed(p)
BY DEF Holds, Stashed, NoEntry

LEMMA ListedStays ==
  ASSUME FoundStep, NEW p \in Procs, Bootstrap(p) \/ Sync(p) \/ Pull(p) \/ Stop(p),
         UNCHANGED <<mine, step, task>>, NEW f \in Paths, Listed(f), Clean(f)',
         \A t \in Times : arts'[t][f] = arts[t][f],
         work'[f] = work[f] \/ AtWork(p), LeavesAlone(p, f)'
  PROVE  Listed(f)'
<1>1. Dirs(f)' = Dirs(f)
  BY DEF Dirs
<1>2. Max(Dirs(f)) \in Times
  <2>1. Dirs(f) \in SUBSET Times /\ Dirs(f) # {}
    BY DEF Dirs, Listed
  <2>2. QED
    BY <2>1, Latest
<1>3. LatestConflict(f)' = LatestConflict(f)
  BY <1>1, <1>2 DEF LatestConflict
<1>4. ASSUME NEW q \in Procs \ {p} PROVE LeavesAlone(q, f)'
  <2>1. pc'[q] = pc[q] /\ job'[q] = job[q]
    BY HandTypes, OthersStay
  <2>2. Stashed(q)' = Stashed(q) /\ LeavesAlone(q, f)
    BY <2>1 DEF Stashed, Listed
  <2>3. CASE work'[f] = work[f]
    BY <2>1, <2>2, <2>3 DEF LeavesAlone, Current
  <2>4. CASE AtWork(p)
    BY <2>1, <2>4, HandTypes, PcSets DEF AtWork, LeavesAlone, CommitPcs
  <2>5. QED
    BY <2>3, <2>4
<1>5. QED
  BY <1>1, <1>3, <1>4 DEF Listed, Removes

\* Of several processes only the one at work has something to put back.
LEMMA ReturnsAlone ==
  ASSUME FoundStep, NEW p \in Procs, Bootstrap(p) \/ Sync(p) \/ Pull(p) \/ Stop(p),
         AtWork(p) \/ AtWork(p)', NEW f \in Paths, Returned(f)
  PROVE  Clean(f) /\ Returns(p, f)
<1>1. PICK q \in Procs : Returns(q, f)
  BY DEF Returned
<1>2. AtWork(q)
  BY <1>1, PcSets DEF Returns, Current, AtWork
<1>3. q = p
  <2>1. ASSUME q # p PROVE FALSE
    <3>1. pc'[q] = pc[q]
      BY <2>1, HandTypes, OthersStay
    <3>2. AtWork(q)'
      BY <1>2, <3>1 DEF AtWork
    <3>3. QED
      BY <1>2, <2>1, <3>2, HandTypes
  <2>2. QED
    BY <2>1
<1>4. QED
  BY <1>1, <1>3 DEF Returned

\* A step that leaves the work tree, the index, the branch and the artifacts.
LEMMA AsideHand ==
  ASSUME FoundStep, NEW p \in Procs, Bootstrap(p) \/ Sync(p) \/ Pull(p) \/ Stop(p),
         UNCHANGED <<mine, step, task, home, work, index, head, arts>>,
         NEW f \in Paths, Returned(f) => Returned(f)', Clean(f) /\ LeavesAlone(p, f) => LeavesAlone(p, f)'
  PROVE  Hand(f)'
<1>1. Clean(f) => Clean(f)'
  BY DEF Clean
<1>2. Listed(f) => Listed(f)'
  BY <1>1, ListedStays DEF Listed
<1>3. Placed(f) => Placed(f)'
  BY HandTypes, PlacedStays
<1>4. QED
  BY <1>2, <1>3, HandTypes DEF HandInv, Hand

LEMMA SetupHand ==
  ASSUME FoundStep, UNCHANGED resolveVars, NEW p \in Procs, Bootstrap(p) \/ Stop(p), NEW f \in Paths
  PROVE  Hand(f)'
<1>1. CASE Clone(p)
  BY <1>1, HandTypes DEF Clone, BootRest, userVars, BareInv, Hand, Placed
<1>2. CASE ~Clone(p)
  <2>1. UNCHANGED <<mine, work, index, head, arts, stash>>
    BY <1>2 DEF Bootstrap, Boot, MakeDirectory, OpenOrInit, EnsureRemote, BootRest, Stop, treeVars, userVars
  <2>2. pc'[p] \notin StashPcs \cup CommitPcs
    BY HandTypes, PcSets DEF Bootstrap, Boot, MakeDirectory, Clone, OpenOrInit, EnsureRemote, BootRest, Stop,
                             Goto, Return, CommitPcs
  <2>3. LeavesAlone(p, f)'
    BY <2>2, PcSets DEF LeavesAlone, CommitPcs
  <2>4. ASSUME Returned(f) PROVE Returned(f)'
    <3>1. PICK q \in Procs : Returns(q, f)
      BY <2>4 DEF Returned
    <3>2. q # p
      <4>1. ASSUME Returns(p, f) PROVE FALSE
        <5>1. f \in Stashed(p) /\ pc[p] \in {"pull"} \cup ApplyPcs
          BY <4>1, HandTypes, HoldsStashed, PcSets DEF Returns, Current
        <5>2. ~Bootstrap(p)
          BY <5>1, PcSets DEF Bootstrap, Boot, MakeDirectory, Clone, OpenOrInit, EnsureRemote, Goto
        <5>3. QED
          BY <5>1, <5>2, HandTypes, NoFailure
      <4>2. QED
        BY <3>1, <4>1
    <3>3. pc'[q] = pc[q] /\ job'[q] = job[q]
      BY <3>2, HandTypes, OthersStay
    <3>4. Returns(q, f)'
      BY <2>1, <3>1, <3>3 DEF Returns, Holds, Current, Removes, resolveVars
    <3>5. QED
      BY <2>1, <2>4, <3>4 DEF Returned, Clean
  <2>5. QED
    BY <2>1, <2>3, <2>4, AsideHand DEF resolveVars
<1>3. QED
  BY <1>1, <1>2

LEMMA SyncHand ==
  ASSUME FoundStep, UNCHANGED resolveVars, NEW p \in Procs, Sync(p), NEW f \in Paths
  PROVE  Hand(f)'
<1>1. UNCHANGED <<mine, work, arts, stash>>
  BY DEF Sync, CheckStatus, ReadWorkTree, AddAll, ReadParent, Commit, Push, CommitRest, userVars
<1>2. pc[p] \notin StashPcs /\ (AtWork(p) \/ AtWork(p)')
  BY HandTypes, PcSets DEF Sync, CheckStatus, ReadWorkTree, AddAll, ReadParent, Commit, Push, Goto, Return,
                           AtWork, CommitPcs
<1>3. ~Returned(f)
  BY <1>2, ReturnsAlone, PcSets DEF Returns, Current
<1>4. ASSUME Listed(f) PROVE Clean(f)' /\ LeavesAlone(p, f)'
  <2>t. job \in [Procs -> Jobs] /\ Clean(f) /\ LeavesAlone(p, f)
    BY <1>4, HandTypes, FoundTypes DEF Listed
  <2>1. CASE CheckStatus(p) \/ Push(p) \/ ReadParent(p)
    BY <2>1, <2>t, <1>1, HandTypes, PcSets DEF CheckStatus, Push, ReadParent, Goto, Return, Clean, LeavesAlone
  <2>2. CASE ReadWorkTree(p)
    <3>1. job' = [job EXCEPT ![p] = [@ EXCEPT !["add"] = work]] /\ pc'[p] = "addWrite"
          /\ UNCHANGED <<index, head>>
      BY <2>2, HandTypes DEF ReadWorkTree, Goto, Set
    <3>2. job'[p].add = work
      BY <2>t, <3>1 DEF Jobs
    <3>3. QED
      BY <1>1, <2>t, <3>1, <3>2, PcSets DEF Clean, LeavesAlone
  <2>3. CASE AddAll(p)
    <3>1. pc[p] = "addWrite" /\ pc'[p] = "commit" /\ index' = job[p].add /\ UNCHANGED head
      BY <2>3, HandTypes DEF AddAll, Goto
    <3>2. QED
      BY <1>1, <2>t, <3>1, PcSets DEF Clean, LeavesAlone
  <2>4. CASE Commit(p)
    <3>1. /\ pc'[p] = "push" /\ head' = Append(job[p].parent, [tree |-> index, by |-> p]) /\ UNCHANGED index
      BY <2>4, HandTypes DEF Commit
    <3>2. Tree(head') = index
      <4>1. job[p].parent \in Histories /\ index \in Trees
        BY HandTypes, FoundTypes DEF Trees
      <4>2. QED
        BY <3>1, <4>1 DEF Tree, Last, Histories
    <3>3. QED
      BY <1>1, <2>t, <3>1, <3>2, PcSets DEF Clean, LeavesAlone
  <2>5. QED
    BY <2>1, <2>2, <2>3, <2>4 DEF Sync
<1>5. Placed(f) => Placed(f)'
  BY <1>1, HandTypes, PlacedStays DEF resolveVars
<1>6. Listed(f) => Listed(f)'
  BY <1>1, <1>4, ListedStays DEF resolveVars
<1>7. QED
  BY <1>1, <1>3, <1>5, <1>6, HandTypes DEF HandInv, Hand

LEMMA PullStatusHand ==
  ASSUME FoundStep, UNCHANGED resolveVars, NEW p \in Procs, PullStatus(p), NEW f \in Paths
  PROVE  Hand(f)'
<1>1. UNCHANGED <<mine, work, index, head, arts>> /\ pc[p] = "ready"
  BY DEF PullStatus, PullRest, Goto, treeVars, userVars
<1>2. AtWork(p)'
  BY HandTypes, PullStatusJob, PcSets DEF AtWork
<1>3. ~Returned(f)
  <2>1. ~Returns(p, f)
    BY <1>1, PcSets DEF Returns, Current
  <2>2. QED
    BY <1>2, <2>1, ReturnsAlone DEF Pull
<1>4. ASSUME Clean(f) PROVE LeavesAlone(p, f)'
  <2>1. f \notin Dirty
    BY <1>4 DEF Clean, Dirty
  <2>2. CASE Dirty = {}
    <3>1. pc'[p] = "pull" /\ job' = job
      BY <2>2, HandTypes, PullStatusJob
    <3>2. Stashed(p)' = {}
      BY <1>1, <3>1, HandTypes, PcSets DEF RestInv, Rests, Stashed
    <3>3. QED
      BY <3>1, <3>2, PcSets DEF LeavesAlone
  <2>3. CASE Dirty # {}
    <3>1. pc'[p] = "stash" /\ job'[p].left = Dirty /\ Stashed(p)' \subseteq Dirty
      BY <2>3, HandTypes, PullStatusJob
    <3>2. QED
      BY <2>1, <3>1, PcSets DEF LeavesAlone
  <2>4. QED
    BY <2>2, <2>3
<1>5. QED
  BY <1>1, <1>3, <1>4, AsideHand DEF Pull, resolveVars

LEMMA StashFileHand ==
  ASSUME FoundStep, UNCHANGED resolveVars, NEW p \in Procs, NEW g \in Paths, StashFile(p, g), NEW f \in Paths
  PROVE  Hand(f)'
<1>1. UNCHANGED <<pc, mine, work, index, head, arts>> /\ pc[p] = "stash"
  BY DEF StashFile, PullRest, treeVars, userVars
<1>2. ~Returned(f)
  <2>1. ~Returns(p, f) /\ AtWork(p)
    BY <1>1, PcSets DEF Returns, Current, AtWork
  <2>2. QED
    BY <2>1, ReturnsAlone DEF Pull
<1>3. ASSUME LeavesAlone(p, f) PROVE LeavesAlone(p, f)'
  <2>1. job[p].entry[g].kind = "deleted" => work[g] = Absent
    BY <1>1, HandTypes DEF PutAwayInv, PutAway
  <2>2. g \in job[p].left /\ job'[p].left = job[p].left \ {g} /\ Stashed(p)' = Stashed(p) \cup {g}
    BY <2>1, HandTypes, StashFileJob
  <2>3. QED
    BY <1>1, <1>3, <2>2, PcSets DEF LeavesAlone
<1>4. QED
  BY <1>1, <1>2, <1>3, AsideHand DEF Pull, resolveVars

LEMMA ResetHand ==
  ASSUME FoundStep, UNCHANGED resolveVars, NEW p \in Procs, Reset(p), NEW f \in Paths
  PROVE  Hand(f)'
<1>1. /\ UNCHANGED <<mine, head, arts, stash, job>> /\ pc[p] = "stash" /\ pc'[p] = "pull"
      /\ job[p].left = {} /\ ResetTo(Tree(head))
  BY HandTypes DEF Reset, PullRest, Goto, userVars
<1>2. /\ index'[f] = Tree(head)[f]
      /\ \/ work'[f] = Tree(head)[f]
         \/ work'[f] = work[f] /\ Tree(head)[f] = Absent
  BY <1>1, HandTypes DEF ResetTo
<1>3. AtWork(p)
  BY <1>1, PcSets DEF AtWork
<1>4. ~Returned(f)
  <2>1. ~Returns(p, f)
    BY <1>1, PcSets DEF Returns, Current
  <2>2. QED
    BY <1>3, <2>1, ReturnsAlone DEF Pull
<1>5. Placed(f) => Placed(f)'
  BY <1>1, HandTypes, PlacedStays DEF resolveVars
<1>6. ASSUME Listed(f) PROVE Listed(f)'
  <2>1. Clean(f) /\ f \notin Stashed(p)
    BY <1>1, <1>6 DEF Listed, LeavesAlone
  <2>2. Clean(f)'
    BY <1>1, <1>2, <2>1 DEF Clean
  <2>3. LeavesAlone(p, f)'
    BY <1>1, <2>1, PcSets DEF LeavesAlone, Stashed
  <2>4. QED
    BY <1>1, <1>3, <1>6, <2>2, <2>3, ListedStays DEF Pull, resolveVars
<1>7. ASSUME work[f] = mine[f] PROVE Hand(f)'
  <2>1. Placed(f) \/ Holds(p, f)
    BY <1>1, <1>7, HandTypes DEF PutAwayInv, PutAway
  <2>2. CASE work'[f] = work[f]
    BY <1>1, <1>7, <2>2 DEF Hand
  <2>3. CASE Holds(p, f) /\ work'[f] = Tree(head)[f]
    <3>1. Returns(p, f)'
      BY <1>1, <2>3 DEF Returns, Holds
    <3>2. Clean(f)'
      BY <1>1, <1>2, <2>3 DEF Clean
    <3>3. QED
      BY <3>1, <3>2 DEF Hand, Returned
  <2>4. QED
    BY <1>2, <1>5, <2>1, <2>2, <2>3 DEF Hand
<1>8. QED
  BY <1>4, <1>5, <1>6, <1>7, HandTypes DEF HandInv, Hand

LEMMA PulledHand ==
  ASSUME FoundStep, UNCHANGED resolveVars, NEW p \in Procs, UpToDate(p) \/ FastForward(p), NEW f \in Paths
  PROVE  Hand(f)'
<1>1. UNCHANGED <<mine, arts, stash>> /\ pc[p] = "pull" /\ AtWork(p)
  BY DEF UpToDate, FastForward, PullRest, userVars, AtWork, StashPcs
<1>2. \/ UNCHANGED <<work, index, head>>
      \/ /\ index'[f] = Tree(head')[f]
         /\ \/ work'[f] = Tree(head')[f]
            \/ work'[f] = work[f] /\ Tree(head')[f] = Absent /\ index[f] = Absent
  <2>1. CASE UpToDate(p)
    BY <2>1 DEF UpToDate, treeVars
  <2>2. CASE FastForward(p)
    <3>1. head' = remote /\ ResetTo(Tree(remote))
      BY <2>2 DEF FastForward
    <3>2. QED
      BY <3>1 DEF ResetTo
  <2>3. QED
    BY <2>1, <2>2
<1>3. Clean(f) => Clean(f)'
  BY <1>2 DEF Clean
<1>4. /\ Stashed(p) = {} => pc'[p] = "ready"
      /\ Stashed(p) # {} => /\ pc'[p] = "apply" /\ job'[p].left = Stashed(p)
                            /\ job'[p].entry = job[p].entry /\ job'[p].at = job[p].at
  BY HandTypes, PulledJob
<1>5. Placed(f) => Placed(f)'
  BY <1>1, HandTypes, PlacedStays DEF resolveVars
<1>6. ASSUME Listed(f) PROVE Listed(f)'
  <2>1. Clean(f) /\ f \notin Stashed(p)
    BY <1>1, <1>6 DEF Listed, LeavesAlone
  <2>2. LeavesAlone(p, f)'
    BY <1>4, <2>1, PcSets DEF LeavesAlone, Current
  <2>3. QED
    BY <1>1, <1>3, <1>6, <2>1, <2>2, ListedStays DEF Pull, resolveVars
<1>7. Holds(p, f) => Returns(p, f)'
  <2> SUFFICES ASSUME Holds(p, f) PROVE Returns(p, f)'
    OBVIOUS
  <2>1. f \in Stashed(p)
    BY HandTypes, HoldsStashed
  <2>2. QED
    BY <1>1, <1>4, <2>1, PcSets DEF Returns, Holds
<1>8. ASSUME Returned(f) PROVE Hand(f)'
  <2>1. Clean(f) /\ Holds(p, f)
    BY <1>1, <1>8, ReturnsAlone DEF Pull, Returns
  <2>2. QED
    BY <1>3, <1>7, <2>1 DEF Hand, Returned
<1>9. ASSUME work[f] = mine[f] PROVE Hand(f)'
  <2>1. Placed(f) \/ Holds(p, f)
    BY <1>1, <1>9, HandTypes DEF PutAwayInv, PutAway
  <2>2. CASE work'[f] = work[f]
    BY <1>1, <1>9, <2>2 DEF Hand
  <2>3. CASE Holds(p, f) /\ work'[f] # work[f]
    <3>1. Clean(f)'
      BY <1>2, <2>3 DEF Clean
    <3>2. QED
      BY <1>7, <2>3, <3>1 DEF Hand, Returned
  <2>4. QED
    BY <1>5, <2>1, <2>2, <2>3 DEF Hand
<1>10. QED
  BY <1>5, <1>6, <1>8, <1>9, HandTypes DEF HandInv, Hand

LEMMA AppliedHand ==
  ASSUME FoundStep, UNCHANGED resolveVars, NEW p \in Procs, Applied(p), NEW f \in Paths
  PROVE  Hand(f)'
<1>1. UNCHANGED <<mine, work, index, head, arts>> /\ pc[p] = "apply" /\ job[p].left = {} /\ pc'[p] = "ready"
  BY HandTypes DEF Applied, PullRest, Return, treeVars, userVars
<1>2. ~Returned(f)
  <2>1. ~Returns(p, f) /\ AtWork(p)
    BY <1>1, PcSets DEF Returns, Current, AtWork
  <2>2. QED
    BY <2>1, ReturnsAlone DEF Pull
<1>3. LeavesAlone(p, f)'
  BY <1>1, PcSets DEF LeavesAlone
<1>4. QED
  BY <1>1, <1>2, <1>3, AsideHand DEF Pull, resolveVars

\* The latest of the conflicts is the one that is no earlier than the others.
LEMMA LatestIs ==
  ASSUME NEW S \in SUBSET Times, NEW m \in S, \A t \in S : t <= m
  PROVE  Max(S) = m
<1>1. Max(S) \in S /\ \A t \in S : Max(S) >= t
  BY Latest
<1>2. Times \subseteq Nat
  BY GitSyncAssumption DEF GitSyncAssumption, Times
<1>3. PICK x \in S : x = Max(S) /\ \A t \in S : x >= t
  BY <1>1
<1>4. x \in Nat /\ m \in Nat
  BY <1>2
<1>5. x >= m /\ x <= m
  BY <1>3
<1>6. QED
  BY <1>3, <1>4, <1>5

\* What a pull writes over is no version of the user, or is in a commit.
LEMMA WritesPlaced ==
  ASSUME FoundStep, NEW p \in Procs, NEW f \in Paths, Fate(p, f) = "write", work[f] = mine[f]
  PROVE  Placed(f)
<1>1. work[f] = Absent \/ work[f] = Empty \/ work[f] = stash[job[p].at][f].base
  BY DEF Fate
<1>2. work[f] # Empty
  BY HandTypes, GitSyncAssumption DEF MineInv, GitSyncAssumption, IsInjective
<1>3. CASE work[f] = stash[job[p].at][f].base
  BY <1>3, HandTypes DEF BaseInv, Placed
<1>4. QED
  BY <1>1, <1>2, <1>3 DEF Placed

\* A step upon another file, or one that only decides what is to be done.
LEMMA ApplyAsideHand ==
  ASSUME FoundStep, UNCHANGED resolveVars, NEW p \in Procs,
         (\E g \in Paths : Decide(p, g)) \/ Replace(p) \/ CopyRemote(p) \/ CopyBase(p) \/ CopyLocal(p),
         NEW f \in Paths, work'[f] = work[f], \A t \in Times : arts'[t][f] = arts[t][f],
         Returns(p, f) => Returns(p, f)'
  PROVE  Hand(f)'
<1>1. /\ UNCHANGED <<index, head, mine>> /\ pc[p] \in ApplyPcs /\ pc'[p] \in ApplyPcs /\ AtWork(p)
      /\ job'[p].left \cup Current(p)' \subseteq job[p].left \cup Current(p)
  BY HandTypes, ApplyJob, PcSets DEF AtWork
<1>2. Clean(f) => Clean(f)'
  BY <1>1 DEF Clean
<1>3. Placed(f) => Placed(f)'
  BY <1>1, HandTypes, PlacedStays DEF resolveVars
<1>4. ASSUME Listed(f) PROVE Listed(f)'
  <2>1. Clean(f) /\ LeavesAlone(p, f)'
    BY <1>1, <1>4, PcSets DEF Listed, LeavesAlone
  <2>2. QED
    BY <1>1, <1>2, <1>4, <2>1, ListedStays DEF Pull, resolveVars
<1>5. ASSUME Returned(f) PROVE Returned(f)'
  <2>1. Clean(f) /\ Returns(p, f)
    BY <1>1, <1>5, ReturnsAlone DEF Pull
  <2>2. QED
    BY <1>2, <2>1 DEF Returned
<1>6. QED
  BY <1>1, <1>3, <1>4, <1>5, HandTypes DEF HandInv, Hand

LEMMA DecideHand ==
  ASSUME FoundStep, UNCHANGED resolveVars, NEW p \in Procs, NEW g \in Paths, Decide(p, g), NEW f \in Paths
  PROVE  Hand(f)'
<1>1. UNCHANGED <<mine, work, index, head, stash, arts>>
  BY DEF Decide, ApplyRest, PullRest, userVars
<1>2. /\ pc[p] = "apply" /\ g \in job[p].left /\ AtWork(p)
      /\ job'[p].left = job[p].left \ {g} /\ job'[p].entry = job[p].entry /\ job'[p].at = job[p].at
      /\ \/ pc'[p] = "apply" /\ Fate(p, g) = "keep"
         \/ pc'[p] \in {"replace", "copyRemote"} /\ job'[p].file = g
  BY HandTypes, DecideJob, PcSets DEF AtWork
<1>3. Returns(p, f) => Holds(p, f) /\ f \in job[p].left
  BY <1>2, PcSets DEF Returns, Current
<1>4. Holds(p, f) => Holds(p, f)'
  BY <1>1, <1>2 DEF Holds
<1>5. CASE f # g \/ pc'[p] # "apply"
  <2>1. Returns(p, f) => Returns(p, f)'
    BY <1>2, <1>3, <1>4, <1>5, PcSets DEF Returns, Current
  <2>2. QED
    BY <1>1, <2>1, ApplyAsideHand
<1>6. CASE f = g /\ Fate(p, g) = "keep"
  <2>1. ~Listed(f)
    BY <1>2, <1>6, PcSets DEF Listed, LeavesAlone
  <2>2. Returned(f) => work[f] = mine[f]
    <3>1. Returned(f) => Holds(p, f)
      BY <1>2, <1>3, ReturnsAlone DEF Pull
    <3>2. QED
      BY <1>6, <3>1 DEF Holds, Fate
  <2>3. Placed(f) => Placed(f)'
    BY <1>1, HandTypes, PlacedStays DEF resolveVars
  <2>4. QED
    BY <1>1, <2>1, <2>2, <2>3, HandTypes DEF HandInv, Hand
<1>7. QED
  BY <1>2, <1>5, <1>6

LEMMA ReplaceHand ==
  ASSUME FoundStep, UNCHANGED resolveVars, NEW p \in Procs, Replace(p), NEW f \in Paths
  PROVE  Hand(f)'
<1> DEFINE g == job[p].file
<1>1. UNCHANGED <<mine, index, head, stash, arts>> /\ work' = [work EXCEPT ![g] = job[p].held.local]
  BY DEF Replace, ApplyRest, PullRest, userVars
<1>2. /\ pc[p] = "replace" /\ pc'[p] = "apply" /\ AtWork(p) /\ job'[p].left = job[p].left
      /\ job'[p].entry = job[p].entry /\ job'[p].at = job[p].at
  <2>1. \E c \in BOOLEAN : NextFile(p, c)
    BY HandTypes, FoundTypes DEF Replace, Jobs
  <2>2. QED
    BY <2>1, HandTypes, NextFileJob, PcSets DEF Replace, AtWork
<1>3. Fate(p, g) = "write" /\ job[p].held.local = Ours(p, g)
  BY <1>2, HandTypes DEF WritesInv, Writes
<1> HIDE DEF g
<1>4. CASE f # g
  <2>1. work'[f] = work[f]
    BY <1>1, <1>4, HandTypes
  <2>2. Returns(p, f) => f \in job[p].left /\ Holds(p, f)
    BY <1>2, <1>4 DEF Returns, Current, g
  <2>3. Returns(p, f) => Returns(p, f)'
    BY <1>1, <1>2, <2>2, PcSets DEF Returns, Holds
  <2>4. QED
    BY <1>1, <2>1, <2>3, ApplyAsideHand
<1>5. CASE f = g
  <2>1. ~Listed(f)
    BY <1>2, <1>5, PcSets DEF Listed, LeavesAlone, Current, g
  <2>2. work[f] = mine[f] => Placed(f)
    BY <1>3, <1>5, WritesPlaced
  <2>3. Returned(f) => work'[f] = mine[f]
    <3>1. Returned(f) => Holds(p, f)
      BY <1>2, ReturnsAlone DEF Pull, Returns
    <3>2. work'[f] = Ours(p, f)
      BY <1>1, <1>3, <1>5, HandTypes
    <3>3. QED
      BY <3>1, <3>2 DEF Holds, Ours
  <2>4. Placed(f) => Placed(f)'
    BY <1>1, HandTypes, PlacedStays DEF resolveVars
  <2>5. QED
    BY <1>1, <2>1, <2>2, <2>3, <2>4, HandTypes DEF HandInv, Hand
<1>6. QED
  BY <1>4, <1>5

\* The three writes of a conflict, upon the file and upon the others.
LEMMA CopiesHand ==
  ASSUME FoundStep, UNCHANGED resolveVars, NEW p \in Procs, CopyRemote(p) \/ CopyBase(p) \/ CopyLocal(p),
         NEW f \in Paths
  PROVE  Hand(f)'
<1> DEFINE g == job[p].file
           at == job[p].at
<1>1. UNCHANGED <<mine, work, index, head, stash>>
  BY DEF CopyRemote, CopyBase, CopyLocal, ArtifactRest, ApplyRest, PullRest, userVars
<1>2. /\ pc[p] \in ArtifactPcs /\ AtWork(p) /\ pc'[p] \in ApplyPcs /\ job'[p].left = job[p].left
      /\ job'[p].entry = job[p].entry /\ job'[p].at = at
      /\ CopyRemote(p) => pc[p] = "copyRemote" /\ pc'[p] = "copyBase" /\ job' = job
      /\ CopyBase(p) => pc[p] = "copyBase" /\ pc'[p] = "copyLocal" /\ job' = job
      /\ CopyLocal(p) => pc[p] = "copyLocal" /\ pc'[p] = "apply"
  <2>1. CASE CopyLocal(p)
    <3>1. NextFile(p, TRUE) /\ pc[p] = "copyLocal"
      BY <2>1 DEF CopyLocal
    <3>2. QED
      BY <2>1, <3>1, HandTypes, NextFileJob, PcSets DEF CopyRemote, CopyBase, Goto, AtWork
  <2>2. CASE CopyRemote(p) \/ CopyBase(p)
    BY <2>2, HandTypes, PcSets DEF CopyRemote, CopyBase, CopyLocal, Goto, AtWork
  <2>3. QED
    BY <2>1, <2>2
<1>3. /\ at \in Times /\ g \in Paths
      /\ \A u \in Times, h \in Paths : u # at \/ h # g => arts'[u][h] = arts[u][h]
      /\ arts'[at][g].remote = IF CopyRemote(p) THEN job[p].held.remote ELSE arts[at][g].remote
      /\ arts'[at][g].local = IF CopyLocal(p) THEN job[p].held.local ELSE arts[at][g].local
  BY HandTypes, CopyArtifacts
<1>4. /\ job[p].held.remote # Absent /\ g \in Stashed(p) \ job[p].left
      /\ job[p].held.local = IF Ours(p, g) = Absent THEN LocalGone ELSE Ours(p, g)
  BY <1>2, HandTypes, PcSets DEF RestInv, Rests, WritesInv, Writes
<1>5. CASE f # g
  <2>1. Returns(p, f) => f \in job[p].left /\ Holds(p, f)
    BY <1>2, <1>5, PcSets DEF Returns, Current
  <2>2. Returns(p, f) => Returns(p, f)'
    BY <1>1, <1>2, <2>1 DEF Returns, Holds
  <2>3. \A t \in Times : arts'[t][f] = arts[t][f]
    BY <1>3, <1>5
  <2>4. QED
    BY <1>1, <2>2, <2>3, ApplyAsideHand
<1>6. CASE f = g
  <2>1. ~Listed(f) /\ f \in Current(p)
    BY <1>2, <1>6, PcSets DEF Listed, LeavesAlone, Current
  <2>2. Placed(f) => Placed(f)'
    BY <1>1, HandTypes, PlacedStays DEF resolveVars
  <2>3. SUFFICES ASSUME Returned(f), mine[f] # Absent PROVE Returned(f)' \/ Listed(f)'
    <3>1. mine[f] = Absent => Placed(f)
      BY DEF Placed
    <3>2. QED
      BY <1>1, <2>1, <2>2, <2>3, <3>1, HandTypes DEF HandInv, Hand
  <2>4. /\ Clean(f) /\ Clean(f)' /\ Holds(p, f) /\ Returns(p, f)
    BY <1>1, <1>2, <2>3, ReturnsAlone DEF Pull, Returns, Clean
  <2>5. ~CopyRemote(p) => /\ arts[at][f].remote # Absent
                          /\ \A r \in Resolvers : ~Removes(r, at, f)
    BY <1>2, <1>4, <1>6, <2>4, PcSets DEF Returns
  <2>6. CopyRemote(p) => \A r \in Resolvers : ~Removes(r, at, f)
    <3>1. CopyRemote(p) => arts[at][f] = None
      BY <1>2, <1>6, HandTypes DEF UntouchedInv, Untouched
    <3>2. \A r \in Resolvers : Removes(r, at, f) => arts[at][f].remote # Absent
      BY HandTypes DEF HeldInv, Removes
    <3>3. QED
      BY <3>1, <3>2 DEF None
  <2>7. CASE CopyRemote(p) \/ CopyBase(p)
    <3>1. arts'[at][f].remote # Absent
      BY <1>3, <1>4, <1>6, <2>5
    <3>2. \A r \in Resolvers : ~Removes(r, at, f)'
      BY <1>2, <2>5, <2>6 DEF Removes, resolveVars
    <3>3. Returns(p, f)'
      BY <1>1, <1>2, <1>6, <2>4, <2>7, <3>1, <3>2, PcSets DEF Returns, Holds, Current
    <3>4. QED
      BY <2>4, <3>3 DEF Returned
  <2>8. CASE CopyLocal(p)
    <3>1. ~CopyRemote(p)
      BY <1>2, <2>8
    <3>2. /\ arts'[at][f].remote # Absent /\ arts'[at][f].local = mine[f]
          /\ \A u \in Times : u # at => arts'[u][f] = arts[u][f]
      BY <1>3, <1>4, <1>6, <2>3, <2>4, <2>5, <2>8, <3>1 DEF Holds, Ours
    <3> HIDE DEF at, g
    <3>3. at \in Dirs(f)' /\ \A t \in Dirs(f)' : t \in Dirs(f) \/ t = at
      BY <1>3, <3>2 DEF Dirs
    <3>4. \A t \in Dirs(f)' : t <= at
      <4>1. at \in Nat
        BY <1>3, GitSyncAssumption DEF GitSyncAssumption, Times
      <4>2. \A t \in Dirs(f) : t <= at
        BY <1>2, HandTypes, PcSets DEF ClockInv, UsesStash, at
      <4>3. QED
        BY <3>3, <4>1, <4>2
    <3>5. Max(Dirs(f)') = at
      <4>1. Dirs(f)' \in SUBSET Times
        BY DEF Dirs
      <4>2. QED
        BY <3>3, <3>4, <4>1, LatestIs
    <3>6. \A q \in Procs : LeavesAlone(q, f)'
      <4>1. LeavesAlone(p, f)'
        BY <1>2, <1>4, <1>6, <2>8, PcSets DEF LeavesAlone, Current
      <4>2. ASSUME NEW q \in Procs \ {p} PROVE LeavesAlone(q, f)'
        <5>1. ~AtWork(q) /\ pc'[q] = pc[q]
          BY <1>2, HandTypes, OthersStay DEF Pull
        <5>2. QED
          BY <5>1, PcSets DEF LeavesAlone, AtWork, CommitPcs
      <4>3. QED
        BY <4>1, <4>2
    <3>7. \A r \in Resolvers :
            ~(step'[r] \in {"local", "remote"} /\ task'[r].at = at /\ task'[r].file = f)
      <4>1. step' = step /\ task' = task
        BY DEF resolveVars
      <4>2. \A r \in Resolvers : ~Removes(r, at, f)
        BY <2>5, <3>1
      <4>3. QED
        BY <4>1, <4>2 DEF Removes
    <3>8. LatestConflict(f)' = arts'[at][f]
      BY <3>5 DEF LatestConflict
    <3>9. \A r \in Resolvers : ~Removes(r, Max(Dirs(f)), f)'
      BY <3>5, <3>7 DEF Removes
    <3>10. Clean(f)' /\ Dirs(f)' # {} /\ LatestConflict(f)'.local = mine'[f]
      BY <1>1, <2>4, <3>2, <3>3, <3>8
    <3>11. QED
      BY <3>6, <3>9, <3>10 DEF Listed
  <2>9. QED
    BY <2>7, <2>8
<1>7. QED
  BY <1>5, <1>6

\* The user, the other machines and the clock.
LEMMA EditHand ==
  ASSUME FoundStep, UNCHANGED resolveVars, NEW f \in Paths,
         Tick \/ \E g \in Paths : (\E c \in UserWrites : Edit(g, c)) \/ (\E c \in OtherWrites : RemoteCommit(g, c))
  PROVE  Hand(f)'
<1>1. UNCHANGED <<index, head, stash, arts, pc, job>>
  BY DEF Tick, Edit, RemoteCommit, treeVars, processVars
<1>2. \/ mine'[f] = mine[f] /\ work'[f] = work[f]
      \/ mine'[f] = Absent \/ work'[f] = mine'[f]
  BY HandTypes DEF Tick, Edit, RemoteCommit, treeVars, userVars
<1>3. CASE mine'[f] = Absent \/ work'[f] = mine'[f]
  BY <1>3 DEF Hand, Placed
<1>4. CASE mine'[f] = mine[f] /\ work'[f] = work[f]
  <2>1. Placed(f) => Placed(f)'
    BY <1>4, HandTypes, PlacedStays DEF resolveVars
  <2>2. Returned(f) => Returned(f)'
    BY <1>1, <1>4 DEF Returned, Returns, Holds, Clean, Current, Removes, resolveVars
  <2>3. Dirs(f)' = Dirs(f) /\ LatestConflict(f)' = LatestConflict(f)
    BY <1>1 DEF Dirs, LatestConflict
  <2>4. \A p \in Procs : LeavesAlone(p, f) => LeavesAlone(p, f)'
    BY <1>1, <1>4 DEF LeavesAlone, Stashed, Current
  <2>5. Listed(f) => Listed(f)'
    BY <1>1, <1>4, <2>3, <2>4 DEF Listed, Clean, Removes, resolveVars
  <2>6. QED
    BY <1>4, <2>1, <2>2, <2>5, HandTypes DEF HandInv, Hand
<1>5. QED
  BY <1>2, <1>3, <1>4

\* A resolver: what he does not take away from the user is where it was.
LEMMA ListedHand ==
  ASSUME FoundStep, NEW f \in Paths, UNCHANGED <<index, head, remote, stash, pc, job>>,
         mine'[f] = mine[f], home'[f] = home[f], work'[f] = work[f],
         \A r \in Resolvers, t \in Times : Removes(r, t, f)' => Removes(r, t, f),
         \A t \in Times : arts'[t][f].remote = arts[t][f].remote \/ \E r \in Resolvers : Removes(r, t, f),
         Listed(f) => /\ Dirs(f)' # {} /\ Max(Dirs(f))' = Max(Dirs(f))
                      /\ LatestConflict(f)'.local = LatestConflict(f).local
  PROVE  Hand(f)'
<1>1. Placed(f) => Placed(f)'
  BY HandTypes, PlacedStays
<1>2. Returned(f) => Returned(f)'
  <2> SUFFICES ASSUME Returned(f) PROVE Returned(f)'
    OBVIOUS
  <2>1. PICK p \in Procs : Clean(f) /\ Returns(p, f)
    BY DEF Returned
  <2>2. job[p].at \in Times
    BY HandTypes
  <2>3. Returns(p, f)'
    BY <2>1, <2>2 DEF Returns, Holds, Current
  <2>4. QED
    BY <2>1, <2>3 DEF Returned, Clean
<1>3. \A p \in Procs : LeavesAlone(p, f) => LeavesAlone(p, f)'
  BY DEF LeavesAlone, Stashed, Current
<1>4. ASSUME Listed(f) PROVE Listed(f)'
  <2>1. Max(Dirs(f)) \in Times
    <3>1. Dirs(f) \in SUBSET Times /\ Dirs(f) # {}
      BY <1>4 DEF Dirs, Listed
    <3>2. QED
      BY <3>1, Latest
  <2>2. \A r \in Resolvers : ~Removes(r, Max(Dirs(f)), f)'
    BY <1>4, <2>1 DEF Listed, Removes
  <2>3. QED
    BY <1>3, <1>4, <2>2 DEF Listed, Clean
<1>5. QED
  BY <1>1, <1>2, <1>4, HandTypes DEF HandInv, Hand

LEMMA ResolverHand ==
  ASSUME FoundStep, NEW r \in Resolvers, Resolver(r), NEW f \in Paths
  PROVE  Hand(f)'
<1>t. step \in [Resolvers -> Steps] /\ task \in [Resolvers -> Tasks]
      /\ \A s \in Resolvers \ {r} : step[s] = "idle" /\ step'[s] = "idle"
  BY HandTypes, FoundTypes, OthersIdle
<1>1. UNCHANGED <<index, head, remote, stash, pc, job>>
  BY DEF Resolver, Resolve, Find, Copy, CopyFails, CopyFile, RemoveArtifacts,
         RemoveArtifact, Resolved, Abandon, gitVars, vars, processVars, treeVars
<1>2. CASE Copy(r) \/ CopyFails(r)
  <2>1. CASE f = task[r].file
    <3>1. mine'[f] = Absent \/ home'[f] = mine'[f] \/ work'[f] = mine'[f]
      BY <1>2, <2>1, HandTypes, CopyPlaces
    <3>2. QED
      BY <3>1 DEF Hand, Placed
  <2>2. CASE f # task[r].file
    <3>1. UNCHANGED <<arts, task>> /\ mine'[f] = mine[f] /\ home'[f] = home[f] /\ work'[f] = work[f]
      BY <1>2, <2>2, HandTypes, CopyPlaces
    <3>2. Dirs(f)' = Dirs(f) /\ LatestConflict(f)' = LatestConflict(f)
      BY <3>1 DEF Dirs, LatestConflict
    <3>3. QED
      <4>1. \A s \in Resolvers, t \in Times : ~Removes(s, t, f)'
        BY <1>t, <2>2, <3>1 DEF Removes
      <4>2. QED
        BY <1>1, <3>1, <3>2, <4>1, ListedHand DEF Listed
  <2>3. QED
    BY <2>1, <2>2
<1>3. ASSUME NEW g \in Paths, Find(r, g) PROVE Hand(f)'
  <2>1. UNCHANGED <<work, arts, home>>
    BY <1>3 DEF Find
  <2>2. Dirs(f)' = Dirs(f) /\ LatestConflict(f)' = LatestConflict(f)
    BY <2>1 DEF Dirs, LatestConflict
  <2>3. CASE step' = step
    <3>1. step[r] = "find" /\ UNCHANGED mine
      <4>1. step[r] = "find"
        BY <1>3 DEF Find
      <4>2. UNCHANGED mine
        BY <1>t, <1>3, <2>3, <4>1 DEF Find, Steps
      <4>3. QED
        BY <4>1, <4>2
    <3>2. QED
      <4>1. \A s \in Resolvers, t \in Times : ~Removes(s, t, f)'
        BY <1>t, <2>3, <3>1 DEF Removes
      <4>2. QED
        BY <1>1, <2>1, <2>2, <3>1, <4>1, ListedHand DEF Listed
  <2>4. CASE step' # step
    <3>1. task'[r].file = g /\ step'[r] = IF task[r].choice = "mark" THEN "local" ELSE "copy"
      BY <1>3, <2>4, HandTypes, FindTask
    <3>2. mine' = IF task[r].choice = "mark" THEN [mine EXCEPT ![g] = Absent] ELSE mine
      BY <1>3, <2>4 DEF Find
    <3>3. CASE mine'[f] = Absent
      BY <3>3 DEF Hand, Placed
    <3>4. CASE mine'[f] # Absent
      <4>1. mine'[f] = mine[f] /\ (step'[r] = "local" => task'[r].file # f)
        BY <3>1, <3>2, <3>4, HandTypes
      <4>2. step'[r] # "remote"
        BY <3>1
      <4>3. QED
        <5>1. \A s \in Resolvers, t \in Times : ~Removes(s, t, f)'
          BY <1>t, <4>1, <4>2 DEF Removes
        <5>2. QED
          BY <1>1, <2>1, <2>2, <4>1, <5>1, ListedHand DEF Listed
    <3>5. QED
      BY <3>3, <3>4
  <2>5. QED
    BY <2>3, <2>4
<1>4. CASE RemoveArtifacts(r)
  <2>0. UNCHANGED <<work, mine, home, task>>
    BY <1>4 DEF RemoveArtifacts, RemoveArtifact
  <2>1. PICK kind \in {"local", "remote", "base"}, next \in {"remote", "base", "find"} :
          /\ RemoveArtifact(r, kind, next) /\ step[r] = kind /\ step'[r] = next
          /\ next = "remote" => kind = "local"
    BY <1>4, <1>t DEF RemoveArtifacts, RemoveArtifact, Moves
  <2>2. /\ \A u \in Times, g \in Paths : u # task[r].at \/ g # task[r].file => arts'[u][g] = arts[u][g]
        /\ \A k \in {"local", "remote", "base"} :
             arts'[task[r].at][task[r].file][k] = IF k = kind THEN Absent ELSE arts[task[r].at][task[r].file][k]
        /\ Dirs(f)' \subseteq Dirs(f)
    BY <2>1, HandTypes, RemoveArtifactOne
  <2>3. \A s \in Resolvers, t \in Times : Removes(s, t, f)' => Removes(s, t, f)
    BY <1>t, <2>0, <2>1 DEF Removes
  <2>4. ASSUME NEW t \in Times, ~Removes(r, t, f)
        PROVE  arts'[t][f].local = arts[t][f].local /\ arts'[t][f].remote = arts[t][f].remote
    <3>1. CASE t # task[r].at \/ f # task[r].file
      BY <2>2, <3>1
    <3>2. CASE t = task[r].at /\ f = task[r].file
      <4>1. kind = "base"
        BY <2>1, <2>4, <3>2 DEF Removes
      <4>2. /\ arts'[t][f]["local"] = arts[t][f]["local"]
            /\ arts'[t][f]["remote"] = arts[t][f]["remote"]
        BY <2>2, <3>2, <4>1
      <4>3. QED
        BY <4>2
    <3>3. QED
      BY <3>1, <3>2
  <2>5. ASSUME Listed(f)
        PROVE  /\ Dirs(f)' # {} /\ Max(Dirs(f)') = Max(Dirs(f))
               /\ LatestConflict(f)'.local = LatestConflict(f).local
    <3> DEFINE m == Max(Dirs(f))
    <3>1. m \in Dirs(f) /\ m \in Times /\ ~Removes(r, m, f) /\ \A t \in Dirs(f) : t <= m
      <4>1. Dirs(f) \in SUBSET Times /\ Dirs(f) # {} /\ Times \subseteq Nat
        BY <2>5, GitSyncAssumption DEF Dirs, Listed, GitSyncAssumption, Times
      <4>2. m \in Dirs(f) /\ \A t \in Dirs(f) : m >= t
        BY <4>1, Latest
      <4>3. QED
        BY <2>5, <4>1, <4>2 DEF Listed
    <3> HIDE DEF m
    <3>2. arts'[m][f].local = arts[m][f].local /\ arts'[m][f].remote = arts[m][f].remote
      BY <2>4, <3>1
    <3>3. m \in Dirs(f)'
      BY <3>1, <3>2 DEF Dirs
    <3>4. Max(Dirs(f)') = m
      <4>1. Dirs(f)' \in SUBSET Times /\ \A t \in Dirs(f)' : t <= m
        BY <2>2, <3>1 DEF Dirs
      <4>2. QED
        BY <3>3, <4>1, LatestIs
    <3>5. LatestConflict(f)' = arts'[m][f] /\ LatestConflict(f) = arts[m][f]
      BY <3>4 DEF LatestConflict, m
    <3>6. QED
      BY <3>2, <3>3, <3>4, <3>5 DEF m
  <2>6. QED
    BY <1>1, <2>0, <2>3, <2>4, <2>5, ListedHand
<1>5. CASE (\E choice \in Versions : Resolve(r, choice)) \/ Resolved(r) \/ Abandon(r)
  <2>1. UNCHANGED <<work, mine, home, arts>> /\ step'[r] \notin {"local", "remote"}
    BY <1>5, <1>t DEF Resolve, Resolved, Abandon, Moves, vars, treeVars, userVars
  <2>2. Dirs(f)' = Dirs(f) /\ LatestConflict(f)' = LatestConflict(f)
    BY <2>1 DEF Dirs, LatestConflict
  <2>3. QED
    <3>1. \A s \in Resolvers, t \in Times : ~Removes(s, t, f)'
      BY <1>t, <2>1 DEF Removes
    <3>2. QED
      BY <1>1, <2>1, <2>2, <3>1, ListedHand DEF Listed
<1>6. QED
  BY <1>2, <1>3, <1>4, <1>5 DEF Resolver

LEMMA HandKept ==
  ASSUME FoundStep
  PROVE  HandInv'
<1> SUFFICES ASSUME NEW f \in Paths PROVE Hand(f)'
  BY DEF HandInv
<1>1. ASSUME NEW p \in Procs, Pull(p), UNCHANGED resolveVars PROVE Hand(f)'
  <2>1. ~PullRefused(p)
    BY HandTypes DEF PullRefused, PutAwayInv, PutAway
  <2>2. ~ApplyFails(p)
    BY HandTypes, NoFailure
  <2>3. QED
    BY <1>1, <2>1, <2>2, PullStatusHand, StashFileHand, ResetHand, PulledHand, DecideHand,
       ReplaceHand, CopiesHand, AppliedHand DEF Pull
<1>2. QED
  BY <1>1, SetupHand, SyncHand, EditHand, ResolverHand DEF FoundStep, CourseStep, Next, GitNext

-----------------------------------------------------------------------------
AtHandInv == TypeInv /\ RestInv /\ MineInv /\ BareInv /\ (Undisturbed => FoundInv)

LEMMA FoundKept ==
  ASSUME AtHandInv, Next, Undisturbed'
  PROVE  FoundInv'
<1>1. Undisturbed
  BY OddGrows DEF Undisturbed
<1>2. FoundInv /\ TypeInv /\ RestInv /\ MineInv /\ BareInv
  BY <1>1 DEF AtHandInv
<1>3. CourseStep /\ CourseInv'
  BY <1>2, CourseKept DEF FoundInv
<1>7. OneResolver'
  BY <1>2, OthersIdle DEF FoundInv, Next, OneResolver, resolveVars
<1>4. HeldInv'
  BY <1>2, HeldKept DEF FoundInv
<1>5. HandInv'
  BY <1>2, <1>3, HandKept DEF FoundStep
<1>6. QED
  BY <1>3, <1>4, <1>5, <1>7 DEF FoundInv

LEMMA AtHandKept ==
  ASSUME AtHandInv, [Next]_allVars
  PROVE  AtHandInv'
<1>1. TypeInv' /\ RestInv' /\ MineInv' /\ BareInv'
  BY TypesKept, RestKept, MineKept, BareKept DEF AtHandInv, TypeInv
<1>2. CASE UNCHANGED allVars
  <2>1. /\ Undisturbed' = Undisturbed /\ CourseInv' = CourseInv
        /\ UNCHANGED <<work, index, head, remote, stash, arts, pc, job, mine, home, step, task>>
    BY <1>2, CourseStutters
  <2>2. HeldInv' = HeldInv /\ OneResolver' = OneResolver
    BY <2>1 DEF HeldInv, OneResolver
  <2>3. HandInv' = HandInv
    BY <2>1 DEF HandInv, Hand, Placed, Returned, Returns, Holds, Listed, LatestConflict, Dirs, LeavesAlone,
                Stashed, Clean, Current, Removes
  <2>4. QED
    BY <1>1, <2>1, <2>2, <2>3 DEF AtHandInv, FoundInv
<1>3. CASE Next
  BY <1>1, <1>3, FoundKept DEF AtHandInv
<1>4. QED
  BY <1>2, <1>3

\* What the user wrote last is in place, about to be put back, or the local
\* version of the conflict that dsm conflicts lists and dsm resolve would take,
\* unless a pull or a copy fails, two processes change the repository at once, two
\* resolutions run at once, two stashes are made in one second or he edits while his
\* changes are stashed away or the file is about to be written back: for every number
\* of processes, pullers among them, and of resolvers.
THEOREM EditAtHandCorrect == Spec => []EditAtHand
<1>1. Init => AtHandInv
  <2> SUFFICES ASSUME Init PROVE AtHandInv
    OBVIOUS
  <2>1. OneResolver /\ HeldInv /\ HandInv
    BY DEF Init, GitInit, OneResolver, HeldInv, HandInv, Hand, Placed
  <2>2. QED
    BY <2>1, CourseBegins DEF AtHandInv, FoundInv
<1>2. AtHandInv /\ [Next]_allVars => AtHandInv'
  BY AtHandKept
<1>3. AtHandInv => EditAtHand
  <2> SUFFICES ASSUME AtHandInv, Undisturbed, NEW f \in Paths \ Nested
               PROVE  \/ mine[f] = Absent \/ InPlace(f, mine[f]) \/ Carried(f, mine[f])
                      \/ f \in GetConflicts /\ LatestConflict(f).local = mine[f]
    BY DEF EditAtHand, Undisturbed
  <2>1. Hand(f)
    BY DEF AtHandInv, FoundInv, HandInv
  <2>2. CASE Placed(f) \/ work[f] = mine[f]
    BY <2>2 DEF Placed, Written, InPlace, InHistory
  <2>3. CASE Returned(f)
    BY <2>3, PcSets DEF Returned, Returns, Current, Holds, Carried
  <2>4. CASE Listed(f)
    BY <2>4 DEF Listed, GetConflicts
  <2>5. QED
    BY <2>1, <2>2, <2>3, <2>4 DEF Hand
<1>4. QED
  BY <1>1, <1>2, <1>3, PTL DEF Spec

-----------------------------------------------------------------------------
(* A commit takes nothing back.                                              *)

\* What is on the branch the user knew when he wrote, or this machine has put
\* it there, or it is the empty file.
Familiar(f) == Tree(head)[f] \in Known(f) \cup {Empty}

\* A content that may be committed.
Replaces(f, c) ==
  \/ c = Tree(head)[f] \/ Tree(head)[f] \in Known(f)
  \/ Tree(head)[f] = Empty /\ c = Absent

\* What the work tree, the index and an index that is to be written hold.
PendingInv ==
  \A f \in Paths :
    /\ Replaces(f, work[f]) /\ Replaces(f, index[f])
    /\ \A p \in Procs : pc[p] = "addWrite" => Replaces(f, job[p].add[f])

\* p has b as the base of a file.
Taken(p, f, b) == stash[job[p].at][f].base = b /\ (job[p].entry[f].base <=> b # Absent)

\* The base that the version of the user is compared with is familiar.
Based(p) ==
  /\ pc[p] = "stash" => \A f \in Paths :
       /\ f \in job[p].left => Familiar(f)
       /\ f \in Stashed(p) \ job[p].left => Familiar(f) /\ Taken(p, f, Tree(head)[f])
  /\ pc[p] = "pull" =>
       /\ index = Tree(head)
       /\ \A f \in Stashed(p) : /\ Familiar(f) /\ Taken(p, f, Tree(head)[f])
                                /\ work[f] = Tree(head)[f] \/ Tree(head)[f] \in Known(f)
  /\ pc[p] \in ApplyPcs => \A f \in job[p].left \cup Current(p) :
       \/ Tree(head)[f] \in Known(f)
       \/ work[f] = Tree(head)[f] /\ \E b \in Known(f) \cup {Empty} : Taken(p, f, b)
BasedInv == \A p \in Procs : Based(p)
BasisInv == \A f \in Paths : basis[f] <= Len(head)

RevertInv == PendingInv /\ BasedInv /\ BasisInv
RevertStep == CourseStep /\ RevertInv

LEMMA RevertTypes ==
  ASSUME RevertStep
  PROVE  /\ TypeOK /\ TypeInv /\ TypeInv' /\ RestInv /\ BareInv /\ Undisturbed' /\ GoesOn
         /\ PendingInv /\ BasedInv /\ BasisInv /\ PutAwayInv /\ WritesInv
         /\ pc \in [Procs -> PcTypes] /\ job \in [Procs -> Jobs]
         /\ head \in Histories /\ head' \in Histories
         /\ Tree(head) \in [Paths -> Contents] /\ basis \in [Paths -> Nat]
         /\ work \in [Paths -> Contents] /\ index \in [Paths -> Contents]
         /\ \A p \in Procs : job[p].at \in Times
<1>1. basis \in [Paths -> Nat]
  <2>1. basis \in [Paths -> 0..MaxCommits] /\ MaxCommits \in Nat
    BY GitSyncAssumption DEF RevertStep, CourseStep, GoesOn, TypeInv, TypeOK, GitTypeOK, GitSyncAssumption
  <2>2. QED
    BY <2>1
<1>2. head' \in Histories
  BY DEF RevertStep, CourseStep, GoesOn, TypeInv, TypeOK, GitTypeOK
<1>3. QED
  BY <1>1, <1>2, CalmTypes, FoundTypes DEF RevertStep, CourseStep, CourseInv, RevertInv, GoesOn

LEMMA TreeWas ==
  ASSUME NEW h \in Histories, NEW f \in Paths
  PROVE  Tree(h)[f] = IF Len(h) = 0 THEN Absent ELSE h[Len(h)].tree[f]
<1>1. h = <<>> <=> Len(h) = 0
  BY DEF Histories
<1>2. QED
  BY <1>1 DEF Tree, Last

\* What is known of a file stays known while the user does not write it.
LEMMA KnownStays ==
  ASSUME RevertStep, NEW f \in Paths, basis'[f] = basis[f]
  PROVE  Known(f) \subseteq Known(f)'
<1> SUFFICES ASSUME NEW i \in {basis[f]} \cup {j \in basis[f] + 1 .. Len(head) : head[j].by # Other}
             PROVE  Was(f, i) \in Known(f)'
  BY DEF Known
<1>1. basis[f] \in Nat /\ basis[f] <= Len(head) /\ Len(head) \in Nat /\ Len(head') \in Nat
  BY RevertTypes DEF BasisInv, Histories
<1>2. i \in Nat /\ i <= Len(head)
  BY <1>1
<1>3. DOMAIN head = 1..Len(head) /\ DOMAIN head' = 1..Len(head')
  BY RevertTypes DEF Histories
<1>4. i # 0 => i \in DOMAIN head
  BY <1>2, <1>3
<1>5. i # 0 => i <= Len(head') /\ head'[i] = head[i]
  <2>1. i # 0 => i \in DOMAIN head' /\ head'[i] = head[i]
    BY <1>4, RevertTypes, HistoryGoesOn DEF GoesOn
  <2>2. QED
    BY <1>3, <2>1
<1>6. Was(f, i)' = Was(f, i)
  BY <1>5 DEF Was
<1>7. i \in {basis[f]} \cup {j \in basis[f] + 1 .. Len(head') : head'[j].by # Other}
  BY <1>1, <1>2, <1>5
<1>8. QED
  BY <1>6, <1>7 DEF Known

\* What he writes is made upon what is there.
LEMMA KnownNow ==
  ASSUME RevertStep, UNCHANGED head, NEW f \in Paths, basis'[f] = Len(head)
  PROVE  Tree(head')[f] \in Known(f)'
<1>1. Tree(head')[f] = Was(f, Len(head))'
  BY RevertTypes, TreeWas DEF Was
<1>2. QED
  BY <1>1 DEF Known

\* So is what a process of this machine has committed.
LEMMA KnownCommit ==
  ASSUME RevertStep, NEW p \in Procs, head' = Append(head, [tree |-> index, by |-> p]),
         NEW f \in Paths, basis'[f] = basis[f]
  PROVE  Tree(head')[f] \in Known(f)'
<1>1. PICK n \in Nat : n = Len(head) + 1 /\ Len(head') = n /\ head'[n].by = p /\ n # 0
  BY RevertTypes DEF Histories
<1>2. p # Other
  BY GitSyncAssumption DEF GitSyncAssumption
<1>3. basis'[f] + 1 <= n /\ basis'[f] \in Nat
  BY <1>1, RevertTypes DEF BasisInv, Histories
<1>4. Tree(head')[f] = Was(f, n)'
  BY <1>1, RevertTypes, TreeWas DEF Was
<1>5. n \in {j \in basis'[f] + 1 .. Len(head') : head'[j].by # Other}
  BY <1>1, <1>2, <1>3
<1>6. QED
  BY <1>4, <1>5 DEF Known

LEMMA RevertBasis ==
  ASSUME RevertStep, \A f \in Paths : basis'[f] = basis[f] \/ basis'[f] = Len(head)
  PROVE  BasisInv'
<1>1. Len(head) <= Len(head') /\ Len(head) \in Nat /\ Len(head') \in Nat
  BY RevertTypes DEF GoesOn, IsPrefix, Histories
<1>2. \A f \in Paths : basis[f] \in Nat /\ basis[f] <= Len(head)
  BY RevertTypes DEF BasisInv
<1>3. QED
  BY <1>1, <1>2 DEF BasisInv

\* The user and the resolvers, who take what is there for known.
LEMMA TouchReverts ==
  ASSUME RevertStep, UNCHANGED <<index, head, stash, pc, job>>,
         \A f \in Paths : (basis'[f] = basis[f] /\ work'[f] = work[f]) \/ basis'[f] = Len(head)
  PROVE  RevertInv'
<1>1. \A f \in Paths : /\ Known(f) \subseteq Known(f)' /\ work'[f] = work[f]
                       \/ Tree(head')[f] \in Known(f)'
  BY KnownStays, KnownNow
<1>2. PendingInv'
  <2>1. ASSUME NEW f \in Paths
        PROVE  /\ Replaces(f, work[f])' /\ Replaces(f, index[f])'
               /\ \A p \in Procs : pc'[p] = "addWrite" => Replaces(f, job[p].add[f])'
    BY <1>1, <2>1, RevertTypes DEF PendingInv, Replaces
  <2>2. QED
    BY <2>1 DEF PendingInv
<1>3. ASSUME NEW p \in Procs PROVE Based(p)'
  <2>1. /\ Based(p) /\ Stashed(p)' = Stashed(p) /\ Current(p)' = Current(p)
        /\ job[p].left \cup Current(p) \subseteq Paths /\ Stashed(p) \subseteq Paths
    BY RevertTypes, CalmTypes DEF BasedInv, Stashed, Current
  <2>2. \A f \in Paths : /\ Familiar(f) => Familiar(f)'
                         /\ \A b : Taken(p, f, b) => Taken(p, f, b)'
    BY <1>1 DEF Familiar, Taken
  <2>3. pc[p] = "stash" => Based(p)'
    BY <2>1, <2>2, PcSets DEF Based
  <2>4. pc[p] = "pull" => Based(p)'
    BY <1>1, <2>1, <2>2, PcSets DEF Based
  <2>5. pc[p] \in ApplyPcs => Based(p)'
    <3> SUFFICES ASSUME pc[p] \in ApplyPcs, NEW f \in job[p].left \cup Current(p)
                 PROVE  \/ Tree(head')[f] \in Known(f)'
                        \/ work'[f] = Tree(head')[f] /\ \E b \in Known(f)' \cup {Empty} : Taken(p, f, b)'
      BY <2>1, PcSets DEF Based
    <3>1. \/ Tree(head)[f] \in Known(f)
          \/ work[f] = Tree(head)[f] /\ \E b \in Known(f) \cup {Empty} : Taken(p, f, b)
      BY <2>1 DEF Based
    <3>2. f \in Paths /\ head' = head
      BY <2>1
    <3>3. QED
      BY <1>1, <2>2, <3>1, <3>2
  <2>6. QED
    BY <2>3, <2>4, <2>5 DEF Based
<1>4. QED
  BY <1>2, <1>3, RevertBasis DEF RevertInv, BasedInv

\* A step of a process disturbs no other.
LEMMA ElseReverts ==
  ASSUME RevertStep, UNCHANGED basis, NEW p \in Procs, Bootstrap(p) \/ Sync(p) \/ Pull(p) \/ Stop(p),
         \A f \in Paths : Replaces(f, work[f])' /\ Replaces(f, index[f])',
         pc'[p] = "addWrite" => \A f \in Paths : Replaces(f, job[p].add[f])',
         Based(p)'
  PROVE  RevertInv'
<1>1. ASSUME NEW q \in Procs \ {p}, AtWork(q)'
      PROVE  /\ UNCHANGED <<work, index, head, stash>> /\ pc'[q] = pc[q] /\ job'[q] = job[q]
  <2>1. pc'[q] = pc[q] /\ job'[q] = job[q]
    BY RevertTypes, OthersStay
  <2>2. AtWork(q)
    BY <1>1, <2>1 DEF AtWork
  <2>3. QED
    BY <2>1, <2>2, OneAtWork DEF RevertStep
<1>2. ASSUME NEW q \in Procs \ {p}, pc'[q] = "addWrite", NEW f \in Paths PROVE Replaces(f, job[q].add[f])'
  <2>1. UNCHANGED <<work, index, head, stash>> /\ pc'[q] = pc[q] /\ job'[q] = job[q]
    BY <1>1, <1>2 DEF AtWork, CommitPcs
  <2>2. QED
    BY <1>2, <2>1, RevertTypes DEF PendingInv, Replaces, Known, Was
<1>3. ASSUME NEW q \in Procs \ {p} PROVE Based(q)'
  <2>1. CASE pc'[q] \in StashPcs
    <3>1. UNCHANGED <<work, index, head, stash>> /\ pc'[q] = pc[q] /\ job'[q] = job[q]
      BY <1>1, <2>1, PcSets DEF AtWork
    <3>2. /\ Based(q) /\ Stashed(q)' = Stashed(q) /\ job'[q].left = job[q].left
          /\ Current(q)' = Current(q)
      BY <3>1, RevertTypes DEF BasedInv, Stashed, Current
    <3>3. \A f : Known(f)' = Known(f) /\ Tree(head)[f]' = Tree(head)[f]
      BY <3>1 DEF Known, Was
    <3>4. \A f : /\ Familiar(f)' <=> Familiar(f)
                /\ \A b : Taken(q, f, b)' <=> Taken(q, f, b)
      BY <3>1, <3>3 DEF Familiar, Taken
    <3>5. QED
      BY <3>1, <3>2, <3>3, <3>4 DEF Based
  <2>2. CASE pc'[q] \notin StashPcs
    BY <2>2, PcSets DEF Based
  <2>3. QED
    BY <2>1, <2>2
<1>4. BasisInv'
  BY RevertBasis
<1>5. PendingInv'
  BY <1>2 DEF PendingInv
<1>6. QED
  BY <1>3, <1>4, <1>5 DEF RevertInv, BasedInv

LEMMA SetupReverts ==
  ASSUME RevertStep, NEW p \in Procs, Bootstrap(p) \/ Stop(p)
  PROVE  RevertInv'
<1>1. UNCHANGED basis
  BY DEF Bootstrap, Boot, MakeDirectory, Clone, OpenOrInit, EnsureRemote, BootRest, Stop, userVars
<1>2. pc'[p] \notin StashPcs \cup CommitPcs
  BY RevertTypes, PcSets DEF Bootstrap, Boot, MakeDirectory, Clone, OpenOrInit, EnsureRemote, BootRest, Stop,
                     Goto, Return, CommitPcs
<1>3. Based(p)' /\ pc'[p] # "addWrite"
  BY <1>2, PcSets DEF Based, CommitPcs
<1>4. CASE Clone(p)
  BY <1>1, <1>3, <1>4, ElseReverts DEF Clone, Replaces
<1>5. CASE ~Clone(p)
  <2>1. UNCHANGED <<work, index, head>>
    BY <1>5 DEF Bootstrap, Boot, MakeDirectory, OpenOrInit, EnsureRemote, BootRest, Stop, treeVars
  <2>2. \A f \in Paths : Replaces(f, work[f])' /\ Replaces(f, index[f])'
    BY <1>1, <2>1, RevertTypes DEF PendingInv, Replaces, Known, Was
  <2>3. QED
    BY <1>1, <1>3, <2>2, ElseReverts
<1>6. QED
  BY <1>4, <1>5

LEMMA SyncReverts ==
  ASSUME RevertStep, NEW p \in Procs, Sync(p)
  PROVE  RevertInv'
<1>1. UNCHANGED <<basis, work>>
  BY DEF Sync, CheckStatus, ReadWorkTree, AddAll, ReadParent, Commit, Push, CommitRest, userVars
<1>2. pc'[p] \notin StashPcs
  BY RevertTypes, PcSets DEF Sync, CheckStatus, ReadWorkTree, AddAll, ReadParent, Commit, Push, Goto, Return
<1>3. Based(p)'
  BY <1>2, PcSets DEF Based
<1>4. ASSUME UNCHANGED head
      PROVE  \A f \in Paths, c \in Contents : Replaces(f, c) => Replaces(f, c)'
  BY <1>1, <1>4 DEF Replaces, Known, Was
<1>5. \A f \in Paths : work[f] \in Contents /\ index[f] \in Contents /\ job[p].add[f] \in Contents
  BY RevertTypes, FoundTypes
<1>6. CASE CheckStatus(p) \/ ReadParent(p) \/ Push(p)
  <2>1. UNCHANGED <<index, head>> /\ pc'[p] # "addWrite"
    BY <1>6, RevertTypes DEF CheckStatus, ReadParent, Push, Goto, Return
  <2>2. QED
    BY <1>1, <1>3, <1>4, <1>5, <2>1, RevertTypes, ElseReverts DEF PendingInv
<1>7. CASE ReadWorkTree(p)
  <2>1. UNCHANGED <<index, head>> /\ job' = [job EXCEPT ![p] = [@ EXCEPT !["add"] = work]]
    BY <1>7 DEF ReadWorkTree, Set
  <2>2. job'[p].add = work
    BY <2>1, RevertTypes DEF Jobs
  <2>3. QED
    BY <1>1, <1>3, <1>4, <1>5, <2>1, <2>2, RevertTypes, ElseReverts DEF PendingInv
<1>8. CASE AddAll(p)
  <2>1. UNCHANGED head /\ index' = job[p].add /\ pc[p] = "addWrite" /\ pc'[p] = "commit"
    BY <1>8, RevertTypes DEF AddAll, Goto
  <2>2. QED
    BY <1>1, <1>3, <1>4, <1>5, <2>1, RevertTypes, ElseReverts DEF PendingInv
<1>9. CASE Commit(p)
  <2>1. head' = Append(head, [tree |-> index, by |-> p]) /\ pc'[p] = "push"
    BY <1>9, RevertTypes DEF Commit, RevertStep, CourseStep, CourseInv, TipInv
  <2>2. \A f \in Paths : Tree(head')[f] \in Known(f)'
    BY <1>1, <2>1, KnownCommit
  <2>3. QED
    BY <1>1, <1>3, <2>1, <2>2, ElseReverts DEF Replaces
<1>10. QED
  BY <1>6, <1>7, <1>8, <1>9 DEF Sync

LEMMA PullStatusReverts ==
  ASSUME RevertStep, NEW p \in Procs, PullStatus(p)
  PROVE  RevertInv'
<1>1. UNCHANGED <<work, index, head, basis, stash>> /\ pc[p] = "ready"
  BY DEF PullStatus, PullRest, Goto, treeVars, userVars
<1>2. \A f \in Paths : /\ Replaces(f, work[f])' /\ Replaces(f, index[f])'
                       /\ Familiar(f)' = Familiar(f)
  <2>1. \A f : Known(f)' = Known(f)
    BY <1>1 DEF Known, Was
  <2>2. QED
    BY <1>1, <2>1, RevertTypes DEF PendingInv, Replaces, Familiar
<1>3. ASSUME Dirty = {} PROVE Based(p)' /\ pc'[p] # "addWrite"
  <2>1. pc'[p] = "pull" /\ job' = job
    BY <1>3, RevertTypes, PullStatusJob
  <2>2. Stashed(p)' = {}
    BY <1>1, <2>1, RevertTypes, PcSets DEF RestInv, Rests, Stashed
  <2>3. index = Tree(head)
    BY <1>3, RevertTypes DEF Dirty
  <2>4. QED
    BY <1>1, <2>1, <2>2, <2>3, PcSets DEF Based
<1>4. ASSUME Dirty # {} PROVE Based(p)' /\ pc'[p] # "addWrite"
  <2>1. pc'[p] = "stash" /\ job'[p].left = Dirty /\ Stashed(p)' \subseteq Dirty
    BY <1>4, RevertTypes, PullStatusJob
  <2>2. \A f \in Dirty : Familiar(f)
    BY RevertTypes DEF Dirty, PendingInv, Replaces, Familiar
  <2>3. QED
    BY <1>2, <2>1, <2>2, PcSets DEF Based, Dirty
<1>5. QED
  BY <1>1, <1>2, <1>3, <1>4, ElseReverts DEF Pull

LEMMA StashFileReverts ==
  ASSUME RevertStep, NEW p \in Procs, NEW g \in Paths, StashFile(p, g)
  PROVE  RevertInv'
<1>1. UNCHANGED <<pc, work, index, head, basis>> /\ pc[p] = "stash"
  BY DEF StashFile, PullRest, treeVars, userVars
<1>2. \A f \in Paths : /\ Replaces(f, work[f])' /\ Replaces(f, index[f])'
                       /\ Familiar(f)' = Familiar(f)
  <2>1. \A f : Known(f)' = Known(f)
    BY <1>1 DEF Known, Was
  <2>2. QED
    BY <1>1, <2>1, RevertTypes DEF PendingInv, Replaces, Familiar
<1>3. /\ g \in job[p].left /\ job'[p].left = job[p].left \ {g} /\ job'[p].at = job[p].at
      /\ \A f \in Paths \ {g} : job'[p].entry[f] = job[p].entry[f]
      /\ job'[p].entry[g].base = (Tree(head)[g] # Absent)
      /\ Stashed(p)' = Stashed(p) \cup {g}
      /\ \A u \in Times, f \in Paths : u # job[p].at \/ f # g => stash'[u][f] = stash[u][f]
      /\ stash'[job[p].at][g].base = Tree(head)[g]
  <2>1. job[p].entry[g].kind = "deleted" => work[g] = Absent
    BY <1>1, RevertTypes DEF PutAwayInv, PutAway
  <2>2. stash'[job[p].at][g] = [local |-> work[g], base |-> Tree(head)[g]]
    BY <2>1, RevertTypes, StashFileJob
  <2>3. QED
    BY <2>1, <2>2, RevertTypes, StashFileJob
<1>4. ASSUME NEW f \in Stashed(p)' \ job'[p].left PROVE Familiar(f) /\ Taken(p, f, Tree(head)[f])'
  <2>1. CASE f = g
    BY <1>1, <1>3, <2>1, RevertTypes DEF BasedInv, Based, Taken
  <2>2. CASE f # g
    <3>1. f \in Paths /\ f \in Stashed(p) \ job[p].left
      BY <1>3, <1>4, <2>2 DEF Stashed
    <3>2. Familiar(f) /\ Taken(p, f, Tree(head)[f])
      BY <1>1, <3>1, RevertTypes DEF BasedInv, Based
    <3>3. QED
      BY <1>1, <1>3, <2>2, <3>1, <3>2, RevertTypes DEF Taken
  <2>3. QED
    BY <2>1, <2>2
<1>5. Based(p)'
  BY <1>1, <1>2, <1>3, <1>4, RevertTypes, PcSets DEF BasedInv, Based
<1>6. QED
  BY <1>1, <1>2, <1>5, ElseReverts DEF Pull

LEMMA ResetReverts ==
  ASSUME RevertStep, NEW p \in Procs, Reset(p)
  PROVE  RevertInv'
<1>1. /\ UNCHANGED <<head, stash, job, basis>> /\ pc[p] = "stash" /\ pc'[p] = "pull"
      /\ job[p].left = {} /\ ResetTo(Tree(head))
  BY RevertTypes DEF Reset, PullRest, Goto, userVars
<1>2. \A f \in Paths : \/ work'[f] = Tree(head)[f]
                       \/ work'[f] = work[f] /\ Tree(head)[f] = Absent
  BY <1>1, RevertTypes DEF ResetTo
<1>3. index' = Tree(head)
  BY <1>1 DEF ResetTo
<1>4. \A f \in Paths : Known(f)' = Known(f)
  BY <1>1 DEF Known, Was
<1>5. \A f \in Paths : work'[f] = Tree(head)[f] \/ Tree(head)[f] \in Known(f)
  BY <1>2, RevertTypes, GitSyncAssumption DEF PendingInv, Replaces, GitSyncAssumption, IsInjective
<1>6. \A f \in Paths : Replaces(f, work[f])' /\ Replaces(f, index[f])'
  BY <1>1, <1>3, <1>4, <1>5 DEF Replaces
<1>7. \A f \in Stashed(p) : Familiar(f) /\ Taken(p, f, Tree(head)[f])
  BY <1>1, RevertTypes DEF BasedInv, Based, Stashed
<1>8. Based(p)'
  BY <1>1, <1>3, <1>4, <1>5, <1>7, PcSets DEF Based, Familiar, Taken, Stashed
<1>9. QED
  BY <1>1, <1>6, <1>8, ElseReverts DEF Pull

LEMMA PulledReverts ==
  ASSUME RevertStep, NEW p \in Procs, UpToDate(p) \/ FastForward(p)
  PROVE  RevertInv'
<1>1. UNCHANGED <<stash, basis>> /\ pc[p] = "pull"
  BY DEF UpToDate, FastForward, PullRest, userVars
<1>2. /\ index = Tree(head)
      /\ \A f \in Stashed(p) : /\ Familiar(f) /\ Taken(p, f, Tree(head)[f])
                               /\ work[f] = Tree(head)[f] \/ Tree(head)[f] \in Known(f)
  BY <1>1, RevertTypes DEF BasedInv, Based
<1>3. /\ Stashed(p) = {} => pc'[p] = "ready"
      /\ Stashed(p) # {} => /\ pc'[p] = "apply" /\ job'[p].left = Stashed(p)
                            /\ job'[p].entry = job[p].entry /\ job'[p].at = job[p].at
  BY RevertTypes, PulledJob
<1>4. \A f \in Paths : Known(f) \subseteq Known(f)'
  BY <1>1, KnownStays
<1>5. /\ \A f \in Paths : Replaces(f, work[f])' /\ Replaces(f, index[f])'
      /\ \A f \in Stashed(p) : work'[f] = Tree(head')[f] \/ Tree(head')[f] \in Known(f)'
  <2>1. CASE UpToDate(p)
    <3>1. UNCHANGED <<work, index, head>>
      BY <2>1 DEF UpToDate, treeVars
    <3>2. \A f : Known(f)' = Known(f)
      BY <1>1, <3>1 DEF Known, Was
    <3>3. QED
      BY <1>1, <1>2, <3>1, <3>2, RevertTypes DEF PendingInv, Replaces
  <2>2. CASE FastForward(p)
    <3>1. head' = remote /\ ResetTo(Tree(remote))
      BY <2>2 DEF FastForward
    <3>2. index' = Tree(head')
      BY <3>1 DEF ResetTo
    <3>3. ASSUME NEW f \in Paths PROVE work'[f] = Tree(head')[f] \/ Tree(head')[f] \in Known(f)'
      <4>1. \/ work'[f] = Tree(head')[f]
            \/ work'[f] = work[f] /\ Tree(head')[f] = Absent /\ index[f] = Absent
        BY <3>1 DEF ResetTo
      <4>2. CASE work'[f] = work[f] /\ Tree(head')[f] = Absent /\ index[f] = Absent
        <5>1. Tree(head)[f] = Absent /\ Absent # Empty
          BY <1>2, <4>2, GitSyncAssumption DEF GitSyncAssumption, IsInjective
        <5>2. work[f] = Absent \/ Absent \in Known(f)
          BY <5>1, RevertTypes DEF PendingInv, Replaces
        <5>3. QED
          BY <1>4, <4>2, <5>2
      <4>3. QED
        BY <4>1, <4>2
    <3>4. QED
      BY <3>2, <3>3 DEF Replaces, Stashed
  <2>3. QED
    BY <2>1, <2>2
<1>6. Based(p)'
  <2>1. CASE Stashed(p) = {}
    BY <1>3, <2>1, PcSets DEF Based
  <2>2. CASE Stashed(p) # {}
    <3>1. ASSUME NEW f \in Stashed(p) PROVE \E b \in Known(f)' \cup {Empty} : Taken(p, f, b)'
      <4>1. PICK b \in Known(f) \cup {Empty} : b = Tree(head)[f] /\ Taken(p, f, b)
        BY <1>2, <3>1 DEF Familiar
      <4>2. Taken(p, f, b)'
        BY <1>1, <1>3, <2>2, <4>1 DEF Taken
      <4>3. QED
        BY <1>4, <3>1, <4>1, <4>2 DEF Stashed
    <3>2. Current(p)' = {}
      BY <1>3, <2>2, PcSets DEF Current
    <3>3. QED
      BY <1>3, <1>5, <2>2, <3>1, <3>2, PcSets DEF Based
  <2>3. QED
    BY <2>1, <2>2
<1>7. pc'[p] # "addWrite"
  BY <1>3
<1>8. QED
  BY <1>1, <1>5, <1>6, <1>7, ElseReverts DEF Pull

\* What the pull puts back into the file may be committed.
LEMMA WritesKnown ==
  ASSUME RevertStep, NEW p \in Procs, NEW g \in Current(p),
         Fate(p, g) = "write"
  PROVE  Replaces(g, Ours(p, g))
<1>1. CASE Tree(head)[g] \in Known(g)
  BY <1>1 DEF Replaces
<1>2. ASSUME work[g] = Tree(head)[g], NEW b \in Known(g) \cup {Empty}, Taken(p, g, b)
      PROVE  Replaces(g, Ours(p, g))
  <2>0. Empty # Absent
    BY GitSyncAssumption DEF GitSyncAssumption, IsInjective
  <2>1. CASE job[p].entry[g].kind = "deleted"
    <3>1. work[g] = b \/ work[g] = Empty
      BY <1>2, <2>1 DEF Fate, Taken
    <3>2. QED
      BY <1>2, <2>1, <3>1 DEF Ours, Replaces
  <2>2. CASE job[p].entry[g].kind # "deleted"
    <3>1. IF work[g] = Absent THEN ~job[p].entry[g].base ELSE b \notin {Absent, Empty} /\ work[g] = b
      BY <1>2, <2>2 DEF Fate, Taken
    <3>2. Tree(head)[g] \in Known(g)
      BY <1>2, <2>0, <3>1 DEF Taken
    <3>3. QED
      BY <3>2 DEF Replaces
  <2>3. QED
    BY <2>1, <2>2
<1>3. pc[p] \in ApplyPcs
  BY PcSets DEF Current
<1>4. QED
  BY <1>1, <1>2, <1>3, RevertTypes DEF BasedInv, Based

\* The steps that apply the stash, of which one writes into the work tree.
LEMMA ApplyReverts ==
  ASSUME RevertStep, NEW p \in Procs,
         (\E f \in Paths : Decide(p, f)) \/ Replace(p) \/ CopyRemote(p) \/ CopyBase(p) \/ CopyLocal(p)
  PROVE  RevertInv'
<1>1. /\ UNCHANGED <<index, head, stash, basis>>
      /\ pc[p] \in ApplyPcs /\ pc'[p] \in ApplyPcs
      /\ job'[p].left \cup Current(p)' \subseteq job[p].left \cup Current(p)
      /\ job'[p].entry = job[p].entry /\ job'[p].at = job[p].at
  BY RevertTypes, ApplyJob
<1>2. \A f \in Paths : /\ work'[f] # work[f] => f \notin job'[p].left \cup Current(p)'
                       /\ Replaces(f, work'[f]) /\ Replaces(f, index[f])
  <2>1. CASE Replace(p)
    <3> DEFINE g == job[p].file
    <3>1. /\ pc[p] = "replace" /\ work' = [work EXCEPT ![g] = job[p].held.local]
          /\ pc'[p] = "apply" /\ job'[p].left = job[p].left
      <4>1. \E c \in BOOLEAN : NextFile(p, c)
        BY <2>1, RevertTypes, FoundTypes DEF Replace, Jobs
      <4>2. QED
        BY <2>1, <4>1, RevertTypes, NextFileJob DEF Replace
    <3>2. g \in Current(p) /\ g \in Paths \ job[p].left
      BY <3>1, RevertTypes, PcSets DEF RestInv, Rests, Current, Stashed
    <3>3. Replaces(g, job[p].held.local)
      BY <3>1, <3>2, WritesKnown, RevertTypes DEF WritesInv, Writes
    <3>4. Current(p)' = {}
      BY <3>1, PcSets DEF Current
    <3>5. \A f \in Paths : work'[f] = IF f = g THEN job[p].held.local ELSE work[f]
      BY <3>1, RevertTypes
    <3>6. QED
      BY <3>1, <3>2, <3>3, <3>4, <3>5, RevertTypes DEF PendingInv
  <2>2. CASE ~Replace(p)
    <3>1. UNCHANGED work
      BY <2>2 DEF Decide, CopyRemote, CopyBase, CopyLocal, ArtifactRest
    <3>2. QED
      BY <3>1, RevertTypes DEF PendingInv
  <2>3. QED
    BY <2>1, <2>2
<1>3. \A f \in Paths : Known(f)' = Known(f)
  BY <1>1 DEF Known, Was
<1>4. \A f \in Paths : Replaces(f, work[f])' /\ Replaces(f, index[f])'
  <2>1. \A f \in Paths : Replaces(f, work'[f]) /\ Replaces(f, index[f])
    BY <1>2
  <2>2. QED
    BY <1>1, <1>3, <2>1 DEF Replaces
<1>5. Based(p)'
  <2>1. ASSUME NEW f \in job'[p].left \cup Current(p)'
        PROVE  \/ Tree(head')[f] \in Known(f)'
               \/ work'[f] = Tree(head')[f] /\ \E b \in Known(f)' \cup {Empty} : Taken(p, f, b)'
    <3>1. f \in job[p].left \cup Current(p) /\ f \in Paths
      BY <1>1, <2>1, RevertTypes, CalmTypes DEF Current
    <3>2. work'[f] = work[f]
      BY <1>2, <2>1, <3>1
    <3>3. \/ Tree(head)[f] \in Known(f)
          \/ work[f] = Tree(head)[f] /\ \E b \in Known(f) \cup {Empty} : Taken(p, f, b)
      BY <1>1, <3>1, RevertTypes DEF BasedInv, Based
    <3>4. \A b : Taken(p, f, b) => Taken(p, f, b)'
      BY <1>1 DEF Taken
    <3>5. QED
      BY <1>1, <1>3, <3>1, <3>2, <3>3, <3>4
  <2>2. QED
    BY <1>1, <2>1, PcSets DEF Based
<1>6. pc'[p] # "addWrite"
  BY <1>1, PcSets
<1>7. QED
  BY <1>1, <1>4, <1>5, <1>6, ElseReverts DEF Pull

LEMMA AppliedReverts ==
  ASSUME RevertStep, NEW p \in Procs, Applied(p)
  PROVE  RevertInv'
<1>1. UNCHANGED <<work, index, head, basis>> /\ pc'[p] = "ready"
  BY RevertTypes DEF Applied, PullRest, Return, treeVars, userVars
<1>2. \A f \in Paths : Replaces(f, work[f])' /\ Replaces(f, index[f])'
  BY <1>1, RevertTypes DEF PendingInv, Replaces, Known, Was
<1>3. Based(p)' /\ pc'[p] # "addWrite"
  BY <1>1, PcSets DEF Based
<1>4. QED
  BY <1>1, <1>2, <1>3, ElseReverts DEF Pull

LEMMA TouchedReverts ==
  ASSUME RevertStep,
         \/ Tick
         \/ \E f \in Paths : (\E c \in UserWrites : Edit(f, c)) \/ (\E c \in OtherWrites : RemoteCommit(f, c))
         \/ \E r \in Resolvers : Resolver(r)
  PROVE  RevertInv'
<1>1. CASE Tick \/ \E f \in Paths, c \in OtherWrites : RemoteCommit(f, c)
  BY <1>1, TouchReverts DEF Tick, RemoteCommit, treeVars, processVars, userVars
<1>2. ASSUME NEW f \in Paths, NEW c \in UserWrites, Edit(f, c) PROVE RevertInv'
  BY <1>2, TouchReverts, RevertTypes DEF Edit, processVars
<1>3. ASSUME NEW r \in Resolvers, Copy(r) \/ CopyFails(r) PROVE RevertInv'
  <2>1. /\ UNCHANGED <<index, head, stash, pc, job>>
        /\ \A g \in Paths \ {task[r].file} : work'[g] = work[g]
    BY <1>3, RevertTypes, CopyPlaces
  <2>2. basis' = [basis EXCEPT ![task[r].file] = Len(head)]
    BY <1>3 DEF Copy, CopyFails, CopyFile
  <2>3. QED
    BY <2>1, <2>2, TouchReverts, RevertTypes
<1>4. ASSUME NEW r \in Resolvers, Resolver(r), ~Copy(r), ~CopyFails(r) PROVE RevertInv'
  <2>1. UNCHANGED <<index, head, stash, pc, job, work, basis>>
    BY <1>4 DEF Resolver, Resolve, Find, RemoveArtifacts, RemoveArtifact, Resolved, Abandon,
                gitVars, vars, processVars, treeVars, userVars
  <2>2. QED
    BY <2>1, TouchReverts
<1>5. QED
  BY <1>1, <1>2, <1>3, <1>4

LEMMA RevertStepKept ==
  ASSUME RevertStep
  PROVE  RevertInv'
<1>1. ASSUME NEW p \in Procs, Pull(p) PROVE RevertInv'
  <2>1. ~PullRefused(p)
    BY RevertTypes DEF PullRefused, PutAwayInv, PutAway
  <2>2. ~ApplyFails(p)
    BY RevertTypes, NoFailure
  <2>3. QED
    BY <1>1, <2>1, <2>2, PullStatusReverts, StashFileReverts, ResetReverts, PulledReverts, ApplyReverts,
       AppliedReverts DEF Pull
<1>2. QED
  BY <1>1, SetupReverts, SyncReverts, TouchedReverts DEF RevertStep, CourseStep, Next, GitNext

-----------------------------------------------------------------------------
NoRevertInv == TypeInv /\ RestInv /\ MineInv /\ BareInv /\ (Undisturbed => CourseInv /\ RevertInv)

LEMMA NoRevertKept ==
  ASSUME NoRevertInv, [Next]_allVars
  PROVE  NoRevertInv'
<1>1. TypeInv' /\ RestInv' /\ MineInv' /\ BareInv'
  BY TypesKept, RestKept, MineKept, BareKept DEF NoRevertInv, TypeInv
<1>2. CASE UNCHANGED allVars
  <2>1. /\ Undisturbed' = Undisturbed /\ CourseInv' = CourseInv
        /\ UNCHANGED <<work, index, head, stash, pc, job, basis>>
    BY <1>2, CourseStutters
  <2>2. RevertInv' = RevertInv
    BY <2>1 DEF RevertInv, PendingInv, Replaces, BasedInv, Based, Familiar, Taken, Stashed, BasisInv, Known, Was,
                  Current
  <2>3. QED
    BY <1>1, <2>1, <2>2 DEF NoRevertInv
<1>3. CASE Next
  <2> SUFFICES ASSUME Undisturbed' PROVE CourseInv' /\ RevertInv'
    BY <1>1 DEF NoRevertInv
  <2>1. Undisturbed
    BY OddGrows DEF Undisturbed
  <2>2. TypeInv /\ RestInv /\ MineInv /\ BareInv /\ CourseInv /\ RevertInv
    BY <2>1 DEF NoRevertInv
  <2>3. CourseStep /\ CourseInv'
    BY <1>3, <2>2, CourseKept
  <2>4. QED
    BY <2>2, <2>3, RevertStepKept DEF RevertStep
<1>4. QED
  BY <1>2, <1>3

\* What a commit replaces stood in the file when the user wrote his version, or
\* this machine has committed it since: however often the other machines have
\* changed the file in between, for any number of processes that pull and commit
\* and of resolvers, unless an edit is made while the changes are stashed away,
\* two stashes in one second, two processes are at work at once or a pull fails.
THEOREM NoSilentRevertCorrect == Spec => NoSilentRevert
<1>1. Init => NoRevertInv
  <2> SUFFICES ASSUME Init PROVE NoRevertInv
    OBVIOUS
  <2>1. TypeInv /\ RestInv /\ MineInv /\ BareInv /\ CourseInv
    BY CourseBegins
  <2>2. PendingInv
    BY DEF Init, GitInit, PendingInv, Replaces
  <2>3. BasedInv
    BY PcSets DEF Init, GitInit, BasedInv, Based
  <2>4. BasisInv
    <3>1. head \in Histories
      BY <2>1 DEF TypeInv, TypeOK, GitTypeOK
    <3>2. Len(head) >= 0
      BY <3>1 DEF Histories
    <3>3. QED
      BY <3>2 DEF Init, GitInit, BasisInv
  <2>5. QED
    BY <2>1, <2>2, <2>3, <2>4 DEF NoRevertInv, RevertInv
<1>2. NoRevertInv /\ [Next]_allVars => NoRevertInv'
  BY NoRevertKept
<1>3. ASSUME NoRevertInv, [Next]_allVars, NEW p \in Procs, Commit(p), odd' = {}, NEW f \in Paths
      PROVE  \/ Tree(head')[f] = Tree(head)[f] \/ Tree(head)[f] \in Known(f)
             \/ Tree(head)[f] = Empty /\ Tree(head')[f] = Absent
  <2>1. odd = {}
    BY <1>3, OddGrows
  <2>2. TipInv /\ PendingInv /\ TypeInv
    BY <1>3, <2>1 DEF NoRevertInv, Undisturbed, CourseInv, RevertInv
  <2>3. head' = Append(head, [tree |-> index, by |-> p]) /\ head \in Histories /\ index \in Trees
    BY <1>3, <2>2 DEF Commit, TipInv, TypeInv, TypeOK, GitTypeOK
  <2>4. Tree(head') = index
    BY <2>3 DEF Tree, Last, Histories
  <2>5. QED
    BY <2>2, <2>4 DEF PendingInv, Replaces
<1>4. ASSUME NoRevertInv, [Next]_allVars
      PROVE  \A p \in Procs : Commit(p) /\ odd' = {} =>
               \A f \in Paths :
                 LET before == Tree(head)[f]
                     after == Tree(head')[f]
                 IN  \/ after = before \/ before \in Known(f)
                     \/ before = Empty /\ after = Absent
  BY <1>3, <1>4
<1>5. QED
  BY <1>1, <1>2, <1>4, PTL DEF Spec, NoSilentRevert
=============================================================================
