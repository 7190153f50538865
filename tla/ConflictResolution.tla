--------------------------- MODULE ConflictResolution ---------------------------
(***************************************************************************)
(* internal/conflict: service.go and actions.go, and `dsm resolve` and     *)
(* `dsm conflicts`, on the artifacts that GitSync leaves, beside the       *)
(* processes of GitSync and the user.                                      *)
(***************************************************************************)
EXTENDS GitSync

CONSTANTS
  Resolvers,  \* processes of dsm resolve
  Nested,     \* files that are not at the top level of the repository
  Linked,     \* files whose mapped target is a link to the repository
  MaxResolves \* bound on the commands

ASSUME ConflictAssumption ==
  Nested \subseteq Paths /\ Linked \subseteq Paths /\ MaxResolves \in Nat

VARIABLES
  home,       \* the targets that are no links to the repository
  step, task, \* where each resolver is, and what it is doing
  resolves    \* commands so far

resolveVars == <<home, step, task, resolves>>
gitVars == <<setupVars, index, head, remote, stash, now, processVars, edits>>
allVars == <<vars, resolveVars>>

Versions == {"local", "remote", "mark"}
NoTask == [choice |-> "mark", files |-> {}, file |-> "", at |-> 0]
Tasks == [choice : Versions, files : SUBSET Paths, file : Paths \cup {""}, at : Times]
Steps == {"idle", "find", "copy", "local", "remote", "base"}

TypeOK ==
  /\ GitTypeOK
  /\ home \in Trees /\ resolves \in 0..MaxResolves
  /\ step \in [Resolvers -> Steps]
  /\ task \in [Resolvers -> Tasks]

Init ==
  /\ GitInit
  /\ home = [f \in Paths |-> Absent]
  /\ step = [r \in Resolvers |-> "idle"] /\ resolves = 0
  /\ task = [r \in Resolvers |-> NoTask]
-----------------------------------------------------------------------------
\* findLatestConflictDir: the seconds that have the remote version of a file.
Dirs(f) == {t \in Times : arts[t][f].remote # Absent}

\* GetConflicts looks into the directories of the seconds, not further down.
GetConflicts == {f \in Paths \ Nested : Dirs(f) # {}}

Moves(r, here, next) == step[r] = here /\ step' = [step EXCEPT ![r] = next]

\* One file named on the command line, or all that are listed.
Resolve(r, choice) ==
  /\ step[r] = "idle"
  /\ GetConflicts # {} /\ resolves < MaxResolves
  /\ resolves' = resolves + 1
  /\ Moves(r, "idle", "find")
  /\ \E files \in {{f} : f \in Paths} \cup {GetConflicts} :
       task' = [task EXCEPT ![r] = [NoTask EXCEPT !.choice = choice, !.files = files]]
  /\ Coincidence("resolvers", \E q \in Resolvers \ {r} : step[q] # "idle")
  /\ UNCHANGED <<gitVars, work, arts, mine, basis, home>>

\* UseLocal, UseRemote, MarkResolved: the latest conflict of the next file.  One
\* that is gone, or has lost its local version, is left alone.
Find(r, f) ==
  LET choice == task[r].choice
      at == Max(Dirs(f))
      there == Dirs(f) # {} /\ (choice = "local" => arts[at][f].local # Absent)
  IN
  /\ step[r] = "find" /\ f \in task[r].files
  /\ IF there
     THEN /\ step' = [step EXCEPT ![r] = IF choice = "mark" THEN "local" ELSE "copy"]
          /\ task' = [task EXCEPT ![r].files = @ \ {f}, ![r].file = f, ![r].at = at]
          /\ mine' = IF choice = "mark" THEN [mine EXCEPT ![f] = Absent] ELSE mine
     ELSE /\ task' = [task EXCEPT ![r].files = @ \ {f}]
          /\ UNCHANGED <<step, mine>>
  /\ UNCHANGED <<gitVars, resolves, work, arts, basis, odd, home>>

Version(r) == arts[task[r].at][task[r].file][task[r].choice]

\* copyFile: to the target of the mapping, or the file of that name in the
\* home directory, as far as it is written.  The user gives up what he had; if
\* he takes the local version, that is what he wants.
CopyFile(r, written) ==
  LET f == task[r].file IN
  /\ Version(r) # Absent
  /\ mine' = [mine EXCEPT ![f] = IF task[r].choice = "local" /\ Version(r) \in Texts
                                 THEN Version(r) ELSE Absent]
  /\ basis' = [basis EXCEPT ![f] = Len(head)]
  /\ IF f \in Linked
     THEN /\ work' = [work EXCEPT ![f] = written]
          /\ UNCHANGED home
     ELSE home' = [home EXCEPT ![f] = written] /\ UNCHANGED work
  /\ odd' = odd \cup (IF f \in Linked /\ Window(f) THEN {"edit"} ELSE {})
                \cup (IF written # Version(r) THEN {"failure"} ELSE {})
  /\ UNCHANGED <<gitVars, resolves, arts, task>>

\* After an error, which leaves the target truncated, comes the next file.
Copy(r) == Moves(r, "copy", "local") /\ CopyFile(r, Version(r))
CopyFails(r) == Moves(r, "copy", "find") /\ CopyFile(r, Empty)

\* removeConflictArtifacts
RemoveArtifact(r, kind, next) ==
  /\ Moves(r, kind, next)
  /\ arts' = [arts EXCEPT ![task[r].at][task[r].file][kind] = Absent]
  /\ UNCHANGED <<gitVars, resolves, work, mine, basis, odd, home, task>>

\* Mutation: the remote version is left.
RemoveArtifactsButRemote(r) ==
  RemoveArtifact(r, "local", "base") \/ RemoveArtifact(r, "base", "find")

RemoveArtifacts(r) ==
  \/ RemoveArtifact(r, "local", "remote")
  \/ RemoveArtifact(r, "remote", "base")
  \/ RemoveArtifact(r, "base", "find")

Resolved(r) ==
  /\ step[r] = "find" /\ task[r].files = {}
  /\ Moves(r, "find", "idle")
  /\ task' = [task EXCEPT ![r] = NoTask]
  /\ UNCHANGED <<vars, home, resolves>>

\* An error with the current file, or the end of the process.
Abandon(r) ==
  /\ \/ step[r] \in {"copy", "local", "remote", "base"} 
        /\ Moves(r, step[r], "find") /\ UNCHANGED task
     \/ step[r] # "idle" /\ Moves(r, step[r], "idle") /\ task' = [task EXCEPT ![r] = NoTask]
  /\ Coincidence("failure", step[r] = "remote")
  /\ UNCHANGED <<gitVars, work, arts, mine, basis, home, resolves>>

Resolver(r) ==
  \/ \E choice \in Versions : Resolve(r, choice)
  \/ \E f \in Paths : Find(r, f)
  \/ Copy(r) \/ CopyFails(r) \/ RemoveArtifacts(r) \/ Resolved(r) \/ Abandon(r)

Next == (GitNext /\ UNCHANGED resolveVars) \/ \E r \in Resolvers : Resolver(r)
Spec == Init /\ [][Next]_allVars
-----------------------------------------------------------------------------
(* Properties.                                                                *)

InHistory(f, c) == \E h \in {head, remote} : \E i \in DOMAIN h : h[i].tree[f] = c
InPlace(f, c) == work[f] = c \/ home[f] = c \/ InHistory(f, c)
InStashes(f, c) == \E t \in Times : stash[t][f].local = c
Carried(f, c) == \E p \in Procs : pc[p] \in StashPcs /\ stash[job[p].at][f].local = c
InArtifacts(f, c) == \E t \in Times : c \in {arts[t][f].local, arts[t][f].remote}
LatestConflict(f) == arts[Max(Dirs(f))][f]

\* What the user wrote last is in the work tree, in a commit, in a stash or
\* among the conflict artifacts, whatever step of the pull, of a sync or of a
\* resolution fails, as long as it was not written while the changes were
\* stashed away or the file was about to be written back, no two stashes were made
\* in one second, no two pulls ran at once and no two processes made a commit upon
\* the same parent (PullWithStash, StageAndCommit).
NoEditLost ==
  odd \cap {"edit", "second", "pulls", "overwrite"} = {} =>
    \A f \in Paths : \/ mine[f] = Absent \/ InPlace(f, mine[f])
                     \/ InStashes(f, mine[f]) \/ InArtifacts(f, mine[f])

\* Unless a pull or a copy fails, two processes change the repository at once or two
\* resolutions run at once, the user also finds it: it is in place, or about to be put
\* back, or it is the local version of the conflict that dsm conflicts lists and dsm
\* resolve would take (applyStash, GetConflicts, UseLocal).
EditAtHand ==
  odd \cap {"edit", "second", "failure", "processes", "resolvers"} = {} =>
    \A f \in Paths \ Nested :
      \/ mine[f] = Absent \/ InPlace(f, mine[f]) \/ Carried(f, mine[f])
      \/ f \in GetConflicts /\ LatestConflict(f).local = mine[f]

\* Once no pull is writing the artifacts of a conflict and no resolution is at work,
\* every conflict that is listed can be resolved either way, unless a pull or a
\* resolution has failed half way: however the three writes of the one and the three
\* removals of the other come between each other, no listed conflict is without its
\* local version (persistConflictArtifacts, removeConflictArtifacts).
ListedIsWhole ==
  (/\ "failure" \notin odd
   /\ \A p \in Procs : pc[p] \notin ArtifactPcs
   /\ \A r \in Resolvers : step[r] = "idle") =>
    \A f \in GetConflicts : LatestConflict(f).local # Absent

\* What a file was on the branch when the user last wrote it, and what this machine
\* has committed of it since.
Was(f, i) == IF i = 0 THEN Absent ELSE head[i].tree[f]
Known(f) ==
  {Was(f, i) : i \in {basis[f]} \cup {j \in basis[f] + 1 .. Len(head) : head[j].by # Other}}

\* A commit takes back nothing that came from another machine after the user's
\* edit: what it replaces stood in the file when he wrote his version, or this
\* machine has put it there since; only a removal may take an empty file away
\* (PullWithStash with StageAndCommit, without a coincidence).
NoSilentRevert ==
  [][\A p \in Procs : Commit(p) /\ odd' = {} =>
       \A f \in Paths :
         LET before == Tree(head)[f]
             after == Tree(head')[f]
         IN  \/ after = before \/ before \in Known(f)
             \/ before = Empty /\ after = Absent]_allVars
-----------------------------------------------------------------------------
(* What the comments and the help say and the program does not do.            *)

\* dsm resolve: "applies the chosen version".  If that is a removal, the text
\* of the tombstone is written into the file.
NoTombstoneInPlace == \A f \in Paths : {work[f], home[f]} \cap {LocalGone, RemoteGone} = {}

\* GetConflicts "returns all active conflicts".  It does not look below the top
\* level of the repository, where most of the files of ~/.config are.
AllConflictsListed == \A f \in Paths : Dirs(f) # {} => f \in GetConflicts

\* PullWithStash "reapplies the stash content. This ensures the PRD requirement
\* of preserving user edits": not when the pull fails.
EditAlwaysAtHand ==
  odd \cap {"edit", "second"} = {} =>
    \A f \in Paths \ Nested :
      \/ mine[f] = Absent \/ InPlace(f, mine[f]) \/ Carried(f, mine[f])
      \/ f \in GetConflicts /\ LatestConflict(f).local = mine[f]

\* The stash "captures any dirty worktree state": not what the user writes while
\* it is made.
EditWhilePullingKept ==
  "second" \notin odd =>
    \A f \in Paths : \/ mine[f] = Absent \/ InPlace(f, mine[f])
                     \/ InStashes(f, mine[f]) \/ InArtifacts(f, mine[f])

\* resolve --all: "Mark all conflicts as resolved".  The conflict of an earlier
\* pull over the same file comes up again.
MarkedIsGone ==
  [][\A r \in Resolvers : Resolved(r) /\ task[r].choice = "mark" /\ odd = {} =>
       GetConflicts \cap {f \in Paths : task[r].file = f} = {}]_allVars
=============================================================================
