-------------------------------- MODULE LockFile --------------------------------
(***************************************************************************)
(* One lock file and the kernel's locks on it, as github.com/gofrs/flock   *)
(* and os.Remove leave them: a lock belongs to the file a process has      *)
(* opened (its inode), which need no longer be the one its name leads to.  *)
(***************************************************************************)
CONSTANTS
  Procs,    \* processes
  Inodes,   \* identities of files
  NoFile    \* no file, not in Inodes

VARIABLES
  path,     \* the file the name leads to, or NoFile
  fd,       \* the file each process has open, or NoFile
  holders   \* the processes that have the lock on the file they opened

LockFileTypeOK ==
  /\ path \in Inodes \cup {NoFile}
  /\ fd \in [Procs -> Inodes \cup {NoFile}]
  /\ holders \subseteq Procs

LockFileInit ==
  /\ path = NoFile
  /\ fd = [p \in Procs |-> NoFile]
  /\ holders = {}

\* OpenFile with O_CREATE.
Open(p) ==
  /\ \/ path # NoFile /\ UNCHANGED path
     \/ path = NoFile /\ path' \in {i \in Inodes : \A q \in Procs : fd[q] # i}
  /\ fd' = [fd EXCEPT ![p] = path']
  /\ UNCHANGED holders

Blocked(p) == \E q \in holders \ {p} : fd[q] = fd[p]

\* flock(LOCK_EX | LOCK_NB)
TryLock(p) ==
  /\ ~Blocked(p)
  /\ holders' = holders \cup {p}
  /\ UNCHANGED <<path, fd>>

\* A try without success closes the file, so does Unlock, and so does the end
\* of the process.
Close(p) ==
  /\ fd' = [fd EXCEPT ![p] = NoFile]
  /\ holders' = holders \ {p}
  /\ UNCHANGED path

InUse(p) == path # NoFile /\ \E q \in Procs \ {p} : fd[q] = path

Remove ==
  /\ path' = NoFile
  /\ UNCHANGED <<fd, holders>>
=============================================================================
