# dot-sync-manager: specification and proofs

`dsm` keeps a directory of dotfiles in a git repository and synchronises it in
the background. A daemon watches the repository, delays ("debounces") the
changes it sees, commits and pushes them, pulls with the user's edits stashed
away and back, and answers status queries over a Unix socket. Commands start
and stop the daemon, add, remove and link files, and resolve conflicts.

This directory holds TLA+ modules of the parts of the program whose
correctness depends on the order of events, the TLC configurations that check
small instances, and TLAPS proofs of the properties that hold for every
instance. Paths below are relative to the repository's root.

## 1. The system

| Part | Source | State it keeps | Operations |
|------|--------|----------------|------------|
| Advanced debouncer | `internal/debouncer/advanced_debouncer.go` | timers and callbacks by key, activity history, backoff count and delay, manual sync queue, `done`, `stopped`, `started`, `stopOnce`, context | Add, AddWithContext, AddImmediate, TriggerManualSync, Cancel, CancelAll, Stop, Start |
| Basic debouncer | `internal/debouncer/debouncer.go` | timers and callbacks by key | Add, Cancel, CancelAll |
| Sync service | `internal/sync/service.go` | lifecycle state, watcher, context, `shutdownOnce`, last shutdown error, pause flag | New, Start, Stop, event loop, performSync, ManualSync, Pause, Resume, ReloadIgnorePatterns |
| Status server | `internal/status/status.go` | running flag, socket, status record with counters | Start, Stop, SetState, SetError, UpdateSync, accept loop |
| Daemon lock | `internal/process/daemon.go`, `command_lock.go`, `internal/util/filelock.go` | PID file, lock file, kernel locks | WritePIDExclusive, Unlock, stale clean-up, GetDaemonPID, command lock |
| Daemon commands | `cmd/start.go`, `stop.go`, `restart.go` | none of their own | start, foreground daemon, graceful shutdown, stop, restart |
| Git synchronisation | `internal/gitmanager/` | work tree, index, local and remote branch, stash and conflict directories | StageCommitAndPush, Pull, PullWithStash, createStash, applyStash |
| Conflict resolution | `internal/conflict/`, `cmd/resolve.go` | conflict directories, known set of the detector | GetConflicts, UseLocal, UseRemote, MarkResolved, detector loop |
| Dotfile commands | `cmd/add.go`, `remove.go`, `link.go`, `unlink.go`, `internal/symlink/` | files, links, backups, mappings of the configuration | add and remove transactions with roll-back, link, unlink, backups |
| Sync command | `cmd/sync.go` | the same repository as the daemon | commit and push in the foreground |
| Configuration | `internal/config/sync_config.go` | configuration file | load, validate, save |
| Ignore patterns | `internal/ignore/parser.go` | list of patterns | load, clear, match |
| Paths, other commands, GUI | `internal/util/path.go`, `cmd/`, `gui/` | none | formatting, prompts, read-only views |

How they interact:

- The event loop of the sync service turns each file event into
  `debouncer.Add("sync", performSync)`; `ManualSync` goes through the queue of
  the advanced debouncer when there is one. The default configuration has one
  (`internal/config/sync_config.go:422`).
- `performSync` calls the git manager and writes the result into the status
  manager. It runs in a timer's goroutine, under the mutex of the debouncer.
- `Stop` of the service cancels its context, stops the status manager, cancels
  the debouncer, stops it, closes the watcher and waits for the event loop, at
  most as long as its caller's context allows.
- The daemon holds the PID file lock for its lifetime. On a signal it stops the
  service and removes the PID file concurrently (`cmd/start.go:285`). `start`,
  `stop`, `restart` and `status` know the daemon by that file only.
- Commands that change the work tree (`sync`, `add`, `remove`, `resolve`) do so
  beside a running daemon; nothing but git's own files separates them.

What is hard to test, part by part, is the list `hazards` of `PROJECT.json`,
each at the line where it bites.

What makes each part correct:

- Debouncer: a change is acted upon once things are quiet, never lost, never
  delayed beyond the cap; a cancelled callback does not run; Stop loses no
  accepted manual sync, terminates, and leaves nothing running.
- Sync service: one lifecycle at a time; after Stop no goroutine of the service
  works on the repository; a Start that rolls back leaves nothing behind.
- Status server: the socket belongs to a running daemon; Stop terminates.
- Daemon lock: at most one daemon; a dead daemon's files do not keep a new one out.
- Git synchronisation: no edit of the user is lost, whatever step fails;
  committed work reaches the remote.
- Conflict resolution: a conflict is reported until it is resolved, whole, and a
  resolution puts the chosen content in place.
- Dotfile commands: a failed command leaves file, link and configuration as
  they were, unless the save of the configuration itself fails half way.
- Ignore patterns, configuration: the result is that of the documented rules.

## 2. Modules

| Module | Models | Depends on |
|--------|--------|------------|
| `Backoff` | the delay calculation of the advanced debouncer: activity window, churn, exponential delay | |
| `BackoffProofs` | theorems about `Backoff` | `Backoff` |
| `AdvancedDebouncer` | the advanced debouncer: timers, manual sync queue, worker, Stop, Start | `Backoff` |
| `AdvancedDebouncerProofs` | theorems about `AdvancedDebouncer` | `AdvancedDebouncer`, `BackoffProofs` |
| `DebouncerContract` | what the sync service may expect of a debouncer | |
| `DebouncerRefinement` | the mapping of `AdvancedDebouncer` to the contract | `AdvancedDebouncer`, `DebouncerContract` |
| `DebouncerRefinementProofs` | that it implements the contract | `DebouncerRefinement`, `AdvancedDebouncerProofs` |
| `MCAdvancedDebouncer` | symmetry for TLC | `DebouncerRefinement` |
| `BasicDebouncer` | the debouncer used when no backoff is configured | `DebouncerContract` |
| `BasicDebouncerProofs` | theorems about `BasicDebouncer`, its contract among them | `BasicDebouncer` |
| `StatusManager` | the status server: Start, Stop, accept loop, reported state | |
| `SyncService` | Start, Stop, event loop and syncs of the service | `DebouncerContract`, `StatusManager` |
| `SyncServiceProofs` | theorems about `SyncService` and `StatusManager` | `SyncService` |
| `LockFile` | one lock file: names, open files, kernel locks | |
| `DaemonLock` | the daemon's PID file and lock, and start, stop, restart and status around them | `LockFile`, twice |
| `DaemonLockProofs` | theorems about `DaemonLock` and `LockFile` | `DaemonLock` |
| `MCDaemonLock` | which program may run under which process id; symmetry, a view | `DaemonLock` |
| `GitSync` | bootstrap, commit and push, pull with stash, of the daemon and of `dsm sync` | |
| `ConflictResolution` | listing and resolving conflicts, beside `GitSync` | `GitSync` |
| `ConflictProofs` | theorems about `GitSync` and `ConflictResolution` | `ConflictResolution` |
| `ConfigFile` | the configuration file: load, validate, save, mappings | |
| `DotfileTransaction` | add, remove, link, unlink and config set, step by step | `ConfigFile` |
| `MCConflictResolution` | a view for the run of conflict resolution | `ConflictResolution` |
| `MCDotfileTransaction` | the paths and texts of its instance; symmetry, a view | `DotfileTransaction` |
| `DotfileProofs` | theorems about `ConfigFile` and `DotfileTransaction` | `DotfileTransaction` |

### Backoff

Time and durations are integers in one unit. `recordActivity` appends the
current time and trims the history from the front (`Trimmed`); `calculateDelay`
reads what `recordActivity` has just written, as the code does, hence the primes
in `Decayed` and `ChurnDetected`. `float64(base) * math.Pow(mult, n)` is
`Growth`, a fraction: the code takes any multiplier above 1, and every float64 is
the quotient `MultiplierTop` / `MultiplierBottom` of two natural numbers. The
product is exact here, where the code rounds it to the 53 bits of a float64.
`Exponential(n)` drops what follows the point, and its conversion to
`time.Duration` is `ToDuration`, which for a value out of range gives what the
architectures give (the smallest duration on amd64, the largest on arm64).
`MaxDuration` is the largest duration, 2^63 - 1 in the code; the run makes it
small, so that TLC reaches the overflow, which `DelayInRange` and
`ChurnNeverShortensDelay` except: the delay may be negative then (`DelayAtLeastBase`, section 5).
`MaxTime` and `MaxBackoff` bound the clock and the consecutive backoff steps.

### AdvancedDebouncer

One `Timers` element is one `time.AfterFunc`; `tstate` follows it from `armed`
through `fired` (its goroutine exists, `timer.Stop` no longer reaches it),
`waiting` (it has looked at the contexts and waits for `d.mu`) and `entered` (it
has `d.mu` and has looked again) to its end. `timers` and `callback` are the maps
of the same name. `mu` names the timer whose goroutine holds `d.mu` from that
second look until its callback is over: that is the only critical section with
something slow in it, so every other one is a single step that needs `mu` free.
`d.ctx` is `ctxDone`; cancelling it takes no lock, so that it may come between the
second look and the call. `opCancelled` are the contexts given to AddWithContext
that are cancelled; `OwnContext` are the timers that were given one.

A `Requests` element is one call of TriggerManualSync (with a context or not) or
of AddImmediate. `rstate` is what happens to the work (queued, taken by the
goroutine `rexec`, running, answered), `caller` what its caller was told: the
two part ways when the caller times out.

Start replaces the fields `done` and `manualSyncQueue`. `gen` says which pair of
channels the fields hold; `queue`, `doneClosed` and `queueClosed` are per pair,
because a worker keeps the pair it read at the top of its loop (`wgen`).

Stop is one action per step of the function passed to `stopOnce.Do`; `once` is
the Once with its mutex, which a Start may replace while it is held. Start is
three steps, under `startMu`. `Overlap = FALSE` keeps Start and Stop apart, as
the callers of the program do; `Overlap = TRUE` allows what the comment of the
type promises.

A panic or a runtime throw that ends the process is recorded in `fatal` and
stops every action (`Running`).

### DebouncerContract, and how the debouncers meet it

The contract knows calls (functions to be called later) and requests (functions
to be called at once), and says three things: calls run one at a time, under a
lock that adding, withdrawing and serving need as well, and none takes that lock
to run once the context is cancelled; a request is refused, queued or left to a goroutine of its
own; a shutdown ends only when every queued request is answered. Timers, keys,
maps, channels, worker and Once are gone. `abstractCall` and `abstractRequest` of
`DebouncerRefinement` map the debouncer's timers and requests to it; the life of
the contract is read from `stopped` and `once`. `BasicDebouncer` meets the same
contract with no requests and a context that is never cancelled.

A withdrawn call is not promised to be the one that was asked for, nor is every
pending call promised to be withdrawn: the basic debouncer cannot stop a timer
that has fired, and both clean up by key. What the service is proved or checked
to do, it does with a debouncer as weak as that.

### BasicDebouncer

The same timers, with one difference that matters: the goroutine of a fired
timer does not ask whether it was replaced. `Forget` removes the entries of a
key, whoever they belong to now; `TwoArmedNeedARun` says what that can lead to.

### StatusManager

`Clients` are calls of Start and Stop; `smPc` is where a call has come. The
states of `accept` are the points of the accept loop between which another
goroutine can act: the context was looked at, `sm.socket` is about to be used,
Accept is waiting. `sm.socket` has no lock; using it after Stop has set it to
nil is recorded in `smPanic`. `SlowAccept` lets Stop's two seconds pass before
the goroutine has gone; the runs take it that the deadline of one second, which
the loop sets before each Accept, is kept.

### SyncService

The service is specified over the two modules before it: their variables are
its variables, and its actions are conjunctions of a step of the service and a
step of the debouncer's contract. A call of the status manager is made by
setting `smPc` and waiting until it says `ok` or `failed`, so that its steps
interleave with everything else.

`pc` is where each Start or Stop has come. The shutdown of the debouncer, which
the roll-back of Start and Stop share, is written once (`StopTheDebouncer`).
`loop` is the event loop that a Start launches; `shutdownWG` counts the loops
that are launched and have not returned, and needs no variable of its own
(`LoopsExited`).
`advanced` is chosen by `Init`: New makes either debouncer, after its
configuration. `syncPc` follows a sync, whatever goroutine runs it: the state
reported, the context asked, the repository being worked on, the result
reported, the callbacks. `StageAndCommit` asks the context before anything
else; whether the work then succeeds, fails or is cancelled is left open. The
event loop decides first whether an event counts (`LoopEvent`), then is in
`debouncer.Add` until `d.mu` is free (`LoopAdd`).

A Start that fails ends in one of two places: `undone`, after a roll-back, or
`halfway`, when the status server did not start and the code returns the error
without one (`internal/sync/service.go:341`).

`Overlap = FALSE` lets a Start have the service for itself, as the daemon does
(it starts the service, then waits for a signal, then stops it). `Impatient` are
the Stops whose context may expire. `CallbackStop` is a Stop made by `onError`
in the event loop.

### LockFile and DaemonLock

A lock belongs to the file a process has opened, its inode, and a name may lead
to another inode by then: `LockFile` is just that, for `gofrs/flock` and
`os.Remove`. `DaemonLock` uses it twice, for the lock of the daemon
(`lockPath`, `lockFd`, `lockHolders`) and for the one around the start command
(`cmdPath`, ...).

`Procs` are process ids. `pc` is where the program under an id is, and `May` which
programs may run under it, so that ids are used again by other programs of the
name. The three ways to ask for the daemon (`IsDaemonRunningPIDOnly`,
`IsDaemonRunning`, `GetDaemonPID`) are one procedure, `Query`, with its clean-up
of stale files; `ret` is what the caller wants to know and decides what follows
(`Answer`). `os.WriteFile` of the PID is two steps, and a file that was created
and not yet written is `Garbled`; `writers` are the processes whose open file is
still the one at the path. A daemon's service is stopped beside the removal of
its files (`cmd/start.go:285`): `svc` and `pc` go on independently.

Every removal goes by name. `raced` records that a file was removed that another
process had open or stood for: what `Singleton` promises, it promises up to that
point, and the removals that do it are those of stale files, of `restart`, and of
`Unlock` itself.

### GitSync and ConflictResolution

A history is the sequence of its commits, a commit the tree and its author. The
processes share work tree, index and branch with the user (`Edit`), and the
remote with other machines (`RemoteCommit`). Where go-git reads, and later writes
what it made of that (index, branch), the two are separate steps; `Stop` is an
error, or the end of the process, at any point. What go-git does to untracked
files in a reset is left open (`ResetTo`).

`StashFile` and `Decide` treat one file each, in any order, as the code ranges
over maps. Applying the stash to a file is the read of the file with the decision
upon it (`Decide`, `Fate`), then the write or removal (`Replace`) or the three writes of a
conflict, one after the other (`CopyRemote`, `CopyBase`, `CopyLocal`); the user and the other
processes may come between any two of them, and any write may fail and leave its
file truncated (`ApplyFails`). `Empty` is a
content of its own because the code takes an empty base for a missing one. A
stash is known by the second of its name, so that two of one second share a
directory, and so do the artifacts of their conflicts.

`mine` is what the user wrote last to each file and has not given up since;
choosing a version in `dsm resolve` is giving up the other. `odd` names what has
happened that the program does nothing about: an edit while the changes are
stashed away or between the read of a file and its write (`edit`), two processes at
work at once (`processes`), two pulls at once (`pulls`), two `dsm resolve` at once
(`resolvers`), two commits
upon one parent, of which the later takes back the earlier (`overwrite`), two
stashes or a stash and a conflict of one second (`second`), a failure with the changes
stashed away or a version half copied or half removed (`failure`). A property
says which of these it excuses, and is false without the excuse.

`NoSilentRevert` compares contents, as the code does: what a commit replaces is what
the file was on the branch when the user last wrote it (`basis`), or what this machine has
committed since. A change that another machine has made and taken back in the
meantime is not seen by `applyStash`, whose base copy is equal to the file again,
and the property is silent about it; nor is an empty file that another machine has
put there safe from a removal.

### ConfigFile and DotfileTransaction

The configuration holds the mappings and the two settings whose limits depend on
each other. A command loads its copy at its start and writes all of it back;
between truncation and data the file is `Torn`. A save that fails or is killed then
leaves it `Cut`; the second of two saves that overlap writes over what the first has
written, and leaves its own configuration, if that is not the shorter one, or a
`Mixed` file. `config set` saves under a lock, the other commands without.

A command is a record (`job`) and a place (`pc`); every step has an action that
succeeds and one that fails, and the fail action goes where the code goes. A
failure is either that of a condition the step depends on, which is free, or
one out of the blue, of which there are `MaxFaults`, kills included. A write
through a link goes to the file it names (`WriteAt`), a failed copy may leave
its target truncated. `NameOf` maps two home files to one name and `Decoded` two
backups to one path, because the code's naming does.

`kept` are the texts the user has not given up (`--delete-all` and `--no-backup`
give up), `was` is the text that a command found, `odd` again what excuses a loss.

## 3. Runs

All deadlock checks are off where the system may come to rest (nobody has to
call anything); the clock of `Backoff` may stop too, but its callbacks may go on.

| Run | Instance | Shows |
|-----|----------|-------|
| `Backoff` | multiplier 3/2, window 2, cap 3, 6 ticks, 4 backoff steps, of which the last overflows | the history is window and cap; until it overflows the delay is between those of the configuration, and churn never shortens it |
| `DebouncerTimers` | 3 timers with contexts of their own, 2 keys, 1 Stop | maps describe live timers; the contract, as far as timers go: callbacks one at a time, none entered after the cancellation |
| `DebouncerManual` | 2 requests, queue of 1, 2 Starts, 2 Stops, 1 restart | no panic, no lost or doubled request, nothing alive after Stop; the contract, as far as requests go |
| `DebouncerLive` | 2 timers of one key, 1 request, 1 Start, 1 Stop; fairness | Stop returns, the queued request is answered, an armed timer reaches an end |
| `BasicTimers` | 3 timers, 2 keys; fairness | the contract; two timers of a key are armed only after a clean-up by key; an armed timer reaches an end |
| `SyncService` | 2 Starts, 2 Stops of which 1 impatient, 1 manual sync | what a failed Start leaves, rolled back or not; a Stop leaves nothing that works; the accept loop never meets a nil socket |
| `SyncLive` | 1 Start, 1 Stop, 1 delayed call, 1 manual sync; fairness | Stop returns; no late sync works on the repository; the reported state settles |
| `DaemonLock` | 2 ids for daemons and their starts, 1 for the other commands, 1 kill | the lock keeps daemons apart and the PID file names the one at work, until a file in use is removed; who ends by himself leaves no lock file, and no PID file but one he could not write |
| `GitSync` | daemon (pulls and syncs) and `dsm sync`, 1 file, 1 edit, histories of 2 | no edit is lost whatever fails; no commit takes back another machine's work |
| `Resolve` | 1 puller, 1 resolver, 1 file, 2 seconds, 2 edits, 1 command | the user finds his edit; every listed conflict is whole once nobody is writing or removing it |
| `Dotfiles` | 2 commands at a time and in all, 2 home files with one name, 2 names, 1 fault or kill, 1 edit | nothing is lost; what can be in the configuration file; add is all or nothing; config set keeps the other keys |
| `DotfilesRemove` (violated) | 1 command, no fault | `dsm remove` empties the file it is to preserve |

The runs of `SyncService` divide the work because their product is too large:
the one with every way to start and stop has no delayed call, the one with a
delayed call has one Start and one Stop. A delayed call matters to Stop by
holding the lock while it runs and by coming late, and one call does both; a
second Start matters by being refused and by meeting what the first one left.

Why the bounds are enough. Three timers over two keys give a timer that is
replaced after it fired, its successor, and a timer of another key holding
`d.mu`; a fourth would repeat one of these roles. For liveness two timers of one
key are enough: each replaces the other, holds `d.mu` against it and removes its
entries. They have no contexts of their own: a context cancelled beside them
leads to the same drop that Stop's does. A queue of one makes full and
empty both reachable with two requests, so that one is queued and the other is
handled on its own or by the worker while Stop drains. Two Stops give the one
that runs the shutdown and the one that waits for it or comes after a restart;
`MaxRestarts` = 1 gives a second pair of channels. The settings of the backoff
are kept out of the debouncer's runs (`MaxTime` = 0, `ChurnThreshold` = 9): the
delay decides when a timer fires, and in these runs any timer may fire at any
time.

`DaemonLock` needs two daemons, the one in place and the one that finds its files; an id
that is used again gives the third, and the two starts that meet at the command lock. The
third process is any of the other commands, again and again. `GitSync` has one path: files
are treated one by one and never looked at together, other than by being in one tree. A
history of two has what a branch and the remote have in common and what each has added, one
edit is enough to be lost and two to conflict twice with one another's artifacts. Histories
of two are enough for that, not for `NoSilentRevert`, whose hard cases are those where
another machine changes the file and changes it back before this one commits: its proof
covers histories of every length (section 4). `MaxTime` = 0 puts all stashes of `GitSync`
into one second, which `NoEditLost` excuses once the second stash is put upon the first, and
`Resolve` has two seconds. In `Dotfiles` both home files want one name, so that each command
meets the other's file, mapping, backup and link; one fault reaches every failure of a
command and, with the failures that come of the other command or the user, a failing
roll-back.

Three runs use a VIEW, which makes TLC take two states for one when no property of
the run can tell them apart, now or later: once an excuse of `odd` or `raced`
has come to pass, what only the excused property reads is left out, and so are
the stashes that nothing will read again; in `DaemonLock`, where such a state says
nothing more after a kill either, it is not followed any further. The modules
`MC...` define the views.

Fairness (`FairSpec` of `AdvancedDebouncer`) is weak and per goroutine: the Go scheduler
runs what can run, timers expire, callbacks and manual syncs return (the service cancels the
context of the git operations before it stops the debouncer,
`internal/sync/service.go:441`), a mutex that is free is given to someone who waits for it.
No call from outside is assumed to happen. That of `SyncService` is of the same kind: syncs,
event loop, accept loop and calls under way run on, no timer has to fire and no call has to
be made. Weak fairness is enough there because calls and requests are finitely many, so that
the lock is free from some point on; the context of a git operation that hangs is cancelled
before Stop waits for it. The other modules state safety only (the `FairSpec` of
`DaemonLock` is for the claim `RestartStarts` of section 5): a git operation or a command
may be killed anywhere, and none of them promises more than to end.

## 4. Proofs

`BackoffProofs`: `BackoffTypeCorrect`; `HistoryCorrect`, from the invariant that
the history is ordered and that its times lie in the window of the last one;
`DelayInRangeCorrect`. The lemma `TrimmedIsSuffix` says that the trimmed history
is a suffix of the untrimmed one, `TrimmedIsRecent` that ordered times make
trimming from the front enough. `DelayInRangeCorrect` and
`ChurnNeverShortensDelayCorrect` are from `DelayInv`:
the delay in force is the base delay or what the count of the backoff says. That
the exponential grows with the count is an induction. The induction theorems of the library
cannot be cited, for they take an operator, but that the order of the natural
numbers is well-founded can; so every non-empty set of them has a least member (`LeastNatural`),
and a set that has 0 and the successor of each of its members has them all (`Induction`). The
same argument shows that `Growth`, a recursive function, is one: it is glued of the functions
that obey its rule up to each number (`GrowthUnfolds`).

`AdvancedDebouncerProofs`: `TypeCorrect`, by groups of variables, one lemma per group of
actions. `PendingCorrect`: `PendingIsLive` is inductive together with `TypeOK`; the conjunct
that relates an entry to the key its timer was added under is what keeps the removal of one
key from touching the timer of another. Neither assumes anything of `Overlap`.
`NoFatalCorrect`, `QueuedOnceCorrect` and `ShutdownCorrect` assume `~Overlap`: with
overlapping calls the first is false. They come from one inductive invariant, `ShutdownInv`,
whose parts say that the Stop under way holds the Once and where it is, given the Once and
the flag (`StopInv`), that a Start under way keeps every Stop out and launches its worker
last, and that no worker is alive once the Once is done (`StartInv`), which queues are
closed and that only the one the field holds may have content (`ChannelInv`), and that the
queued requests are those in that queue, each once, and a request being handled is so by a
worker or a Stop that is at that point (`RequestInv`). Each is needed: that Stop finds its
queue open needs the order of its own steps, that no caller sends on a closed channel needs
the check and the send to be one critical section, and that nothing is lost needs the drain
to come after the last send.

`DebouncerRefinementProofs`: `ImplementsContractCorrect`, that the advanced
debouncer implements the contract, assuming `~Overlap`. It rests on `ShutdownInv`
and on `MutexInv` (a timer is `entered` or `running` exactly when it holds `d.mu`), with one
lemma per group of actions that names the step of the contract it is, or that
it is a stutter.

`BasicDebouncerProofs`: `TypeCorrect`; `TwoArmedCorrect`, from `EntryInv` and
`KeyInv` (an armed timer of a key of which no callback has run is the one the
maps name); `ImplementsContractCorrect`, that the basic debouncer implements the
contract, without assumption.

So what `SyncService` is checked against is not an assumption about its
debouncers, but what both are proved to do.

`DotfileProofs`: `ConfigSoundCorrect`, that the file on disk is a configuration that
is valid and maps no target twice, or else that a save is at work upon it, was cut short
or overlapped with another. It is not enough that saving validates: a command saves
what it loaded long ago, so the invariant (`ConfigInv`) is about what each
command holds in memory at each place. It loaded a sound configuration, adding
a mapping looks for the target first (`WithMappingHeld`), the other changes
cannot add one (`WithoutMappingHeld`, `WithSettingHeld`), and validity is known
again from the truncation on. The actions are treated in groups, by what they do to
the memory of their command (`PlainSteps` leave it alone, `NotingSteps`,
`MappingSteps`, `ReloadStep`, `SavingSteps`, `BeginsSteps`).

`TypeCorrect` is from `TypeInv`, which adds what a job refers to at each place (`Refers`:
an index of a backup that exists, a name wherever a step uses one) and who has the
lock (`LockInv`). `SetKeepsOthersCorrect` needs one more conjunct, `KeyInv`:
between its reload and its truncation a `config set` holds what is in the file
with its key changed, or is marked stale; another `config set` cannot save in between,
because it would have to hold the same lock, and every other command that saves
leaves the mark.

`NothingLostCorrect` and `AddAllOrNothingCorrect` are from `LossInv`: as long as none of the four
coincidences has come to pass, `SafeInv`. That every kept text is somewhere is not inductive:
a step that removes a file must know of another copy. So `Place` says, for each place of
each command, what the home file, the repository file and the backup of the command hold
(`AddPlace`, `LinkPlace`): an `add` that is about to remove the home file has its text
both in the repository and in the backup; one that is about to remove its copy from
the repository has given the text back or has kept the backup. And `Apart` says that two commands
work upon different files, names and backups, so that neither disturbs what the other
relies on (`OthersInPlace`). An action is then one of four changes, to nothing
(`SafeStill`), to the command's home file (`SafeHome`), to its repository file
(`SafeRepo`) or to its backup (`SafeBackup`), and the step need only show that the
text it overwrites is elsewhere and that the next place finds what it expects. That a command
is killed at any place is one case among these (`SafeMappingSteps`), for
nothing of `SafeInv` is said of a command that has ended. TLC has checked
`LossInv` and `KeyInv` as invariants on the instance of `Dotfiles`.

`DaemonLockProofs`: `TypeCorrect`, `SingletonCorrect`, `EndsCleanCorrect`, from one
inductive invariant, `DaemonInv`. Its part `LockInv` says that who holds a lock has the
file open and that a file is held by one process; that alone does not keep two daemons apart,
for they may hold two files of one name. So it goes on to say that until something
has raced, the name leads to the file of everyone who has it open. `PidInv` ties the PID
file to the process that writes it or has written it; `CleanInv` says that, as long
as nobody was killed, each lock file, and each PID file that was written, has someone who will
remove it, and where he is. Nothing is assumed of the number of processes, of kills or of the
reuse of ids.

`SyncServiceProofs`: `TypeCorrect` and `StatusSettlesCorrect` without any hypothesis;
`NoNilSocketCorrect`, `ServerIsDownCorrect`, `StoppedIsQuietCorrect` and
`FailedStartLeavesCorrect` without overlap of Start and Stop and without `SlowAccept`, the
accept loop that misses its deadline of a second; both hypotheses are those of the runs. The
life of the service is `LifeInv`: whose turn it is (`TurnInv`), who has the watcher
(`WatchInv`) and at which of its steps the one shutdown is (`OnceInv`). That of the status
server is `ServerInv`: where the calls are, what serves, what is released. `BegunInv`
follows a Start that fails: before the first event loop is launched the status server may
stay down and the watch up (`HalfwayInv`); once one has come that far no later Start finds a
watch to go on with (`LaunchInv`). `QuietInv` adds what is true from which place of a Stop
on: no call works on the repository any more (`CancelledInv`, which needs `WorkInv`: a call
that works holds the lock that CancelAll takes), the debouncer is closed, the loops have
returned. `StoppedIsQuiet` needs all three, for each says of one of the parts that it is
gone.

`ConflictProofs`: `TypeCorrect`, which needs to know besides that a resolver that copies
has a file and one of its versions (`TaskInv`). `RestInv` says what every process keeps to:
what a pull is about to apply or is writing it has stashed, so that its failure
counts as one, and a conflict it writes has both versions in memory.
`ListedIsWholeCorrect` is from `WholeInv`: a remote version without a local one is one that
a resolver is about to remove, or one whose local version a pull is about to write
(`Persisting`). A resolver that takes the conflict away between those two writes
leaves a local version alone, which is not listed.

`NoEditLostCorrect` assumes nothing of the processes: any number pull, commit and resolve.
Two pulls at once are an excuse (`pulls`), for the second copies a work tree
that the first has reset, and then resets what the first has put back; while it has not
come to pass one process pulls (`OnePull`). Only the daemon is to pull, and
`SingletonCorrect` says how far the lock keeps daemons apart.
`CalmInv` is the invariant while no excuse has come to pass:

- in every phase of a pull it says where the user's version is beside the
  work tree: in a commit or a stash for what is treated already while the stash is
  made (`StashInv`), for everything before the reset and during the pull
  (`PullInv`), and somewhere other than in this stash for what is already applied,
  the file being written excepted (`ApplyInv`), so that the stash can go;
- the stash directory holds what this pull has put there and no conflict (`Own`, `Fresh`),
  which is what two stashes of one second break;
- the base in a stash comes from a commit (`BaseInv`): what is overwritten because it
  is equal to the base is not lost;
- a local version among the artifacts is also in the stash (`ArtsInv`), so that neither
  its removal nor a copy that fails loses it;
- between the read of a file and its write, what will be overwritten is elsewhere and what
  will be written is from the stash (`WriteInv`): that is what an edit in between breaks.

That both branches only go on (`BranchesGoOn`) needs that no commit is made upon a
parent that is not the tip any more, and that there is nothing to lose before there
is a repository (`BareInv`). Without the excuse `overwrite` the property is false with a
daemon and two `dsm sync`, two files and a pull over an untracked file: an edit is in a
commit, the commit is taken back by another upon the same parent, a stale index
leaves the file untracked, and the pull writes over it. That is beyond the
instance of `GitSync`, which has two processes and one file; the proof that did
not go through showed it.

`EditAtHandCorrect` assumes nothing either: that two processes are at work at once, or two
`dsm resolve`, is among its excuses (`processes`, `resolvers`), and nothing in the code
prevents them. Its invariant has two halves. `CourseInv` is about the processes: one is at
work and commits upon the tip of the branch (`AloneInv`, `TipInv`), no conflict is later
than the clock or than the stash in use (`ClockInv`), the stash directory has no artifacts
of the files still to apply (`UntouchedInv`), before the reset and during the pull each
version of the user in the work tree is in a commit or in the stash (`PutAwayInv`, which
also keeps the work tree clean for the pull), and what a pull writes is what it has decided
upon, in a file that is still what it read (`WritesInv`). `HandInv` is about the user: his
version is committed or in its target (`Placed`), in the work tree, in the stash of a pull
that will put it back or is writing it, and finds the file clean (`Returned`), or the local
version of the latest conflict (`Listed`), which no process will cover with a newer conflict
and no resolver is removing. That needs `HeldInv`: the conflict a resolver works on is still
there, so that a pull cannot make its own in the same directory. With two resolvers that is
false, and so is the property: one removes the artifacts of a conflict, a pull makes the
next one in the same second, and the other resolver, which is at the same conflict, takes
the new artifacts away.

`NoSilentRevertCorrect` has no assumption. To `CourseInv` it adds `RevertInv`: whatever
differs from the tip of the branch, in the work tree, in the index or in an
index about to be written, may replace what the tip has (`PendingInv`), and the base
that a pull compares with is the tip it has stashed upon, hence known (`BasedInv`), also
when the pull has moved the tip since. The invariant was what
showed that an earlier form of the property, which forbade every
commit of another machine in between, held only for histories of two.

The assumptions are those of the constants (`BackoffAssumption`,
`DebouncerAssumption`, those of `BasicDebouncer`, `DaemonAssumption`, `GitSyncAssumption`,
`ConflictAssumption`, `ConfigAssumption`, `DotfileAssumption`: a finite number of home
files, texts that the user writes, none of them the empty file that the code creates),
which TLC evaluates in every run. Every invariant and every action property that a run
checks is proved. Only model-checked, being out of the prover's reach: liveness and what
needs ENABLED.

## 5. Disagreements between code and documentation

One has a run and is a finding of `PROJECT.json`: `RemovalPreserves`, refuted by
`DotfilesRemove`. `dsm remove` copies the repository file to the home path while
that is still a link to it (`cmd/remove.go:235`), so that the file is truncated
and both are empty; only the backup made by `add`, if there is one, is left.

TLC refutes the following claims too. They are definitions of the modules, with
the line they quote, and can be seen by adding the property to a configuration.

Debouncers:

- `DelayAtLeastBase` (`Backoff`): the exponential delay
  overflows before it is capped (`advanced_debouncer.go:483`).
- `QuietSpellResetsBackoff` (`Backoff`): the reset after a quiet spell is dead
  code, because `recordActivity` has just overwritten the time it looks at (line 463).
- `RestartRevivesCallbacks` (`AdvancedDebouncer`, in `DebouncerManual`): after
  Stop and Start the context is still cancelled, so that no delayed callback
  runs again (line 770 says "allow restart after Stop()").
- `NoFatal` with `Overlap` = TRUE: a Start during a Stop replaces the Once that
  the Stop holds (line 42: "All public methods are thread-safe").
- `CancelAllReachesAll` (two timers, one key): the clean-up of a timer that fired
  before it was replaced removes the entry of its successor (line 512).
- `NoCallbackOutlivesStop` (one timer, one Stop): a callback that begins between
  `cancelAllTimers` and `d.cancel` is still running when Stop returns (line 693).
- `ReplacedNeverRuns` (`BasicDebouncer`): a timer that fired and waits for `d.mu`
  while Add replaces it still runs (`debouncer.go:27`, `debouncer_test.go:139`).
- `PendingIsLive` (`BasicDebouncer`): after a panic the entries of a key stay
  (`debouncer.go:91`).

Sync service:

- `WaitingStopWaits` (1 Start, 2 Stops): a Stop that joins another does not wait
  for it (`service.go:401`, `service.go:416`).
- `FailedStartIsUndone` (in `SyncService`): a Start whose status server fails is not
  rolled back (`service.go:341`): the service stays running, with its watch and without
  an event loop, and refuses the next Start (line 284: "reset state and clean up
  resources if initialization fails").
- `StartedIsWatched` with `Overlap` = TRUE and 2 Starts: a Start that fails takes
  the watcher of one that succeeds (`service.go:286`; line 266: "thread-safe and can be
  called concurrently").
- `StopReturns` with `CallbackStop` a Stop: Stop in a callback of the event loop
  waits for itself (`service.go:605`; `lifecycle_test.go:184`).

Daemon (`DaemonLock`):

- `OneAtWork`: the lock goes after a fixed delay while the service may still be
  at work, so that two daemons can be in one repository.
- `KeptOutByTheLiving`: a PID file that was created and never written keeps every
  daemon out until it is removed by hand or by another command (`daemon.go:190`).
- `RestartStarts`: `restart` runs the root command with its own arguments again,
  that is itself, and never starts the daemon.

Git and conflicts:

- `NoTombstoneInPlace` (`ConflictResolution`): resolving a conflict in favour of a
  removal writes the text of the tombstone into the file (`actions.go:43`, `:86`).
- `AllConflictsListed` (`Nested` not empty): conflicts of files below the top level are not
  listed (`conflict/service.go:38`).
- `EditAlwaysAtHand`: a pull that fails leaves the edit in a stash nobody applies
  (`git_manager.go:307`).
- `EditWhilePullingKept`: what is written between stash and reset, or between the read of a
  file and its write (`stash.go:216`, `:264`), is gone.
- `MarkedIsGone`: the conflict of an earlier pull over the file comes up again.

Dotfile commands (`DotfileTransaction`):

- `RollbackPreserves`: a roll-back that cannot remove the link copies the backup
  through it, then removes the repository file and the backup (`cmd/add.go:355`).
- `NoStaleSave`: only `config set` takes the lock of the configuration
  (`mappings.go:94`), so that a save undoes another's. When two overlap, the file may not
  even be JSON afterwards (`sync_config.go:664`), which `ConfigSound` has to except.
- `RestoresTheOriginal`: `unlink --restore` may take the backup of another path
  (`unlink.go:111`, `backup.go:261`: `_` is decoded to `/`).

Seen while modelling, and contradicted by no line of the repository: a push that fails after
its commit is not tried again while the tree is clean (`git_manager.go:190`); a clone that
fails leaves a directory in which the next run makes an unrelated repository; two `dsm
resolve` at once can remove the artifacts of a newer conflict than the one they resolve;
conflict artifacts lie in the work tree and are committed; a configuration file that was
truncated blocks every command.

## 6. Not modelled, and the plan

Not modelled because there is nothing to check: prompts, output, path
manipulation, the GUI's views, templates. Left out of the modelled parts:

- Git: repositories without a remote, authentication, modes and links inside the
  repository, what the metadata of a stash say beyond the kind and the base of a file.
- Conflicts: the detector, which only its tests call, and `GetConflictDetails`, which
  only reads.
- Dotfiles: directories, permissions, prompts, dry runs, the backups of the older
  naming scheme that `unlink --restore` also finds; `UpdateMapping` and
  `CleanupOldBackups` have no callers.
- Daemon: `process_windows.go`, the same interface over other system calls; other programs
  that happen to have the daemon's name; `stop --force`, which signals processes by name or
  kills one that cannot be signalled (that a process is killed is modelled); a
  `daemonCmd.Start` that fails (`cmd/start.go:144`), after which nothing has been started.
- Configuration: the settings other than the two modelled, legacy formats.
- Sync service: the errors that Stop collects, Pause with the conflict service,
  `ReloadIgnorePatterns`, which only tests call. Status server: socket file,
  counters.
- Ignore patterns: matching is a sequential function of strings, most of it
  inside a library.

`PullWithStash` is modelled although nothing but its tests calls it in this
commit: the documentation describes the daemon as pulling that way.

The rounding of the exponential delay to a float64 is not modelled either.
