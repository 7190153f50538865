------------------------------ MODULE SyncService ------------------------------
(***************************************************************************)
(* internal/sync/service.go: the service that watches the repository,      *)
(* delays what it sees through the debouncer and runs the synchronisation; *)
(* its Start, Stop, event loop and the syncs.                              *)
(*                                                                         *)
(* The debouncer is what DebouncerContract says of it, the status server   *)
(* is StatusManager; their variables and their steps are part of this      *)
(* specification.  A process of Starters or Stoppers is one call of Start  *)
(* or Stop, a call of Calls one Add of the event loop, a request one call  *)
(* of ManualSync.                                                          *)
(***************************************************************************)
EXTENDS DebouncerContract, StatusManager

CONSTANTS
  Starters, Stoppers,
  Overlap,      \* may a Start and another call be under way at the same time?
  CallbackStop, \* the Stop that onError makes when the event loop calls it,
                \* or Nobody
  Impatient     \* the Stops whose context may expire

ASSUME ServiceAssumption ==
  /\ Clients = Starters \cup Stoppers
  /\ Starters \cap Stoppers = {}
  /\ Calls \cap Requests = {}
  /\ Overlap \in BOOLEAN
  /\ CallbackStop \in Stoppers \cup {Nobody}
  /\ Impatient \subseteq Stoppers

VARIABLES
  advanced,    \* the debouncer is the advanced one
  state,       \* s.state
  watcher,     \* s.watcher: "open", or "nil" once it is taken away
  closed,      \* the watcher is closed
  ctxDone,     \* s.ctx is cancelled
  once,        \* s.shutdownOnce: done flag and the Stop that runs it
  loop,        \* progress of the event loop launched by each Start
  pc,          \* progress of each call of Start and of Stop
  syncPc,      \* progress of each sync
  fatal        \* a runtime throw has ended the process

serviceVars == <<advanced, state, watcher, closed, ctxDone, once>>
vars == <<contractVars, statusVars, serviceVars, loop, pc, syncPc, fatal>>

Syncs == Calls \cup Requests

ServiceTypeOK ==
  /\ advanced \in BOOLEAN
  /\ state \in {"stopped", "running", "stopping"}
  /\ watcher \in {"open", "nil"}
  /\ closed \in BOOLEAN
  /\ ctxDone \in BOOLEAN
  /\ once \in [done : BOOLEAN, holder : Stoppers \cup {Nobody}]
  /\ loop \in [Starters -> {"none", "top", "select", "event", "adding", "error", "exited"}]
  /\ pc \in [Clients -> {"idle", "watcher", "status", "watch", "unstatus", "loop", "state",
                        "cancelAll", "stopDebouncer", "cancelTimers", "cancelCtx",
                        "endDebouncer", "unwatch", "resetOnce", "close", "once", "endOnce",
                        "await", "store", "join", "started", "refused", "halfway",
                        "undone", "stopped", "joined", "nothing"}]
  /\ syncPc \in [Syncs -> {"none", "checked", "status", "ask", "git", "gone", "error",
                           "done", "over"}]
  /\ fatal \in BOOLEAN

TypeOK == ContractTypeOK /\ StatusTypeOK /\ ServiceTypeOK

\* New
Init ==
  /\ ContractInit
  /\ StatusInit
  /\ advanced \in BOOLEAN
  /\ state = "stopped" /\ watcher = "open" /\ closed = FALSE /\ ctxDone = FALSE
  /\ once = [done |-> FALSE, holder |-> Nobody]
  /\ loop = [s \in Starters |-> "none"]
  /\ pc = [c \in Clients |-> "idle"]
  /\ syncPc = [x \in Syncs |-> "none"]
  /\ fatal = FALSE

Alive == ~fatal /\ ~smPanic

-----------------------------------------------------------------------------
(* Synchronisation.  A sync runs in the goroutine of a timer, as the call of *)
(* the debouncer, in the debouncer's worker, in a goroutine of its own, or,  *)
(* with the basic debouncer, in the goroutine of the caller of ManualSync.   *)

RestOfSyncStep ==
  /\ Alive
  /\ UNCHANGED <<serverVars, smPc, smPanic, serviceVars, loop, pc, fatal>>

SyncAt(x, here, next) ==
  /\ syncPc[x] = here
  /\ syncPc' = [syncPc EXCEPT ![x] = next]

\* performSync: nothing to do when automatic syncs are disabled or paused.
BeginCall(c) ==
  /\ Begin(c)
  /\ SyncAt(c, "none", "status") \/ SyncAt(c, "none", "over")
  /\ UNCHANGED reported
  /\ RestOfSyncStep

\* The caller of ManualSync finds the service running.
CheckRunning(r) ==
  /\ state = "running" /\ request[r] = "idle"
  /\ SyncAt(r, "none", "checked")
  /\ UNCHANGED <<contractVars, reported>>
  /\ RestOfSyncStep

\* It hands the sync to the advanced debouncer, which queues it, leaves it to a
\* goroutine, or, once stopped, refuses it; or it runs the sync itself.
RequestSync(r) ==
  /\ \/ /\ advanced
        /\ \/ Accept(r) /\ SyncAt(r, "checked", "none")
           \/ Bypass(r) /\ SyncAt(r, "checked", "status")
           \/ life # "open" /\ UNCHANGED contractVars /\ SyncAt(r, "checked", "over")
     \/ ~advanced /\ Bypass(r) /\ UNCHANGED call /\ SyncAt(r, "checked", "status")
  /\ UNCHANGED reported
  /\ RestOfSyncStep

ServeRequest(r) ==
  /\ Serve(r)
  /\ SyncAt(r, "none", "status")
  /\ UNCHANGED reported
  /\ RestOfSyncStep

\* performManualSync, first step.
ReportSyncing(x) ==
  /\ SyncAt(x, "status", "ask")
  /\ SetState("syncing")
  /\ UNCHANGED contractVars
  /\ RestOfSyncStep

\* Mutant: the repository is synchronised although the context is cancelled.
AskNothing(x) ==
  /\ SyncAt(x, "ask", "git")
  /\ UNCHANGED <<contractVars, reported>>
  /\ RestOfSyncStep

\* StageAndCommit asks the context before it touches the repository.
AskContext(x) ==
  /\ \/ ctxDone /\ SyncAt(x, "ask", "gone")
     \/ ~ctxDone /\ SyncAt(x, "ask", "git")
  /\ UNCHANGED <<contractVars, reported>>
  /\ RestOfSyncStep

\* It succeeds, fails or panics, or is cancelled before or while it pushes.
GitReturns(x) ==
  /\ \/ SyncAt(x, "git", "done")
     \/ SyncAt(x, "git", "error")
     \/ ctxDone /\ SyncAt(x, "git", "gone")
  /\ UNCHANGED <<contractVars, reported>>
  /\ RestOfSyncStep

\* Mutant: the state is left at what SetError made of it.
ReportNothing(x) ==
  /\ \/ SyncAt(x, "error", "over") /\ SetState("error")
     \/ SyncAt(x, "done", "over") /\ UNCHANGED reported
     \/ SyncAt(x, "gone", "over") /\ UNCHANGED reported
  /\ UNCHANGED contractVars
  /\ RestOfSyncStep

\* UpdateSync and, unless the sync was cancelled, the state; an error is set
\* first, which the state then overwrites.
ReportResult(x) ==
  /\ \/ SyncAt(x, "error", "done") /\ SetState("error")
     \/ SyncAt(x, "done", "over") /\ SetState("running")
     \/ SyncAt(x, "gone", "over") /\ UNCHANGED reported
  /\ UNCHANGED contractVars
  /\ RestOfSyncStep

\* Mutant: a call keeps the lock of the debouncer.
EndSyncLocked(x) ==
  /\ syncPc[x] = "over"
  /\ x \in Requests /\ Answer(x)
  /\ UNCHANGED <<syncPc, reported>>
  /\ RestOfSyncStep

\* The callbacks return, and with them the function given to the debouncer.
EndSync(x) ==
  /\ syncPc[x] = "over"
  /\ \/ x \in Calls /\ Finish(x)
     \/ x \in Requests /\ Answer(x)
  /\ UNCHANGED <<syncPc, reported>>
  /\ RestOfSyncStep

Sync(x) ==
  \/ x \in Requests /\ ServeRequest(x)
  \/ ReportSyncing(x) \/ AskContext(x) \/ GitReturns(x) \/ ReportResult(x) \/ EndSync(x)

\* The debouncer drops a call whose timer fires when its context is cancelled.
DebouncerWithdraws ==
  /\ cancelled
  /\ WithdrawSome
  /\ call' # call
  /\ UNCHANGED <<syncPc, reported>>
  /\ RestOfSyncStep

-----------------------------------------------------------------------------
(* The event loop *)

StopIsOver(p) == pc[p] \in {"stopped", "joined", "nothing"}

LoopStep(s, here, next) ==
  /\ Alive
  /\ loop[s] = here
  /\ loop' = [loop EXCEPT ![s] = next]
  /\ UNCHANGED <<statusVars, serviceVars, pc, syncPc, fatal>>

\* The context and the watcher, which s.mu guards for the time of a step, are
\* looked at one after the other; neither comes back once it is gone.
LoopTop(s) ==
  /\ \/ (ctxDone \/ watcher = "nil") /\ LoopStep(s, "top", "exited")
     \/ ~ctxDone /\ watcher # "nil" /\ LoopStep(s, "top", "select")
  /\ UNCHANGED contractVars

\* What the select finds: the context, a closed channel, an event, an error of
\* the watcher, or nothing for 100 ms.
LoopSelect(s) ==
  /\ \/ (ctxDone \/ closed) /\ LoopStep(s, "select", "exited")
     \/ ~closed /\ LoopStep(s, "select", "event")
     \/ ~closed /\ LoopStep(s, "select", "error")
     \/ LoopStep(s, "select", "top")
  /\ UNCHANGED contractVars

\* handleEvent: an ignored path, or one that is to be synchronised.
LoopEvent(s) ==
  /\ LoopStep(s, "event", "top") \/ LoopStep(s, "event", "adding")
  /\ UNCHANGED contractVars

\* Add waits for the lock of the debouncer, which a call that runs holds.  Calls
\* is the bound: an Add past it is one whose call will never run.
LoopAdd(s) ==
  /\ LoopStep(s, "adding", "top")
  /\ WithdrawSome \/ \E c \in Calls : Submit(c)

\* onError is called; it may stop the service.
LoopError(s) ==
  /\ \A p \in Stoppers \cap {CallbackStop} : StopIsOver(p)
  /\ LoopStep(s, "error", "top")
  /\ UNCHANGED contractVars

EventLoop(s) ==
  LoopTop(s) \/ LoopSelect(s) \/ LoopEvent(s) \/ LoopAdd(s) \/ LoopError(s)

-----------------------------------------------------------------------------
(* Calls of Start and Stop.  They use the status manager by setting smPc and *)
(* waiting for it to say how the call went.                                  *)

Step(c, here, next) ==
  /\ Alive
  /\ pc[c] = here
  /\ pc' = [pc EXCEPT ![c] = next]
  /\ UNCHANGED <<advanced, serverVars, smPanic, syncPc>>

CallStatus(c, method) == smPc' = [smPc EXCEPT ![c] = method]
StatusReturned(c) == smPc[c] \in {"ok", "failed"}

OverCall == {"idle", "started", "refused", "halfway", "undone", "stopped", "joined", "nothing"}
Alone(others) == Overlap \/ \A c \in others : pc[c] \in OverCall

(* The debouncer is stopped: CancelAll and, for the advanced one, Stop, which *)
(* cancels all timers again, then the context, and waits for its worker.  A   *)
(* Stop of a debouncer that is stopped does nothing.                          *)

AfterDebouncer(c) == IF c \in Starters THEN "resetOnce" ELSE "unwatch"

CancelAll(c) ==
  /\ Step(c, "cancelAll", IF advanced THEN "stopDebouncer" ELSE AfterDebouncer(c))
  /\ WithdrawSome

StopDebouncer(c) ==
  \/ Step(c, "stopDebouncer", "cancelTimers") /\ BeginClose
  \/ /\ life = "closed"
     /\ Step(c, "stopDebouncer", AfterDebouncer(c))
     /\ UNCHANGED contractVars

CancelTimers(c) == Step(c, "cancelTimers", "cancelCtx") /\ WithdrawSome
CancelCtx(c)    == Step(c, "cancelCtx", "endDebouncer") /\ CancelContext
EndDebouncer(c) == Step(c, "endDebouncer", AfterDebouncer(c)) /\ EndClose

StopTheDebouncer(c) ==
  /\ CancelAll(c) \/ StopDebouncer(c) \/ CancelTimers(c) \/ CancelCtx(c) \/ EndDebouncer(c)
  /\ UNCHANGED <<state, watcher, closed, ctxDone, once, reported, smPc, loop,
                 fatal>>

-----------------------------------------------------------------------------
(* Start *)

RestOfStart == UNCHANGED <<contractVars, ctxDone, fatal>>

StartBegin(s) ==
  /\ Alone(Clients \ {s})
  /\ Step(s, "idle", IF state = "stopped" THEN "watcher" ELSE "refused")
  /\ state' = IF state = "stopped" THEN "running" ELSE state
  /\ UNCHANGED <<watcher, closed, once, reported, smPc, loop>>
  /\ RestOfStart

\* A service that was stopped is not started again.
StartWatcher(s) ==
  /\ \/ watcher = "nil" /\ Step(s, "watcher", "state") /\ UNCHANGED smPc
     \/ watcher # "nil" /\ Step(s, "watcher", "status") /\ CallStatus(s, "start")
  /\ UNCHANGED <<state, watcher, closed, once, reported, loop>>
  /\ RestOfStart

\* When the status manager does not start, Start returns without a roll-back.
StartStatus(s) ==
  /\ StatusReturned(s)
  /\ Step(s, "status", IF smPc[s] = "ok" THEN "watch" ELSE "halfway")
  /\ UNCHANGED <<state, watcher, closed, once, reported, smPc, loop>>
  /\ RestOfStart

\* Mutant: the status manager is left running when the watch fails.
StartWatchLeaving(s) ==
  /\ \/ ~closed /\ Step(s, "watch", "loop") /\ UNCHANGED <<reported, smPc>>
     \/ Step(s, "watch", "state") /\ SetState("error") /\ UNCHANGED smPc
  /\ UNCHANGED <<state, watcher, closed, once, loop>>
  /\ RestOfStart

\* The repository is added to the watcher, directory by directory.
StartWatch(s) ==
  /\ \/ ~closed /\ Step(s, "watch", "loop") /\ UNCHANGED <<reported, smPc>>
     \/ Step(s, "watch", "unstatus") /\ SetState("error") /\ CallStatus(s, "stop")
  /\ UNCHANGED <<state, watcher, closed, once, loop>>
  /\ RestOfStart

StartUnstatus(s) ==
  /\ StatusReturned(s)
  /\ Step(s, "unstatus", "state")
  /\ UNCHANGED <<state, watcher, closed, once, reported, smPc, loop>>
  /\ RestOfStart

StartLoop(s) ==
  /\ Step(s, "loop", "started")
  /\ SetState("running")
  /\ loop' = [loop EXCEPT ![s] = "top"]
  /\ UNCHANGED <<state, watcher, closed, once, smPc>>
  /\ RestOfStart

\* rollbackState: the state, the watcher, the debouncer, the Once.
StartState(s) ==
  /\ Step(s, "state", "unwatch")
  /\ state' = "stopped"
  /\ UNCHANGED <<watcher, closed, once, reported, smPc, loop>>
  /\ RestOfStart

StartUnwatch(s) ==
  /\ s \in Starters
  /\ Step(s, "unwatch", "cancelAll")
  /\ closed' = (closed \/ watcher = "open")
  /\ watcher' = "nil"
  /\ UNCHANGED <<state, once, reported, smPc, loop>>
  /\ RestOfStart

StartResetOnce(s) ==
  /\ Step(s, "resetOnce", "undone")
  /\ once' = [done |-> FALSE, holder |-> Nobody]
  /\ UNCHANGED <<state, watcher, closed, reported, smPc, loop>>
  /\ RestOfStart

StartStep(s) ==
  \/ StartWatcher(s) \/ StartStatus(s) \/ StartWatch(s) \/ StartUnstatus(s)
  \/ StartLoop(s) \/ StartState(s) \/ StartUnwatch(s) \/ StartResetOnce(s)

-----------------------------------------------------------------------------
(* Stop *)

RestOfStop == UNCHANGED <<contractVars, reported, loop>>

LoopsExited == \A s \in Starters : loop[s] \in {"none", "exited"}

\* Only one Stop shuts the service down; a Stop that comes meanwhile joins it.
StopBegin(p) ==
  /\ Alone(Starters)
  /\ p = CallbackStop => \E s \in Starters : loop[s] = "error"
  /\ \/ state = "running" /\ Step(p, "idle", "once") /\ state' = "stopping"
     \/ state = "stopping" /\ Step(p, "idle", "join") /\ UNCHANGED state
     \/ state = "stopped" /\ Step(p, "idle", "nothing") /\ UNCHANGED state
  /\ UNCHANGED <<watcher, closed, ctxDone, once, smPc, fatal>>
  /\ RestOfStop

StopOnce(p) ==
  /\ \/ /\ once.done
        /\ Step(p, "once", "await")
        /\ UNCHANGED <<once, ctxDone, smPc>>
     \/ /\ ~once.done /\ once.holder = Nobody
        /\ Step(p, "once", "status")
        /\ once' = [done |-> FALSE, holder |-> p]
        /\ ctxDone' = TRUE
        /\ CallStatus(p, "stop")
  /\ UNCHANGED <<state, watcher, closed, fatal>>
  /\ RestOfStop

StopStatus(p) ==
  /\ p \in Stoppers
  /\ StatusReturned(p)
  /\ Step(p, "status", "cancelAll")
  /\ UNCHANGED <<state, watcher, closed, ctxDone, once, smPc, fatal>>
  /\ RestOfStop

StopUnwatch(p) ==
  /\ p \in Stoppers
  /\ Step(p, "unwatch", IF watcher = "open" THEN "close" ELSE "endOnce")
  /\ watcher' = "nil"
  /\ UNCHANGED <<state, closed, ctxDone, once, smPc, fatal>>
  /\ RestOfStop

StopClose(p) ==
  /\ Step(p, "close", "endOnce")
  /\ closed' = TRUE
  /\ UNCHANGED <<state, watcher, ctxDone, once, smPc, fatal>>
  /\ RestOfStop

\* The Once unlocks its mutex, or the unlocked one a roll-back put in its place.
StopEndOnce(p) ==
  /\ Step(p, "endOnce", "await")
  /\ once' = [done |-> TRUE, holder |-> Nobody]
  /\ fatal' = (once.holder = Nobody)
  /\ UNCHANGED <<state, watcher, closed, ctxDone, smPc>>
  /\ RestOfStop

\* Mutant: Stop does not wait for the event loop.
StopAwaitNothing(p) ==
  /\ Step(p, "await", "store")
  /\ UNCHANGED <<state, watcher, closed, ctxDone, once, smPc, fatal>>
  /\ RestOfStop

\* shutdownWG, or the context of the caller.
StopAwait(p) ==
  /\ LoopsExited \/ p \in Impatient
  /\ Step(p, "await", "store")
  /\ UNCHANGED <<state, watcher, closed, ctxDone, once, smPc, fatal>>
  /\ RestOfStop

StopStore(p) ==
  /\ Step(p, "store", "stopped")
  /\ state' = "stopped"
  /\ UNCHANGED <<watcher, closed, ctxDone, once, smPc, fatal>>
  /\ RestOfStop

\* The Stop that joins waits for shutdownWG as well.
StopJoin(p) ==
  /\ LoopsExited \/ p \in Impatient
  /\ Step(p, "join", "joined")
  /\ UNCHANGED <<state, watcher, closed, ctxDone, once, smPc, fatal>>
  /\ RestOfStop

StopStep(p) ==
  \/ StopOnce(p) \/ StopStatus(p) \/ StopUnwatch(p) \/ StopClose(p) \/ StopEndOnce(p)
  \/ StopAwait(p) \/ StopStore(p) \/ StopJoin(p)

-----------------------------------------------------------------------------
StatusServer(A) ==
  /\ ~fatal /\ A
  /\ UNCHANGED <<contractVars, serviceVars, loop, pc, syncPc, fatal>>

Next ==
  \/ \E c \in Calls : BeginCall(c)
  \/ \E r \in Requests : CheckRunning(r) \/ RequestSync(r)
  \/ \E x \in Syncs : Sync(x)
  \/ DebouncerWithdraws
  \/ \E s \in Starters : EventLoop(s) \/ StartBegin(s) \/ StartStep(s)
  \/ \E p \in Stoppers : StopBegin(p) \/ StopStep(p)
  \/ \E c \in Clients :
       StopTheDebouncer(c) \/ StatusServer(StatusCall(c)) \/ StatusServer(AcceptLoop(c))

Spec == Init /\ [][Next]_vars

\* Goroutines run on: syncs, the debouncer's worker, the event loop, the calls
\* under way and the accept loop.  Nobody has to call anything, and no timer has
\* to fire.
Fairness ==
  /\ \A r \in Requests : WF_vars(RequestSync(r))
  /\ \A x \in Syncs : WF_vars(Sync(x))
  /\ \A s \in Starters : WF_vars(EventLoop(s)) /\ WF_vars(StartStep(s))
  /\ \A p \in Stoppers : WF_vars(StopStep(p))
  /\ \A c \in Clients : /\ WF_vars(StopTheDebouncer(c))
                        /\ WF_vars(StatusServer(StatusCall(c)))
                        /\ WF_vars(StatusServer(AcceptLoop(c)))

FairSpec == Spec /\ Fairness
-----------------------------------------------------------------------------
(* Properties *)

ServerIsReleased == AcceptExited /\ listening = {}

\* When Stop returns, its patience not exhausted, nothing of the service is
\* left: no event loop, no watch, no server, no worker; a late sync finds the
\* context cancelled before it touches the repository.  The exception is a
\* request for which no room was left in the queue of the debouncer, or which
\* runs in the goroutine of its caller: nobody waits for it.
StoppedIsQuiet ==
  \A p \in Stoppers \ Impatient : pc[p] = "stopped" =>
    /\ LoopsExited
    /\ watcher = "nil" /\ closed
    /\ ServerIsReleased
    /\ advanced => life = "closed"
    /\ \A x \in Syncs : syncPc[x] = "git" => x \in Requests /\ request[x] = "own"

\* What a Start that failed leaves behind once no other call is under way.  One
\* that could not watch the repository, or found the service stopped, is undone:
\* no server, no watch, no debouncer.  One whose status server did not start is
\* not: until somebody stops it the service says that it is running and keeps the
\* open watcher, with nobody to read from it and no server to ask.
FailedStartLeaves ==
  (\A c \in Clients : pc[c] \in OverCall) =>
    \A s \in Starters :
      /\ pc[s] = "undone" =>
           /\ watcher = "nil" /\ closed
           /\ ServerIsReleased
           /\ advanced => life = "closed"
      /\ pc[s] = "halfway" /\ state # "stopped" =>
           /\ state = "running"
           /\ watcher = "open" /\ ~closed
           /\ ServerIsReleased
           /\ \A t \in Starters : loop[t] = "none"

\* "Rollback function to reset state and clean up resources if initialization
\* fails" (service.go, line 284): whichever step of a Start fails, the service is
\* stopped and its watcher closed.  A Start whose status server fails refutes it.
FailedStartIsUndone ==
  (\A c \in Clients : pc[c] \in OverCall) =>
    \A s \in Starters :
      pc[s] \in {"undone", "halfway"} => state = "stopped" /\ watcher = "nil" /\ closed

\* When no call is under way, a running service that was started has its watch
\* and its context.  "This method is thread-safe and can be called concurrently"
\* (service.go, line 266): with Overlap, the roll-back of a Start that fails takes
\* the watch of another, which begins between its first two steps.
StartedIsWatched ==
  /\ \A c \in Clients : pc[c] \in OverCall
  /\ state = "running"
  /\ \E s \in Starters : pc[s] = "started"
  => watcher = "open" /\ ~closed /\ ~ctxDone

\* While the service lives, whatever way a sync ends, the daemon does not go on
\* to report that it is syncing.
StatusSettles ==
  ~ctxDone /\ (\A x \in Syncs : syncPc[x] \in {"none", "checked", "over"})
    => reported # "syncing"

\* A Stop that was called returns: it waits for the server's goroutine, for d.mu,
\* for the debouncer's worker and for the event loop, which itself may be waiting
\* for d.mu; none of them waits for the Stop.
StopReturns == \A p \in Stoppers : pc[p] # "idle" ~> StopIsOver(p)

\* "Will wait for any in-progress Stop() operations to complete before
\* returning" (service.go, line 401).
WaitingStopWaits ==
  \A p, q \in Stoppers : pc[p] = "joined" /\ p \notin Impatient => pc[q] \in OverCall
=============================================================================
