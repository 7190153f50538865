--------------------------- MODULE AdvancedDebouncer ---------------------------
(***************************************************************************)
(* internal/debouncer/advanced_debouncer.go: callbacks delayed by timers,  *)
(* manual sync requests queued to a worker goroutine, Stop and Start.      *)
(*                                                                         *)
(* A timer is one time.AfterFunc, made by one AddWithContext: a key may    *)
(* have several over time, and one that has fired is a goroutine of its    *)
(* own that timer.Stop no longer reaches.  The timer's goroutine holds     *)
(* d.mu from its second look at the contexts until the callback is over,   *)
(* and a context may be cancelled while it does: cancelling takes no lock. *)
(* Every other holder of d.mu releases it                                  *)
(* without blocking, so such a critical section is one step, taken when mu *)
(* is free.  manualSyncMu, activityMu and startMu guard sections of that   *)
(* kind too; startMu also covers several steps of Start.                   *)
(***************************************************************************)
EXTENDS Backoff, Functions

CONSTANTS
  Keys,        \* debounce keys
  Timers,      \* one per call of AddWithContext
  OwnContext,  \* those given a context of their own; Add passes d.ctx
  Requests,    \* one per call of TriggerManualSync[WithContext] or AddImmediate
  Starters,    \* one per call of Start; also names the worker it launches
  Stoppers,    \* one per call of Stop
  QueueSize,   \* capacity of manualSyncQueue (100 in the code)
  MaxRestarts, \* bound on the restarts after a Stop
  Overlap,     \* may Start and Stop be under way at the same time?
  None, Own    \* no timer, process or request; a request's own goroutine

ASSUME DebouncerAssumption ==
  /\ QueueSize \in Nat \ {0}
  /\ MaxRestarts \in Nat
  /\ Overlap \in BOOLEAN
  /\ OwnContext \subseteq Timers
  /\ {None, Own} \cap (Timers \cup Starters \cup Stoppers) = {}
  /\ None # Own
  /\ Starters \cap Stoppers = {}

VARIABLES
  mu,          \* the timer whose goroutine holds d.mu to run its callback, or None
  timers,      \* d.timers: key -> timer
  callback,    \* d.callback: key -> the timer whose function it holds
  tstate,      \* progress of each timer
  tkey,        \* the key each timer was added under
  opCancelled, \* timers whose operation context is cancelled
  ctxDone,     \* d.ctx is cancelled
  gen,         \* which (done, manualSyncQueue) pair the fields hold
  queue,       \* content of each manualSyncQueue
  doneClosed, queueClosed,   \* the generations whose channel is closed
  stopped, started, startMu,
  once,        \* d.stopOnce: done flag, and the Stop that holds its mutex
  stopPc,      \* progress of each Stop
  startPc,     \* progress of each Start
  worker,      \* progress of the worker goroutine of each Start
  wgen,        \* the pair of channels the worker's select looks at
  rstate,      \* progress of each request
  rkey,        \* the key its caller asks for, fixed from the start
  rexec,       \* the goroutine that handles it
  reply,       \* content of its result channel
  caller,      \* what its caller was told
  fatal        \* a panic or runtime throw that ends the process

timerVars   == <<mu, timers, callback, tstate, tkey, opCancelled>>
channelVars == <<gen, queue, doneClosed, queueClosed>>
lifeVars    == <<stopped, started, startMu, once, stopPc, startPc>>
workerVars  == <<worker, wgen>>
requestVars == <<rstate, rkey, rexec, reply, caller>>
vars == <<backoffVars, timerVars, ctxDone, channelVars, lifeVars, workerVars,
          requestVars, fatal>>

Generations == 0 .. MaxRestarts
Executors   == Starters \cup Stoppers \cup {Own, None}

TimerTypeOK ==
  /\ mu \in Timers \cup {None}
  /\ timers \in [Keys -> Timers \cup {None}]
  /\ callback \in [Keys -> Timers \cup {None}]
  /\ tstate \in [Timers -> {"unused", "armed", "stopped", "fired", "waiting",
                            "dropping", "entered", "running", "ran", "dropped"}]
  /\ tkey \in [Timers -> Keys \cup {None}]
  /\ opCancelled \subseteq Timers
  /\ ctxDone \in BOOLEAN

ChannelTypeOK ==
  /\ gen \in Generations
  /\ queue \in [Generations -> Seq(Requests)]
  /\ doneClosed \subseteq Generations
  /\ queueClosed \subseteq Generations
  /\ worker \in [Starters -> {"none", "loop", "select", "handling", "exited"}]
  /\ wgen \in [Starters -> Generations]

LifeTypeOK ==
  /\ stopped \in BOOLEAN
  /\ started \in BOOLEAN
  /\ startMu \in Starters \cup {None}
  /\ once \in [done : BOOLEAN, holder : Stoppers \cup {None}]
  /\ stopPc \in [Stoppers -> {"idle", "setStopped", "cancelTimers", "cancelCtx",
                   "clearStarted", "closeDone", "drain", "closeQueue",
                   "wait", "returned"}]
  /\ startPc \in [Starters -> {"idle", "reset", "launch", "returned"}]
  /\ fatal \in {"none", "sendOnClosedChannel", "unlockOfUnlockedMutex"}

RequestTypeOK ==
  /\ rstate \in [Requests -> {"idle", "queued", "taken", "running", "immediate",
                              "answered"}]
  /\ rkey \in [Requests -> Keys]
  /\ rexec \in [Requests -> Executors]
  /\ reply \in [Requests -> {"none", "nil", "error"}]
  /\ caller \in [Requests -> {"idle", "waiting", "nil", "error", "timeout",
                              "ctx", "stopped"}]

TypeOK ==
  BackoffTypeOK /\ TimerTypeOK /\ ChannelTypeOK /\ LifeTypeOK /\ RequestTypeOK

\* NewAdvanced
Init ==
  /\ BackoffInit
  /\ mu = None
  /\ timers = [k \in Keys |-> None] /\ callback = [k \in Keys |-> None]
  /\ tstate = [t \in Timers |-> "unused"] /\ tkey = [t \in Timers |-> None]
  /\ opCancelled = {} /\ ctxDone = FALSE
  /\ gen = 0 /\ queue = [g \in Generations |-> <<>>]
  /\ doneClosed = {} /\ queueClosed = {}
  /\ stopped = FALSE /\ started = FALSE /\ startMu = None
  /\ once = [done |-> FALSE, holder |-> None]
  /\ stopPc = [p \in Stoppers |-> "idle"] /\ startPc = [s \in Starters |-> "idle"]
  /\ worker = [s \in Starters |-> "none"] /\ wgen = [s \in Starters |-> 0]
  /\ rstate = [r \in Requests |-> "idle"] /\ rkey \in [Requests -> Keys]
  /\ rexec = [r \in Requests |-> None] /\ reply = [r \in Requests |-> "none"]
  /\ caller = [r \in Requests |-> "idle"]
  /\ fatal = "none"

-----------------------------------------------------------------------------
(* Debounced callbacks *)

\* timer.Stop: no effect on a timer that has fired.
StopTimers(S) ==
  [t \in Timers |-> IF t \in S /\ tstate[t] = "armed" THEN "stopped" ELSE tstate[t]]

Forget(map, K) == [k \in Keys |-> IF k \in K THEN None ELSE map[k]]

\* Every action belongs to a process that no panic or throw has ended.
Running == fatal = "none"

\* Mutant: d.mu is not locked.
cancelKeysUnlocked(K) ==
  /\ tstate' = StopTimers({timers[k] : k \in K})
  /\ timers' = Forget(timers, K)
  /\ callback' = Forget(callback, K)
  /\ UNCHANGED <<mu, tkey, opCancelled>>

\* Cancel, and every loop or deletion over the two maps: the timers of the keys
\* K are stopped and their entries removed.
cancelKeys(K) ==
  /\ mu = None
  /\ tstate' = StopTimers({timers[k] : k \in K})
  /\ timers' = Forget(timers, K)
  /\ callback' = Forget(callback, K)
  /\ UNCHANGED <<mu, tkey, opCancelled>>

AddWithContext(t, k) ==
  /\ Running
  /\ mu = None
  /\ tstate[t] = "unused"
  /\ tstate' = [StopTimers({timers[k]}) EXCEPT ![t] = "armed"]
  /\ timers' = [timers EXCEPT ![k] = t]
  /\ callback' = [callback EXCEPT ![k] = t]
  /\ tkey' = [tkey EXCEPT ![t] = k]
  /\ NoteActivity
  /\ UNCHANGED <<mu, opCancelled, ctxDone, channelVars, lifeVars, workerVars,
                 requestVars, fatal>>

\* The context given to AddWithContext is cancelled.
CancelOperation(t) ==
  /\ Running
  /\ tstate[t] # "unused" /\ t \in OwnContext \ opCancelled
  /\ opCancelled' = opCancelled \cup {t}
  /\ UNCHANGED <<backoffVars, mu, timers, callback, tstate, tkey, ctxDone,
                 channelVars, lifeVars, workerVars, requestVars, fatal>>

\* Cancel and CancelAll, called from outside.
Cancel(K) ==
  /\ Running
  /\ \E k \in K : timers[k] # None
  /\ cancelKeys(K)
  /\ UNCHANGED <<backoffVars, ctxDone, channelVars, lifeVars, workerVars,
                 requestVars, fatal>>

Cancelled(t) == ctxDone \/ t \in opCancelled

\* What a step of a timer's goroutine leaves alone.
RestOfTimerStep ==
  /\ Running
  /\ UNCHANGED <<tkey, opCancelled, ctxDone, channelVars, lifeVars, workerVars,
                 requestVars, fatal>>

\* The runtime starts the goroutine of an expired timer.
Fire(t) ==
  /\ tstate[t] = "armed"
  /\ tstate' = [tstate EXCEPT ![t] = "fired"]
  /\ UNCHANGED <<backoffVars, mu, timers, callback>>
  /\ RestOfTimerStep

\* The first look at both contexts, before d.mu is locked.
CheckContext(t) ==
  /\ tstate[t] = "fired"
  /\ tstate' = [tstate EXCEPT ![t] = IF Cancelled(t) THEN "dropping" ELSE "waiting"]
  /\ UNCHANGED <<backoffVars, mu, timers, callback>>
  /\ RestOfTimerStep

\* Under d.mu, a context was found cancelled: the key's entries go, whichever
\* timer they are about.
Drop(t) ==
  /\ mu = None
  /\ \/ tstate[t] = "dropping"
     \/ tstate[t] = "waiting" /\ Cancelled(t)
  /\ tstate' = [tstate EXCEPT ![t] = "dropped"]
  /\ timers' = Forget(timers, {tkey[t]})
  /\ callback' = Forget(callback, {tkey[t]})
  /\ UNCHANGED <<backoffVars, mu>>
  /\ RestOfTimerStep

\* Mutant: the contexts are not looked at again under d.mu.
EnterUnchecked(t) ==
  /\ mu = None
  /\ tstate[t] = "waiting"
  /\ mu' = t
  /\ tstate' = [tstate EXCEPT ![t] = "entered"]
  /\ UNCHANGED <<backoffVars, timers, callback>>
  /\ RestOfTimerStep

\* d.mu is locked, the second look finds neither context cancelled.
Enter(t) ==
  /\ mu = None
  /\ tstate[t] = "waiting" /\ ~Cancelled(t)
  /\ mu' = t
  /\ tstate' = [tstate EXCEPT ![t] = "entered"]
  /\ UNCHANGED <<backoffVars, timers, callback>>
  /\ RestOfTimerStep

\* capturedFn() is called, also when a context was cancelled since the second look.
BeginCallback(t) ==
  /\ tstate[t] = "entered"
  /\ tstate' = [tstate EXCEPT ![t] = "running"]
  /\ UNCHANGED <<backoffVars, mu, timers, callback>>
  /\ RestOfTimerStep

\* Mutant: the entries are deleted after the callback, not in the deferred
\* function, and a panic skips that.
EndCallbackLeaking(t) ==
  /\ tstate[t] = "running"
  /\ mu' = None
  /\ tstate' = [tstate EXCEPT ![t] = "ran"]
  /\ \/ /\ timers' = Forget(timers, {tkey[t]})
        /\ callback' = Forget(callback, {tkey[t]})
        /\ ResetBackoff
     \/ UNCHANGED <<backoffVars, timers, callback>>
  /\ RestOfTimerStep

\* Mutant: the panic path returns without unlocking d.mu.
EndCallbackLocked(t) ==
  /\ tstate[t] = "running"
  /\ tstate' = [tstate EXCEPT ![t] = "ran"]
  /\ timers' = Forget(timers, {tkey[t]})
  /\ callback' = Forget(callback, {tkey[t]})
  /\ \/ mu' = None /\ ResetBackoff
     \/ UNCHANGED <<mu, backoffVars>>
  /\ RestOfTimerStep

\* The deferred function, after capturedFn returned or panicked: only the first
\* resets the backoff.
EndCallback(t) ==
  /\ tstate[t] = "running"
  /\ mu' = None
  /\ tstate' = [tstate EXCEPT ![t] = "ran"]
  /\ timers' = Forget(timers, {tkey[t]})
  /\ callback' = Forget(callback, {tkey[t]})
  /\ ResetBackoff \/ UNCHANGED backoffVars
  /\ RestOfTimerStep

TimerGoroutine(t) ==
  CheckContext(t) \/ Drop(t) \/ Enter(t) \/ BeginCallback(t) \/ EndCallback(t)

-----------------------------------------------------------------------------
(* Manual sync requests *)

RestOfRequestStep ==
  /\ Running
  /\ UNCHANGED <<backoffVars, timerVars, ctxDone, lifeVars>>

\* Refused: the debouncer is stopped, or the select took ctx.Done().
RefuseManualSync(r) ==
  /\ rstate[r] = "idle" /\ caller[r] = "idle"
  /\ caller' = [caller EXCEPT ![r] = IF stopped THEN "stopped" ELSE "ctx"]
  /\ UNCHANGED <<rstate, rkey, rexec, reply, channelVars, workerVars, fatal>>
  /\ RestOfRequestStep

\* The select of triggerManualSyncInternal, and the goroutine its callers start
\* for a request that the full queue did not take.
Send(r) ==
  /\ rstate[r] = "idle" /\ caller[r] = "idle"
  /\ caller' = [caller EXCEPT ![r] = "waiting"]
  /\ \/ /\ gen \in queueClosed
        /\ fatal' = "sendOnClosedChannel"
        /\ UNCHANGED <<rstate, rexec, queue>>
     \/ /\ gen \notin queueClosed /\ Len(queue[gen]) < QueueSize
        /\ rstate' = [rstate EXCEPT ![r] = "queued"]
        /\ queue' = [queue EXCEPT ![gen] = Append(@, r)]
        /\ UNCHANGED <<rexec, fatal>>
     \/ /\ gen \notin queueClosed /\ Len(queue[gen]) = QueueSize
        /\ rstate' = [rstate EXCEPT ![r] = "taken"]
        /\ rexec' = [rexec EXCEPT ![r] = Own]
        /\ UNCHANGED <<queue, fatal>>
  /\ UNCHANGED <<rkey, reply, gen, doneClosed, queueClosed, workerVars>>
  /\ RestOfRequestStep

\* Mutant: the stopped flag is looked at before the lock, too early to mean anything.
TriggerWhileStopped(r) == Send(r)

\* TriggerManualSync and TriggerManualSyncWithContext, up to their wait.
TriggerManualSync(r) == ~stopped /\ Send(r)

\* The caller's select: the result, the timeout or the end of its context.
CallerReturns(r) ==
  /\ caller[r] = "waiting"
  /\ \/ reply[r] # "none" /\ caller' = [caller EXCEPT ![r] = reply[r]]
     \/ \E why \in {"timeout", "ctx"} : caller' = [caller EXCEPT ![r] = why]
  /\ UNCHANGED <<rstate, rkey, rexec, reply, channelVars, workerVars, fatal>>
  /\ RestOfRequestStep

\* AddImmediate asks neither the queue nor the stopped flag.
AddImmediate(r) ==
  /\ Running
  /\ rstate[r] = "idle" /\ caller[r] = "idle"
  /\ cancelKeys({rkey[r]})
  /\ rstate' = [rstate EXCEPT ![r] = "immediate"]
  /\ rexec' = [rexec EXCEPT ![r] = Own]
  /\ UNCHANGED <<backoffVars, ctxDone, channelVars, lifeVars, workerVars, rkey,
                 reply, caller, fatal>>

\* handleManualSync, first half: the pending callback of the key is cancelled.
BeginManualSync(r) ==
  /\ Running
  /\ rstate[r] = "taken"
  /\ cancelKeys({rkey[r]})
  /\ rstate' = [rstate EXCEPT ![r] = "running"]
  /\ UNCHANGED <<backoffVars, ctxDone, channelVars, lifeVars, workerVars, rkey,
                 rexec, reply, caller, fatal>>

\* The function returned or panicked: the result is sent (the channel has room
\* for it) and the goroutine that handled the request goes on.
EndManualSync(r) ==
  /\ \/ /\ rstate[r] = "running"
        /\ \E res \in {"nil", "error"} : reply' = [reply EXCEPT ![r] = res]
     \/ rstate[r] = "immediate" /\ UNCHANGED reply
  /\ rstate' = [rstate EXCEPT ![r] = "answered"]
  /\ worker' = [s \in Starters |-> IF rexec[r] = s THEN "loop" ELSE worker[s]]
  /\ UNCHANGED <<rkey, rexec, caller, channelVars, wgen, fatal>>
  /\ RestOfRequestStep

\* processManualSyncQueue reads both channel fields at the top of its loop.
WorkerLoop(s) ==
  /\ worker[s] = "loop"
  /\ worker' = [worker EXCEPT ![s] = "select"]
  /\ wgen' = [wgen EXCEPT ![s] = gen]
  /\ UNCHANGED <<channelVars, requestVars, fatal>>
  /\ RestOfRequestStep

\* The goroutine p receives the oldest request of generation g.
Receive(p, g) ==
  /\ queue[g] # <<>>
  /\ queue' = [queue EXCEPT ![g] = Tail(@)]
  /\ rstate' = [rstate EXCEPT ![Head(queue[g])] = "taken"]
  /\ rexec' = [rexec EXCEPT ![Head(queue[g])] = p]
  /\ UNCHANGED <<gen, doneClosed, queueClosed, rkey, reply, caller>>

WorkerTake(s) ==
  /\ worker[s] = "select"
  /\ Receive(s, wgen[s])
  /\ worker' = [worker EXCEPT ![s] = "handling"]
  /\ UNCHANGED <<wgen, fatal>>
  /\ RestOfRequestStep

WorkerExit(s) ==
  /\ worker[s] = "select"
  /\ \/ wgen[s] \in doneClosed
     \/ wgen[s] \in queueClosed /\ queue[wgen[s]] = <<>>
  /\ worker' = [worker EXCEPT ![s] = "exited"]
  /\ UNCHANGED <<wgen, channelVars, requestVars, fatal>>
  /\ RestOfRequestStep

-----------------------------------------------------------------------------
(* Stop *)

StopAt(p, here, next) ==
  /\ stopPc[p] = here
  /\ stopPc' = [stopPc EXCEPT ![p] = next]

RestOfStopStep ==
  /\ Running
  /\ UNCHANGED <<backoffVars, workerVars, startMu, startPc, reply, caller>>

\* sync.Once: the first Stop runs the shutdown, a later one waits for it, then
\* returns at once.
StopEnter(p) ==
  /\ Overlap \/ startMu = None
  /\ \/ /\ once.done
        /\ StopAt(p, "idle", "returned")
        /\ UNCHANGED once
     \/ /\ ~once.done /\ once.holder = None
        /\ StopAt(p, "idle", "setStopped")
        /\ once' = [done |-> FALSE, holder |-> p]
  /\ UNCHANGED <<timerVars, ctxDone, channelVars, stopped, started, requestVars, fatal>>
  /\ RestOfStopStep

StopSetStopped(p) ==
  /\ StopAt(p, "setStopped", "cancelTimers")
  /\ stopped' = TRUE
  /\ UNCHANGED <<timerVars, ctxDone, channelVars, started, once, requestVars, fatal>>
  /\ RestOfStopStep

\* cancelAllTimers
StopCancelTimers(p) ==
  /\ StopAt(p, "cancelTimers", "cancelCtx")
  /\ cancelKeys(Keys)
  /\ UNCHANGED <<ctxDone, channelVars, stopped, started, once, requestVars, fatal>>
  /\ RestOfStopStep

StopCancelCtx(p) ==
  /\ StopAt(p, "cancelCtx", "clearStarted")
  /\ ctxDone' = TRUE
  /\ UNCHANGED <<timerVars, channelVars, stopped, started, once, requestVars, fatal>>
  /\ RestOfStopStep

StopClearStarted(p) ==
  /\ StopAt(p, "clearStarted", "closeDone")
  /\ started' = FALSE
  /\ UNCHANGED <<timerVars, ctxDone, channelVars, stopped, once, requestVars, fatal>>
  /\ RestOfStopStep

\* safeCloseChannel recovers from closing a channel twice.
StopCloseDone(p) ==
  /\ StopAt(p, "closeDone", "drain")
  /\ doneClosed' = doneClosed \cup {gen}
  /\ UNCHANGED <<timerVars, ctxDone, gen, queue, queueClosed, stopped, started, once,
                 requestVars, fatal>>
  /\ RestOfStopStep

Busy(p) == \E r \in Requests : rexec[r] = p /\ rstate[r] \in {"taken", "running"}

\* drainQueue handles in this goroutine whatever the worker has not received.
StopDrain(p) ==
  /\ stopPc[p] = "drain" /\ ~Busy(p)
  /\ Receive(p, gen)
  /\ UNCHANGED <<timerVars, ctxDone, stopped, started, once, stopPc, fatal>>
  /\ RestOfStopStep

\* Mutant: Stop does not drain the queue.
StopSkipDrain(p) ==
  /\ StopAt(p, "drain", "closeQueue")
  /\ UNCHANGED <<timerVars, ctxDone, channelVars, stopped, started, once, requestVars,
                 fatal>>
  /\ RestOfStopStep

StopDrained(p) ==
  /\ ~Busy(p) /\ queue[gen] = <<>>
  /\ StopAt(p, "drain", "closeQueue")
  /\ UNCHANGED <<timerVars, ctxDone, channelVars, stopped, started, once, requestVars,
                 fatal>>
  /\ RestOfStopStep

StopCloseQueue(p) ==
  /\ StopAt(p, "closeQueue", "wait")
  /\ queueClosed' = queueClosed \cup {gen}
  /\ UNCHANGED <<timerVars, ctxDone, gen, queue, doneClosed, stopped, started, once,
                 requestVars, fatal>>
  /\ RestOfStopStep

Alive(s) == worker[s] \in {"loop", "select", "handling"}

\* Mutant: Stop does not wait for the worker.
StopFinishAtOnce(p) ==
  /\ StopAt(p, "wait", "returned")
  /\ once' = [done |-> TRUE, holder |-> None]
  /\ fatal' = IF once.holder = None THEN "unlockOfUnlockedMutex" ELSE fatal
  /\ UNCHANGED <<timerVars, ctxDone, channelVars, stopped, started, requestVars>>
  /\ RestOfStopStep

\* shutdownWG.Wait() returned; Once.Do marks itself done and unlocks its mutex,
\* which a Start may have replaced by an unlocked one in the meantime.
StopFinish(p) ==
  /\ \A s \in Starters : ~Alive(s)
  /\ StopAt(p, "wait", "returned")
  /\ once' = [done |-> TRUE, holder |-> None]
  /\ fatal' = IF once.holder = None THEN "unlockOfUnlockedMutex" ELSE fatal
  /\ UNCHANGED <<timerVars, ctxDone, channelVars, stopped, started, requestVars>>
  /\ RestOfStopStep

StopStep(p) ==
  \/ StopSetStopped(p) \/ StopCancelTimers(p) \/ StopCancelCtx(p)
  \/ StopClearStarted(p) \/ StopCloseDone(p) \/ StopDrain(p)
  \/ StopDrained(p) \/ StopCloseQueue(p) \/ StopFinish(p)

-----------------------------------------------------------------------------
(* Start *)

RestOfStartStep ==
  /\ Running
  /\ UNCHANGED <<backoffVars, timerVars, ctxDone, queue, doneClosed, queueClosed,
                 stopPc, requestVars, fatal>>

\* Both looks at started: only a Start that finds it unset, holding startMu, goes on.
StartEnter(s) ==
  /\ Overlap \/ once.holder = None
  /\ startPc[s] = "idle"
  /\ \/ started /\ startPc' = [startPc EXCEPT ![s] = "returned"] /\ UNCHANGED startMu
     \/ /\ ~started /\ startMu = None
        /\ startMu' = s
        /\ startPc' = [startPc EXCEPT ![s] = "reset"]
  /\ UNCHANGED <<gen, stopped, started, once, workerVars>>
  /\ RestOfStartStep

\* After a Stop: new channels, a new Once.  The context stays as Stop left it.
StartReset(s) ==
  /\ startPc[s] = "reset"
  /\ startPc' = [startPc EXCEPT ![s] = "launch"]
  /\ \/ /\ stopped /\ gen < MaxRestarts
        /\ gen' = gen + 1
        /\ stopped' = FALSE
        /\ once' = [done |-> FALSE, holder |-> None]
     \/ ~stopped /\ UNCHANGED <<gen, stopped, once>>
  /\ UNCHANGED <<started, startMu, workerVars>>
  /\ RestOfStartStep

StartLaunch(s) ==
  /\ startPc[s] = "launch"
  /\ startPc' = [startPc EXCEPT ![s] = "returned"]
  /\ started' = TRUE
  /\ startMu' = None
  /\ worker' = [worker EXCEPT ![s] = "loop"]
  /\ UNCHANGED <<gen, stopped, once, wgen>>
  /\ RestOfStartStep

-----------------------------------------------------------------------------
Next ==
  \/ \E t \in Timers : \/ \E k \in Keys : AddWithContext(t, k)
                       \/ CancelOperation(t) \/ Fire(t) \/ TimerGoroutine(t)
  \/ \E K \in {{k} : k \in Keys} \cup {Keys} : Cancel(K)
  \/ \E r \in Requests :
       \/ TriggerManualSync(r) \/ AddImmediate(r)
       \/ RefuseManualSync(r) \/ CallerReturns(r)
       \/ BeginManualSync(r) \/ EndManualSync(r)
  \/ \E s \in Starters : \/ StartEnter(s) \/ StartReset(s) \/ StartLaunch(s)
                         \/ WorkerLoop(s) \/ WorkerTake(s) \/ WorkerExit(s)
  \/ \E p \in Stoppers : StopEnter(p) \/ StopStep(p)

Spec == Init /\ [][Next]_vars

\* Goroutines that can run do run, timers expire, callbacks and manual syncs
\* return.  Nobody has to call Add, TriggerManualSync, Start or Stop.
Fairness ==
  /\ \A t \in Timers : WF_vars(Fire(t)) /\ WF_vars(TimerGoroutine(t))
  /\ \A r \in Requests : WF_vars(BeginManualSync(r)) /\ WF_vars(EndManualSync(r))
  /\ \A s \in Starters : /\ WF_vars(StartReset(s) \/ StartLaunch(s))
                          /\ WF_vars(WorkerLoop(s) \/ WorkerTake(s) \/ WorkerExit(s))
  /\ \A p \in Stoppers : WF_vars(StopStep(p))

FairSpec == Spec /\ Fairness
-----------------------------------------------------------------------------
(* Properties *)

\* Pending() counts callbacks that are still to finish: both maps describe the
\* same keys, and no entry outlives its timer, whatever mix of expiry,
\* replacement, cancellation and panic led here (lines 262-284).
PendingIsLive ==
  \A k \in Keys :
    /\ callback[k] = timers[k]
    /\ timers[k] # None =>
         /\ tkey[timers[k]] = k
         /\ tstate[timers[k]] \in {"armed", "fired", "waiting", "dropping", "entered",
                               "running"}

\* No caller sends on a closed channel and no runtime throw happens: the lock
\* held over check and send (lines 328-329) against a Stop in any position.
NoFatal == fatal = "none"

ShutDown == stopped /\ once.done /\ once.holder = None

\* When Stop has returned, no accepted request is left unserved or half served,
\* except by the goroutines of the requests the full queue refused.
ShutdownIsComplete ==
  ShutDown =>
    /\ \A s \in Starters : ~Alive(s)
    /\ \A r \in Requests : /\ rstate[r] # "queued"
                          /\ rstate[r] \in {"taken", "running"} => rexec[r] = Own

\* A request sits in a queue exactly while it is "queued", once, and in a queue
\* that someone will still receive from: that of the current pair of channels, not
\* yet closed. What Stop drains and Start replaces holds nothing that is forgotten.
QueuedOnce ==
  /\ \A r \in Requests :
       rstate[r] = "queued" <=> \E i \in DOMAIN queue[gen] : queue[gen][i] = r
  /\ IsInjective(queue[gen])
  /\ \A g \in Generations : g # gen \/ g \in queueClosed => queue[g] = <<>>

\* A Stop that has begun returns: no deadlock between the shutdown steps, the
\* worker, the requests it drains and the callbacks that hold d.mu.
StopTerminates == \A p \in Stoppers : (stopPc[p] = "setStopped") ~> (stopPc[p] = "returned")

\* A request that was queued gets its answer, from the worker or from Stop.
QueuedIsAnswered ==
  \A r \in Requests : (rstate[r] = "queued" /\ (started \/ stopped)) ~> (rstate[r] = "answered")

\* Every change is acted upon: a callback that was added runs, unless it was
\* replaced, cancelled, or the debouncer stopped.
AddedRuns ==
  \A t \in Timers : (tstate[t] = "armed") ~> (tstate[t] \in {"ran", "stopped", "dropped"})

-----------------------------------------------------------------------------
(* Claims of the code's comments that do not hold: TLC refutes each of them  *)
(* when it is added to a configuration (README, section 5).                  *)

\* "Reset stopped state to allow restart after Stop()" (line 770): while the
\* debouncer is started, delayed callbacks can run.
RestartRevivesCallbacks == started /\ ~stopped => ~ctxDone

\* "CancelAll cancels all pending debounced functions" (line 512): the map it
\* walks leads to every timer that is still to expire.
CancelAllReachesAll ==
  \A t \in Timers : tstate[t] = "armed" => timers[tkey[t]] = t

\* "Cancel the context to stop any pending callbacks" (line 693): none runs on
\* after Stop has returned.
NoCallbackOutlivesStop == ShutDown => mu = None
=============================================================================
