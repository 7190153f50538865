----------------------- MODULE DebouncerRefinementProofs -----------------------
(***************************************************************************)
(* AdvancedDebouncer implements DebouncerContract, for every set of keys,  *)
(* timers, requests and callers, while Start and Stop are kept apart: every *)
(* step maps to a step of the contract or to a stutter.                    *)
(***************************************************************************)
EXTENDS DebouncerRefinement, AdvancedDebouncerProofs

\* One callback runs, or is about to, at a time: that of the timer that mu names.
MutexInv == \A t \in Timers : tstate[t] \in {"entered", "running"} <=> mu = t

-----------------------------------------------------------------------------
(* What the mapping makes of the variables a step leaves alone.             *)

LEMMA SameCall == UNCHANGED tstate => UNCHANGED abstractCall
BY DEF abstractCall, AbstractCall

LEMMA SameRequest == UNCHANGED <<rstate, rexec>> => UNCHANGED abstractRequest
BY DEF abstractRequest, AbstractRequest

LEMMA SameLife == UNCHANGED <<stopped, once>> => UNCHANGED AbstractLife
BY DEF AbstractLife

LEMMA NothingRuns ==
  ASSUME TypeOK, MutexInv, mu = None
  PROVE  Contract!Free
BY DebouncerAssumption DEF MutexInv, Contract!Free, abstractCall, AbstractCall

\* Stopping timers withdraws the calls of those that had not fired.
LEMMA CancelWithdraws ==
  ASSUME TypeOK, MutexInv, NEW K, cancelKeys(K)
  PROVE  Contract!Free /\ Contract!Withdraw
<1> DEFINE S == {t \in {timers[k] : k \in K} \cap Timers : tstate[t] = "armed"}
<1>1. mu = None /\ tstate' = StopTimers({timers[k] : k \in K})
  BY DEF cancelKeys
<1>2. Contract!Free
  BY <1>1, NothingRuns
<1>3. S \in SUBSET {t \in Timers : abstractCall[t] = "pending"}
  BY DEF abstractCall, AbstractCall
<1>4. abstractCall' = [t \in Timers |-> IF t \in S THEN "over" ELSE abstractCall[t]]
  BY <1>1 DEF abstractCall, AbstractCall, StopTimers, TypeOK, TimerTypeOK
<1>5. QED
  BY <1>2, <1>3, <1>4 DEF Contract!Withdraw

-----------------------------------------------------------------------------
(* The mutex.                                                               *)

LEMMA MutexNext == TypeOK /\ MutexInv /\ [Next]_vars => MutexInv'
<1> SUFFICES ASSUME TypeOK, MutexInv, [Next]_vars PROVE MutexInv'
  OBVIOUS
<1>1. ASSUME UNCHANGED <<mu, tstate>> PROVE MutexInv'
  BY <1>1 DEF MutexInv
<1>2. ASSUME NEW K, cancelKeys(K) PROVE MutexInv'
  BY <1>2 DEF MutexInv, cancelKeys, StopTimers, TypeOK, TimerTypeOK
<1>3. ASSUME NEW t \in Timers,
             \/ \E k \in Keys : AddWithContext(t, k)
             \/ CancelOperation(t) \/ Fire(t) \/ TimerGoroutine(t)
      PROVE  MutexInv'
  <2>1. CASE \E k \in Keys : AddWithContext(t, k)
    BY <2>1, DebouncerAssumption
    DEF MutexInv, AddWithContext, StopTimers, TypeOK, TimerTypeOK
  <2>2. CASE CancelOperation(t)
    BY <1>1, <2>2 DEF CancelOperation
  <2>3. CASE Fire(t) \/ CheckContext(t) \/ Drop(t)
    BY <2>3, DebouncerAssumption
    DEF MutexInv, Fire, CheckContext, Drop, TypeOK, TimerTypeOK
  <2>4. CASE Enter(t) \/ BeginCallback(t)
    BY <2>4, DebouncerAssumption DEF MutexInv, Enter, BeginCallback, TypeOK, TimerTypeOK
  <2>5. CASE EndCallback(t)
    BY <2>5, DebouncerAssumption DEF MutexInv, EndCallback, TypeOK, TimerTypeOK
  <2>6. QED
    BY <1>3, <2>1, <2>2, <2>3, <2>4, <2>5 DEF TimerGoroutine
<1>4. ASSUME NEW r \in Requests,
             \/ TriggerManualSync(r) \/ AddImmediate(r)
             \/ RefuseManualSync(r) \/ CallerReturns(r)
             \/ BeginManualSync(r) \/ EndManualSync(r)
      PROVE  MutexInv'
  BY <1>1, <1>2, <1>4
  DEF TriggerManualSync, Send, AddImmediate, RefuseManualSync, CallerReturns,
      BeginManualSync, EndManualSync, RestOfRequestStep, timerVars
<1>5. ASSUME NEW s \in Starters,
             \/ StartEnter(s) \/ StartReset(s) \/ StartLaunch(s)
             \/ WorkerLoop(s) \/ WorkerTake(s) \/ WorkerExit(s)
      PROVE  MutexInv'
  BY <1>1, <1>5
  DEF StartEnter, StartReset, StartLaunch, RestOfStartStep, WorkerLoop, WorkerTake,
      WorkerExit, RestOfRequestStep, timerVars
<1>6. ASSUME NEW p \in Stoppers, StopEnter(p) \/ StopStep(p)
      PROVE  MutexInv'
  BY <1>1, <1>2, <1>6
  DEF StopEnter, StopStep, StopSetStopped, StopCancelTimers, StopCancelCtx,
      StopClearStarted, StopCloseDone, StopDrain, StopDrained, StopCloseQueue,
      StopFinish, timerVars
<1>7. QED
  BY <1>1, <1>2, <1>3, <1>4, <1>5, <1>6 DEF Next, Cancel, vars, timerVars

-----------------------------------------------------------------------------
(* Steps.                                                                   *)

ContractStep == [Contract!ContractNext]_(Contract!contractVars)

LEMMA TimerSteps ==
  ASSUME TypeOK, MutexInv, NEW t \in Timers,
         \/ \E k \in Keys : AddWithContext(t, k)
         \/ CancelOperation(t) \/ Fire(t) \/ TimerGoroutine(t)
  PROVE  ContractStep
<1>0. UNCHANGED <<abstractRequest, AbstractLife, ctxDone>>
  BY SameRequest, SameLife
  DEF AddWithContext, CancelOperation, Fire, TimerGoroutine, CheckContext, Drop,
      Enter, BeginCallback, EndCallback, RestOfTimerStep, requestVars, lifeVars
<1>1. CASE \E k \in Keys : AddWithContext(t, k)
  <2>1. PICK k \in Keys : AddWithContext(t, k)
    BY <1>1
  <2> DEFINE S == {d \in {timers[k]} \cap Timers : tstate[d] = "armed"}
  <2>2. /\ mu = None /\ tstate[t] = "unused"
        /\ tstate' = [StopTimers({timers[k]}) EXCEPT ![t] = "armed"]
    BY <2>1 DEF AddWithContext
  <2>3. abstractCall[t] = "new" /\ S \in SUBSET {d \in Timers : abstractCall[d] = "pending"}
    BY <2>2 DEF abstractCall, AbstractCall
  <2>4. abstractCall' = [d \in Timers |-> IF d = t THEN "pending" ELSE
                                          IF d \in S THEN "over" ELSE abstractCall[d]]
    BY <2>2 DEF abstractCall, AbstractCall, StopTimers, TypeOK, TimerTypeOK
  <2>5. Contract!Submit(t)
    BY <1>0, <2>2, <2>3, <2>4, NothingRuns DEF Contract!Submit
  <2>6. QED
    BY <2>5 DEF ContractStep, Contract!ContractNext
<1>2. CASE CancelOperation(t)
  <2>1. UNCHANGED abstractCall
    BY <1>2, SameCall DEF CancelOperation
  <2>2. QED
    BY <1>0, <2>1 DEF ContractStep, Contract!contractVars
<1>3. CASE Fire(t) \/ CheckContext(t) \/ BeginCallback(t)
  <2>1. UNCHANGED abstractCall
    BY <1>3 DEF Fire, CheckContext, BeginCallback, abstractCall, AbstractCall, TypeOK, TimerTypeOK
  <2>2. QED
    BY <1>0, <2>1 DEF ContractStep, Contract!contractVars
<1>4. CASE Drop(t)
  <2>1. /\ mu = None /\ tstate[t] \in {"dropping", "waiting"}
        /\ tstate' = [tstate EXCEPT ![t] = "dropped"]
    BY <1>4 DEF Drop
  <2>2. /\ {t} \in SUBSET {d \in Timers : abstractCall[d] = "pending"}
        /\ abstractCall' = [d \in Timers |-> IF d \in {t} THEN "over" ELSE abstractCall[d]]
    BY <2>1 DEF abstractCall, AbstractCall, TypeOK, TimerTypeOK
  <2>3. Contract!WithdrawSome
    BY <1>0, <2>1, <2>2, NothingRuns DEF Contract!WithdrawSome, Contract!Withdraw
  <2>4. QED
    BY <2>3 DEF ContractStep, Contract!ContractNext
<1>5. CASE Enter(t)
  <2>1. /\ mu = None /\ ~ctxDone /\ tstate[t] = "waiting"
        /\ tstate' = [tstate EXCEPT ![t] = "entered"]
    BY <1>5 DEF Enter, Cancelled
  <2>2. /\ abstractCall[t] = "pending"
        /\ abstractCall' = [abstractCall EXCEPT ![t] = "running"]
    BY <2>1 DEF abstractCall, AbstractCall, TypeOK, TimerTypeOK
  <2>3. Contract!Begin(t)
    BY <1>0, <2>1, <2>2, NothingRuns DEF Contract!Begin
  <2>4. QED
    BY <2>3 DEF ContractStep, Contract!ContractNext
<1>6. CASE EndCallback(t)
  <2>1. tstate[t] = "running" /\ tstate' = [tstate EXCEPT ![t] = "ran"]
    BY <1>6 DEF EndCallback
  <2>2. /\ abstractCall[t] = "running"
        /\ abstractCall' = [abstractCall EXCEPT ![t] = "over"]
    BY <2>1 DEF abstractCall, AbstractCall, TypeOK, TimerTypeOK
  <2>3. Contract!Finish(t)
    BY <1>0, <2>2 DEF Contract!Finish
  <2>4. QED
    BY <2>3 DEF ContractStep, Contract!ContractNext
<1>7. QED
  BY <1>1, <1>2, <1>3, <1>4, <1>5, <1>6 DEF TimerGoroutine

LEMMA CancelSteps ==
  ASSUME TypeOK, MutexInv, NEW K, Cancel(K)
  PROVE  ContractStep
<1>1. UNCHANGED <<abstractRequest, AbstractLife, ctxDone>>
  BY SameRequest, SameLife DEF Cancel, requestVars, lifeVars
<1>2. Contract!WithdrawSome
  BY <1>1, CancelWithdraws DEF Cancel, Contract!WithdrawSome
<1>3. QED
  BY <1>2 DEF ContractStep, Contract!ContractNext

LEMMA RequestSteps ==
  ASSUME TypeOK, MutexInv, ShutdownInv, NEW r \in Requests,
         \/ TriggerManualSync(r) \/ AddImmediate(r)
         \/ RefuseManualSync(r) \/ CallerReturns(r)
         \/ BeginManualSync(r) \/ EndManualSync(r)
  PROVE  ContractStep
<1>0. /\ UNCHANGED <<AbstractLife, ctxDone>>
      /\ rstate \in [Requests -> {"idle", "queued", "taken", "running", "immediate",
                                  "answered"}]
      /\ rexec \in [Requests -> Executors]
  BY SameLife
  DEF TypeOK, RequestTypeOK, TriggerManualSync, Send, AddImmediate, RefuseManualSync,
      CallerReturns, BeginManualSync, EndManualSync, RestOfRequestStep, lifeVars
<1>1. CASE TriggerManualSync(r)
  <2>1. UNCHANGED abstractCall
    BY <1>1, SameCall DEF TriggerManualSync, Send, RestOfRequestStep, timerVars
  <2>2. ~stopped /\ rstate[r] = "idle" /\ gen \notin queueClosed
    BY <1>1 DEF TriggerManualSync, Send, ShutdownInv, ChannelInv
  <2>3. AbstractLife = "open" /\ abstractRequest[r] = "idle"
    BY <2>2 DEF AbstractLife, abstractRequest, AbstractRequest
  <2>4. \/ rstate' = [rstate EXCEPT ![r] = "queued"] /\ rexec' = rexec
        \/ rstate' = [rstate EXCEPT ![r] = "taken"] /\ rexec' = [rexec EXCEPT ![r] = Own]
    BY <1>1, <2>2 DEF TriggerManualSync, Send
  <2>5. \/ abstractRequest' = [abstractRequest EXCEPT ![r] = "queued"]
        \/ abstractRequest' = [abstractRequest EXCEPT ![r] = "own"]
    BY <1>0, <2>4 DEF abstractRequest, AbstractRequest
  <2>6. Contract!Accept(r) \/ Contract!Bypass(r)
    BY <1>0, <2>1, <2>3, <2>5 DEF Contract!Accept, Contract!Bypass
  <2>7. QED
    BY <2>6 DEF ContractStep, Contract!ContractNext
<1>2. CASE AddImmediate(r)
  <2>1. /\ rstate[r] = "idle" /\ cancelKeys({rkey[r]})
        /\ rstate' = [rstate EXCEPT ![r] = "immediate"]
        /\ rexec' = [rexec EXCEPT ![r] = Own]
    BY <1>2 DEF AddImmediate
  <2>2. /\ abstractRequest[r] = "idle"
        /\ abstractRequest' = [abstractRequest EXCEPT ![r] = "own"]
    BY <1>0, <2>1 DEF abstractRequest, AbstractRequest
  <2>3. Contract!Bypass(r)
    BY <1>0, <2>1, <2>2, CancelWithdraws DEF Contract!Bypass
  <2>4. QED
    BY <2>3 DEF ContractStep, Contract!ContractNext
<1>3. CASE RefuseManualSync(r) \/ CallerReturns(r)
  <2>1. UNCHANGED <<abstractCall, abstractRequest>>
    BY <1>3, SameCall, SameRequest
    DEF RefuseManualSync, CallerReturns, RestOfRequestStep, timerVars
  <2>2. QED
    BY <1>0, <2>1 DEF ContractStep, Contract!contractVars
<1>4. CASE BeginManualSync(r)
  <2>1. /\ rstate[r] = "taken" /\ cancelKeys({rkey[r]})
        /\ rstate' = [rstate EXCEPT ![r] = "running"] /\ rexec' = rexec
    BY <1>4 DEF BeginManualSync
  <2>2. Contract!Free /\ Contract!Withdraw
    BY <2>1, CancelWithdraws
  <2>3. CASE rexec[r] = Own
    <3>1. UNCHANGED abstractRequest
      BY <1>0, <2>1, <2>3 DEF abstractRequest, AbstractRequest
    <3>2. Contract!WithdrawSome
      BY <1>0, <2>2, <3>1 DEF Contract!WithdrawSome
    <3>3. QED
      BY <3>2 DEF ContractStep, Contract!ContractNext
  <2>4. CASE rexec[r] # Own
    <3>1. /\ abstractRequest[r] = "queued"
          /\ abstractRequest' = [abstractRequest EXCEPT ![r] = "serving"]
      BY <1>0, <2>1, <2>4 DEF abstractRequest, AbstractRequest
    <3>2. Contract!Serve(r)
      BY <1>0, <2>2, <3>1 DEF Contract!Serve
    <3>3. QED
      BY <3>2 DEF ContractStep, Contract!ContractNext
  <2>5. QED
    BY <2>3, <2>4
<1>5. CASE EndManualSync(r)
  <2>1. UNCHANGED abstractCall
    BY <1>5, SameCall DEF EndManualSync, RestOfRequestStep, timerVars
  <2>2. /\ rstate[r] \in {"running", "immediate"} /\ rexec' = rexec
        /\ rstate' = [rstate EXCEPT ![r] = "answered"]
    BY <1>5 DEF EndManualSync
  <2>3. /\ abstractRequest[r] \in {"serving", "own"}
        /\ abstractRequest' = [abstractRequest EXCEPT ![r] = "answered"]
    BY <1>0, <2>2 DEF abstractRequest, AbstractRequest
  <2>4. Contract!Answer(r)
    BY <1>0, <2>1, <2>3 DEF Contract!Answer
  <2>5. QED
    BY <2>4 DEF ContractStep, Contract!ContractNext
<1>6. QED
  BY <1>1, <1>2, <1>3, <1>4, <1>5

\* A request that a worker or a Stop has received, and not begun, still counts
\* as queued.
LEMMA ReceiveIsStutter ==
  ASSUME TypeOK, ShutdownInv, NEW p \in Starters \cup Stoppers, NEW g \in Generations,
         Receive(p, g)
  PROVE  UNCHANGED abstractRequest
<1> DEFINE hd == Head(queue[g])
<1>1. /\ queue[g] \in Seq(Requests) /\ queue[g] # <<>> /\ hd \in Requests
      /\ hd = queue[g][1] /\ 1 \in DOMAIN queue[g]
  BY DEF TypeOK, ChannelTypeOK, Receive
<1>2. /\ rstate[hd] = "queued" /\ p # Own
      /\ rstate' = [rstate EXCEPT ![hd] = "taken"]
      /\ rexec' = [rexec EXCEPT ![hd] = p]
  BY <1>1, DebouncerAssumption DEF ShutdownInv, RequestInv, Receive
<1>3. QED
  BY <1>1, <1>2 DEF TypeOK, RequestTypeOK, abstractRequest, AbstractRequest

LEMMA StartSteps ==
  ASSUME ~Overlap, TypeOK, ShutdownInv, NEW s \in Starters,
         \/ StartEnter(s) \/ StartReset(s) \/ StartLaunch(s)
         \/ WorkerLoop(s) \/ WorkerTake(s) \/ WorkerExit(s)
  PROVE  ContractStep
<1>0. UNCHANGED <<abstractCall, ctxDone>>
  BY SameCall
  DEF StartEnter, StartReset, StartLaunch, RestOfStartStep, WorkerLoop, WorkerTake,
      WorkerExit, RestOfRequestStep, timerVars
<1>1. CASE StartReset(s)
  <2>1. UNCHANGED abstractRequest
    BY <1>1, SameRequest DEF StartReset, RestOfStartStep, requestVars
  <2>2. CASE stopped
    <3>1. startMu = s /\ once.holder = None
      BY <1>1, DebouncerAssumption
      DEF StartReset, ShutdownInv, StartInv, TypeOK, LifeTypeOK
    <3>2. once.done
      BY <2>2, <3>1, DebouncerAssumption
      DEF ShutdownInv, StopInv, Active, AfterFlag, TypeOK, LifeTypeOK
    <3>3. AbstractLife = "closed" /\ AbstractLife' = "open"
      BY <1>1, <2>2, <3>2 DEF StartReset, AbstractLife
    <3>4. Contract!Reopen
      BY <1>0, <2>1, <3>3 DEF Contract!Reopen
    <3>5. QED
      BY <3>4 DEF ContractStep, Contract!ContractNext
  <2>3. CASE ~stopped
    <3>1. UNCHANGED AbstractLife
      BY <1>1, <2>3, SameLife DEF StartReset
    <3>2. QED
      BY <1>0, <2>1, <3>1 DEF ContractStep, Contract!contractVars
  <2>4. QED
    BY <2>2, <2>3
<1>2. CASE \/ StartEnter(s) \/ StartLaunch(s) \/ WorkerLoop(s) \/ WorkerExit(s)
  <2>1. UNCHANGED <<abstractRequest, AbstractLife>>
    BY <1>2, SameRequest, SameLife
    DEF StartEnter, StartLaunch, RestOfStartStep, WorkerLoop, WorkerExit,
        RestOfRequestStep, requestVars, lifeVars
  <2>2. QED
    BY <1>0, <2>1 DEF ContractStep, Contract!contractVars
<1>3. CASE WorkerTake(s)
  <2>1. Receive(s, wgen[s]) /\ wgen[s] \in Generations
    BY <1>3 DEF WorkerTake, TypeOK, ChannelTypeOK
  <2>2. UNCHANGED abstractRequest
    BY <2>1, ReceiveIsStutter
  <2>3. UNCHANGED AbstractLife
    BY <1>3, SameLife DEF WorkerTake, RestOfRequestStep, lifeVars
  <2>4. QED
    BY <1>0, <2>2, <2>3 DEF ContractStep, Contract!contractVars
<1>4. QED
  BY <1>1, <1>2, <1>3

LEMMA StopSteps ==
  ASSUME ~Overlap, TypeOK, MutexInv, ShutdownInv, NEW p \in Stoppers,
         StopEnter(p) \/ StopStep(p)
  PROVE  ContractStep
<1>1. CASE StopEnter(p)
  <2>1. UNCHANGED <<tstate, rstate, rexec, stopped, ctxDone>>
    BY <1>1 DEF StopEnter, timerVars, requestVars
  <2>2. CASE once' = once
    BY <2>1, <2>2, SameCall, SameRequest, SameLife DEF ContractStep, Contract!contractVars
  <2>3. CASE once' # once
    <3>1. ~once.done /\ once' = [done |-> FALSE, holder |-> p]
      BY <1>1, <2>3 DEF StopEnter
    <3>2. once'.done = FALSE
      BY <3>1
    <3>3. UNCHANGED AbstractLife
      BY <2>1, <3>1, <3>2 DEF AbstractLife
    <3>4. QED
      BY <2>1, <3>3, SameCall, SameRequest DEF ContractStep, Contract!contractVars
  <2>4. QED
    BY <2>2, <2>3
<1>2. CASE StopSetStopped(p)
  <2>1. UNCHANGED <<tstate, rstate, rexec, once, ctxDone>> /\ stopped'
    BY <1>2 DEF StopSetStopped, timerVars, requestVars
  <2>2. ~once.done
    BY <1>2, DebouncerAssumption
    DEF StopSetStopped, StopAt, ShutdownInv, StopInv, Active
  <2>3. UNCHANGED <<abstractCall, abstractRequest>>
    BY <2>1, SameCall, SameRequest
  <2>4. AbstractLife \in {"open", "closing"} /\ AbstractLife' = "closing"
    BY <2>1, <2>2 DEF AbstractLife
  <2>5. Contract!BeginClose \/ UNCHANGED Contract!contractVars
    BY <2>1, <2>3, <2>4 DEF Contract!BeginClose, Contract!contractVars
  <2>6. QED
    BY <2>5 DEF ContractStep, Contract!ContractNext
<1>3. CASE StopCancelTimers(p)
  <2>1. cancelKeys(Keys) /\ UNCHANGED <<rstate, rexec, stopped, once, ctxDone>>
    BY <1>3 DEF StopCancelTimers, requestVars
  <2>2. UNCHANGED <<abstractRequest, AbstractLife>>
    BY <2>1, SameRequest, SameLife
  <2>3. Contract!WithdrawSome
    BY <2>1, <2>2, CancelWithdraws DEF Contract!WithdrawSome
  <2>4. QED
    BY <2>3 DEF ContractStep, Contract!ContractNext
<1>4. CASE StopCancelCtx(p)
  <2>1. UNCHANGED <<tstate, rstate, rexec, stopped, once>> /\ ctxDone' = TRUE
    BY <1>4 DEF StopCancelCtx, timerVars, requestVars
  <2>2. stopped /\ ~once.done
    BY <1>4, DebouncerAssumption
    DEF StopCancelCtx, StopAt, ShutdownInv, StopInv, Active, AfterFlag
  <2>3. UNCHANGED <<abstractCall, abstractRequest, AbstractLife>>
    BY <2>1, SameCall, SameRequest, SameLife
  <2>4. AbstractLife = "closing"
    BY <2>2 DEF AbstractLife
  <2>5. Contract!CancelContext
    BY <2>1, <2>3, <2>4 DEF Contract!CancelContext
  <2>6. QED
    BY <2>5 DEF ContractStep, Contract!ContractNext
<1>5. CASE \/ StopClearStarted(p) \/ StopCloseDone(p) \/ StopDrained(p)
           \/ StopCloseQueue(p)
  <2>1. UNCHANGED <<tstate, rstate, rexec, stopped, once, ctxDone>>
    BY <1>5
    DEF StopClearStarted, StopCloseDone, StopDrained, StopCloseQueue, timerVars,
        requestVars
  <2>2. QED
    BY <2>1, SameCall, SameRequest, SameLife DEF ContractStep, Contract!contractVars
<1>6. CASE StopDrain(p)
  <2>1. Receive(p, gen) /\ gen \in Generations /\ UNCHANGED <<tstate, stopped, once, ctxDone>>
    BY <1>6 DEF StopDrain, timerVars, TypeOK, ChannelTypeOK
  <2>2. UNCHANGED abstractRequest
    BY <2>1, ReceiveIsStutter
  <2>3. QED
    BY <2>1, <2>2, SameCall, SameLife DEF ContractStep, Contract!contractVars
<1>7. CASE StopFinish(p)
  <2>1. /\ UNCHANGED <<tstate, rstate, rexec, stopped, ctxDone>>
        /\ stopPc[p] = "wait" /\ \A s \in Starters : ~Alive(s)
        /\ once' = [done |-> TRUE, holder |-> None]
    BY <1>7 DEF StopFinish, StopAt, timerVars, requestVars
  <2>2. stopped /\ ~once.done /\ gen \in queueClosed
    BY <2>1, DebouncerAssumption
    DEF ShutdownInv, StopInv, ChannelInv, Active, AfterFlag
  <2>3. \A q \in Stoppers : stopPc[q] # "drain"
    BY <2>1 DEF ShutdownInv, StopInv, Active
  <2>4. ASSUME NEW r \in Requests PROVE abstractRequest[r] \notin {"queued", "serving"}
    <3>1. rstate[r] # "queued"
      BY <2>2 DEF TypeOK, ChannelTypeOK, ShutdownInv, ChannelInv, RequestInv
    <3>2. Handled(r) => rexec[r] = Own
      BY <2>1, <2>3
      DEF ShutdownInv, RequestInv, Alive, TypeOK, RequestTypeOK, Executors
    <3>3. QED
      BY <3>1, <3>2 DEF Handled, abstractRequest, AbstractRequest
  <2>5. UNCHANGED <<abstractCall, abstractRequest>>
    BY <2>1, SameCall, SameRequest
  <2>6. AbstractLife = "closing" /\ AbstractLife' = "closed"
    <3>1. AbstractLife = "closing"
      BY <2>2 DEF AbstractLife
    <3>2. stopped'
      BY <2>1, <2>2, Zenon
    <3>3. once'.done = TRUE
      BY <2>1
    <3>4. QED
      BY <3>1, <3>2, <3>3 DEF AbstractLife
  <2>7. Contract!EndClose
    BY <2>1, <2>4, <2>5, <2>6 DEF Contract!EndClose
  <2>8. QED
    BY <2>7 DEF ContractStep, Contract!ContractNext
<1>8. QED
  BY <1>1, <1>2, <1>3, <1>4, <1>5, <1>6, <1>7 DEF StopStep

-----------------------------------------------------------------------------
LEMMA ContractInitial == Init => Contract!ContractInit /\ MutexInv
<1> SUFFICES ASSUME Init PROVE Contract!ContractInit /\ MutexInv
  OBVIOUS
<1>1. /\ abstractCall = [t \in Timers |-> "new"]
      /\ abstractRequest = [r \in Requests |-> "idle"]
      /\ AbstractLife = "open"
  BY DEF Init, abstractCall, AbstractCall, abstractRequest, AbstractRequest, AbstractLife
<1>2. MutexInv
  BY DebouncerAssumption DEF Init, MutexInv
<1>3. QED
  BY <1>1, <1>2 DEF Init, Contract!ContractInit

LEMMA ContractSteps ==
  ASSUME ~Overlap, TypeOK, ShutdownInv, MutexInv, [Next]_vars
  PROVE  ContractStep
<1>1. CASE UNCHANGED vars
  <2>1. UNCHANGED <<tstate, rstate, rexec, stopped, once, ctxDone>>
    BY <1>1 DEF vars, timerVars, requestVars, lifeVars
  <2>2. QED
    BY <2>1, SameCall, SameRequest, SameLife DEF ContractStep, Contract!contractVars
<1>2. CASE Next
  BY <1>2, TimerSteps, CancelSteps, RequestSteps, StartSteps, StopSteps DEF Next
<1>3. QED
  BY <1>1, <1>2

\* While Start and Stop are not under way at the same time, the debouncer is one
\* that runs its delayed calls one by one, none once its context is cancelled,
\* and whose shutdown ends with every request it queued answered.
THEOREM ImplementsContractCorrect ==
  ASSUME ~Overlap
  PROVE  Spec => ImplementsContract
<1>1. Init => Contract!ContractInit /\ MutexInv
  BY ContractInitial
<1>2. TypeOK /\ MutexInv /\ [Next]_vars => MutexInv'
  BY MutexNext
<1>3. TypeOK /\ ShutdownInv /\ MutexInv /\ [Next]_vars
        => [Contract!ContractNext]_(Contract!contractVars)
  BY ContractSteps DEF ContractStep
<1>4. Spec => [](TypeOK /\ ShutdownInv /\ NoFatal)
  BY ShutdownAlways
<1>5. QED
  BY <1>1, <1>2, <1>3, <1>4, PTL DEF Spec, ImplementsContract, Contract!ContractSpec
=============================================================================
