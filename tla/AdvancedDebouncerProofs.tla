------------------------ MODULE AdvancedDebouncerProofs ------------------------
(***************************************************************************)
(* What is proved of AdvancedDebouncer for every set of keys, timers,      *)
(* requests and callers and for every setting of the backoff.              *)
(***************************************************************************)
EXTENDS AdvancedDebouncer, BackoffProofs

-----------------------------------------------------------------------------
(* Types.  One lemma per group of variables; a group is typed again after a  *)
(* step that leaves it alone.                                                *)

LEMMA UnchangedTypes ==
  /\ TimerTypeOK /\ UNCHANGED <<timerVars, ctxDone>> => TimerTypeOK'
  /\ ChannelTypeOK /\ UNCHANGED <<channelVars, workerVars>> => ChannelTypeOK'
  /\ LifeTypeOK /\ UNCHANGED <<lifeVars, fatal>> => LifeTypeOK'
  /\ RequestTypeOK /\ UNCHANGED requestVars => RequestTypeOK'
BY DEF TimerTypeOK, timerVars, ChannelTypeOK, channelVars, workerVars, LifeTypeOK,
       lifeVars, RequestTypeOK, requestVars

LEMMA StopTimersType ==
  ASSUME TimerTypeOK, NEW S
  PROVE  StopTimers(S) \in [Timers -> {"unused", "armed", "stopped", "fired", "waiting",
                            "dropping", "entered", "running", "ran", "dropped"}]
BY DEF TimerTypeOK, StopTimers

LEMMA ForgetType ==
  ASSUME NEW map \in [Keys -> Timers \cup {None}], NEW K
  PROVE  Forget(map, K) \in [Keys -> Timers \cup {None}]
BY DEF Forget

LEMMA CancelKeysType ==
  ASSUME TimerTypeOK, NEW K, cancelKeys(K), UNCHANGED ctxDone
  PROVE  TimerTypeOK'
BY StopTimersType, ForgetType DEF TimerTypeOK, cancelKeys

\* The two steps that write d.stopOnce, and those that do not.
LEMMA OnceType ==
  ASSUME LifeTypeOK, NEW d \in BOOLEAN, NEW h \in Stoppers \cup {None},
         once' = [done |-> d, holder |-> h] \/ once' = once
  PROVE  once' \in [done : BOOLEAN, holder : Stoppers \cup {None}]
BY DEF LifeTypeOK

\* The actions on timers.
LEMMA TimerActionsType ==
  ASSUME TypeOK, NEW t \in Timers,
         \/ \E k \in Keys : AddWithContext(t, k)
         \/ CancelOperation(t) \/ Fire(t) \/ TimerGoroutine(t)
  PROVE  TypeOK'
<1>1. CASE \E k \in Keys : AddWithContext(t, k)
  <2> PICK k \in Keys : AddWithContext(t, k)
    BY <1>1
  <2>1. BackoffTypeOK'
    BY NoteActivityType DEF TypeOK, AddWithContext
  <2>2. TimerTypeOK'
    BY StopTimersType DEF TypeOK, TimerTypeOK, AddWithContext
  <2>3. QED
    BY <2>1, <2>2, UnchangedTypes DEF TypeOK, AddWithContext
<1>2. CASE CancelOperation(t)
  <2>1. TimerTypeOK'
    BY <1>2 DEF TypeOK, TimerTypeOK, CancelOperation
  <2>2. QED
    BY <1>2, <2>1, UnchangedTypes, ResetBackoffType DEF TypeOK, CancelOperation
<1>3. CASE Fire(t) \/ TimerGoroutine(t)
  <2>1. TimerTypeOK'
    BY <1>3, ForgetType
    DEF TypeOK, TimerTypeOK, Fire, TimerGoroutine, CheckContext, Drop, Enter, BeginCallback,
        EndCallback, RestOfTimerStep
  <2>2. BackoffTypeOK'
    BY <1>3, ResetBackoffType
    DEF TypeOK, Fire, TimerGoroutine, CheckContext, Drop, Enter, BeginCallback, EndCallback
  <2>3. UNCHANGED <<channelVars, lifeVars, workerVars, requestVars, fatal>>
    BY <1>3
    DEF Fire, TimerGoroutine, CheckContext, Drop, Enter, BeginCallback, EndCallback,
        RestOfTimerStep
  <2>4. QED
    BY <2>1, <2>2, <2>3, UnchangedTypes DEF TypeOK
<1>4. QED
  BY <1>1, <1>2, <1>3

LEMMA CancelType ==
  ASSUME TypeOK, NEW K, Cancel(K)
  PROVE  TypeOK'
<1>1. TimerTypeOK'
  BY CancelKeysType DEF TypeOK, Cancel
<1>2. QED
  BY <1>1, UnchangedTypes, ResetBackoffType DEF TypeOK, Cancel

\* The actions on requests.
LEMMA RequestActionsType ==
  ASSUME TypeOK, NEW r \in Requests,
         \/ TriggerManualSync(r) \/ AddImmediate(r)
         \/ RefuseManualSync(r) \/ CallerReturns(r)
         \/ BeginManualSync(r) \/ EndManualSync(r)
  PROVE  TypeOK'
<1>1. CASE TriggerManualSync(r)
  <2>1. ChannelTypeOK'
    <3>1. Append(queue[gen], r) \in Seq(Requests)
      BY DEF TypeOK, ChannelTypeOK
    <3>2. queue' \in [Generations -> Seq(Requests)]
      BY <1>1, <3>1 DEF TypeOK, ChannelTypeOK, TriggerManualSync, Send
    <3>3. QED
      BY <1>1, <3>2 DEF TypeOK, ChannelTypeOK, TriggerManualSync, Send, workerVars
  <2>2. RequestTypeOK'
    BY <1>1 DEF TypeOK, RequestTypeOK, Executors, TriggerManualSync, Send
  <2>3. LifeTypeOK'
    BY <1>1 DEF TypeOK, LifeTypeOK, lifeVars, TriggerManualSync, Send, RestOfRequestStep
  <2>4. QED
    BY <1>1, <2>1, <2>2, <2>3, UnchangedTypes, ResetBackoffType
    DEF TypeOK, TriggerManualSync, Send, RestOfRequestStep
<1>2. CASE AddImmediate(r)
  <2>1. TimerTypeOK'
    BY <1>2, CancelKeysType DEF TypeOK, AddImmediate
  <2>2. RequestTypeOK'
    BY <1>2 DEF TypeOK, RequestTypeOK, Executors, AddImmediate
  <2>3. QED
    BY <1>2, <2>1, <2>2, UnchangedTypes, ResetBackoffType DEF TypeOK, AddImmediate
<1>3. CASE RefuseManualSync(r) \/ CallerReturns(r)
  <2>1. RequestTypeOK'
    BY <1>3 DEF TypeOK, RequestTypeOK, RefuseManualSync, CallerReturns
  <2>2. QED
    BY <1>3, <2>1, UnchangedTypes, ResetBackoffType
    DEF TypeOK, RefuseManualSync, CallerReturns, RestOfRequestStep, lifeVars
<1>4. CASE BeginManualSync(r)
  <2>1. TimerTypeOK'
    BY <1>4, CancelKeysType DEF TypeOK, BeginManualSync
  <2>2. RequestTypeOK'
    BY <1>4 DEF TypeOK, RequestTypeOK, BeginManualSync
  <2>3. QED
    BY <1>4, <2>1, <2>2, UnchangedTypes, ResetBackoffType DEF TypeOK, BeginManualSync
<1>5. CASE EndManualSync(r)
  <2>1. RequestTypeOK'
    BY <1>5 DEF TypeOK, RequestTypeOK, EndManualSync
  <2>2. ChannelTypeOK'
    BY <1>5 DEF TypeOK, ChannelTypeOK, channelVars, EndManualSync
  <2>3. QED
    BY <1>5, <2>1, <2>2, UnchangedTypes, ResetBackoffType
    DEF TypeOK, EndManualSync, RestOfRequestStep
<1>6. QED
  BY <1>1, <1>2, <1>3, <1>4, <1>5

\* The actions of Start and of its worker.
LEMMA StartActionsType ==
  ASSUME TypeOK, NEW s \in Starters,
         \/ StartEnter(s) \/ StartReset(s) \/ StartLaunch(s)
         \/ WorkerLoop(s) \/ WorkerTake(s) \/ WorkerExit(s)
  PROVE  TypeOK'
<1>1. CASE StartEnter(s) \/ StartReset(s) \/ StartLaunch(s)
  <2>0. once' \in [done : BOOLEAN, holder : Stoppers \cup {None}]
    <3>1. once' = [done |-> FALSE, holder |-> None] \/ once' = once
      BY <1>1 DEF StartEnter, StartReset, StartLaunch
    <3>2. QED
      BY <3>1, OnceType DEF TypeOK
  <2>1. LifeTypeOK'
    BY <1>1, <2>0
    DEF TypeOK, LifeTypeOK, StartEnter, StartReset, StartLaunch, RestOfStartStep
  <2>2. ChannelTypeOK'
    <3>1. gen' \in Generations
      BY <1>1, DebouncerAssumption
      DEF TypeOK, ChannelTypeOK, Generations, StartEnter, StartReset, StartLaunch
    <3>2. UNCHANGED <<queue, doneClosed, queueClosed, wgen>>
      BY <1>1 DEF workerVars, StartEnter, StartReset, StartLaunch, RestOfStartStep
    <3>3. worker' \in [Starters -> {"none", "loop", "select", "handling", "exited"}]
      BY <1>1 DEF TypeOK, ChannelTypeOK, workerVars, StartEnter, StartReset, StartLaunch
    <3>4. QED
      BY <3>1, <3>2, <3>3 DEF TypeOK, ChannelTypeOK
  <2>3. UNCHANGED <<backoffVars, timerVars, ctxDone, requestVars>>
    BY <1>1 DEF StartEnter, StartReset, StartLaunch, RestOfStartStep
  <2>4. QED
    BY <2>1, <2>2, <2>3, UnchangedTypes, ResetBackoffType DEF TypeOK
<1>2. CASE WorkerLoop(s) \/ WorkerExit(s)
  <2>1. ChannelTypeOK'
    BY <1>2 DEF TypeOK, ChannelTypeOK, channelVars, WorkerLoop, WorkerExit
  <2>2. UNCHANGED <<backoffVars, timerVars, ctxDone, lifeVars, requestVars, fatal>>
    BY <1>2 DEF WorkerLoop, WorkerExit, RestOfRequestStep
  <2>3. QED
    BY <2>1, <2>2, UnchangedTypes, ResetBackoffType DEF TypeOK
<1>3. CASE WorkerTake(s)
  <2>1. queue[wgen[s]] \in Seq(Requests) /\ queue[wgen[s]] # <<>>
    BY <1>3 DEF TypeOK, ChannelTypeOK, WorkerTake, Receive
  <2>2. Head(queue[wgen[s]]) \in Requests /\ Tail(queue[wgen[s]]) \in Seq(Requests)
    BY <2>1
  <2>3. ChannelTypeOK'
    BY <1>3, <2>2 DEF TypeOK, ChannelTypeOK, WorkerTake, Receive
  <2>4. RequestTypeOK'
    BY <1>3, <2>2 DEF TypeOK, RequestTypeOK, Executors, WorkerTake, Receive
  <2>5. QED
    BY <1>3, <2>3, <2>4, UnchangedTypes, ResetBackoffType
    DEF TypeOK, WorkerTake, RestOfRequestStep
<1>4. QED
  BY <1>1, <1>2, <1>3

\* The actions of Stop.
LEMMA StopActionsType ==
  ASSUME TypeOK, NEW p \in Stoppers, StopEnter(p) \/ StopStep(p)
  PROVE  TypeOK'
<1>1. UNCHANGED backoffVars /\ UNCHANGED workerVars
  BY DEF StopEnter, StopStep, StopSetStopped, StopCancelTimers, StopCancelCtx,
         StopClearStarted, StopCloseDone, StopDrain, StopDrained, StopCloseQueue,
         StopFinish, RestOfStopStep
<1>2. BackoffTypeOK'
  BY <1>1, ResetBackoffType DEF TypeOK
<1>3. CASE StopCancelTimers(p)
  <2>1. TimerTypeOK'
    BY <1>3, CancelKeysType DEF TypeOK, StopCancelTimers
  <2>2. LifeTypeOK'
    BY <1>3 DEF TypeOK, LifeTypeOK, StopCancelTimers, StopAt, RestOfStopStep
  <2>3. QED
    BY <1>1, <1>2, <1>3, <2>1, <2>2, UnchangedTypes DEF TypeOK, StopCancelTimers
<1>4. CASE StopDrain(p)
  <2>1. queue[gen] \in Seq(Requests) /\ queue[gen] # <<>>
    BY <1>4 DEF TypeOK, ChannelTypeOK, StopDrain, Receive
  <2>2. Head(queue[gen]) \in Requests /\ Tail(queue[gen]) \in Seq(Requests)
    BY <2>1
  <2>3. ChannelTypeOK'
    BY <1>4, <2>2
    DEF TypeOK, ChannelTypeOK, workerVars, StopDrain, Receive, RestOfStopStep
  <2>4. RequestTypeOK'
    BY <1>4, <2>2 DEF TypeOK, RequestTypeOK, Executors, StopDrain, Receive
  <2>5. QED
    BY <1>2, <1>4, <2>3, <2>4, UnchangedTypes
    DEF TypeOK, StopDrain, RestOfStopStep, lifeVars
<1>5. CASE \/ StopEnter(p) \/ StopSetStopped(p) \/ StopCancelCtx(p)
           \/ StopClearStarted(p) \/ StopDrained(p) \/ StopFinish(p)
  <2>0. once' \in [done : BOOLEAN, holder : Stoppers \cup {None}]
    <3>1. \/ once' = [done |-> FALSE, holder |-> p]
          \/ once' = [done |-> TRUE, holder |-> None]
          \/ once' = once
      BY <1>5
      DEF StopEnter, StopSetStopped, StopCancelCtx, StopClearStarted, StopDrained,
          StopFinish
    <3>2. QED
      BY <3>1, OnceType DEF TypeOK
  <2>1. LifeTypeOK'
    BY <1>5, <2>0
    DEF TypeOK, LifeTypeOK, StopEnter, StopSetStopped, StopCancelCtx, StopClearStarted,
        StopDrained, StopFinish, StopAt, RestOfStopStep
  <2>2. TimerTypeOK'
    BY <1>5
    DEF TypeOK, TimerTypeOK, timerVars, StopEnter, StopSetStopped, StopCancelCtx,
        StopClearStarted, StopDrained, StopFinish
  <2>3. UNCHANGED channelVars /\ UNCHANGED requestVars
    BY <1>5
    DEF StopEnter, StopSetStopped, StopCancelCtx, StopClearStarted, StopDrained,
        StopFinish
  <2>4. QED
    BY <1>1, <1>2, <2>1, <2>2, <2>3, UnchangedTypes DEF TypeOK
<1>6. CASE StopCloseDone(p) \/ StopCloseQueue(p)
  <2>1. LifeTypeOK'
    BY <1>6
    DEF TypeOK, LifeTypeOK, StopCloseDone, StopCloseQueue, StopAt, RestOfStopStep
  <2>2. ChannelTypeOK'
    BY <1>6
    DEF TypeOK, ChannelTypeOK, workerVars, StopCloseDone, StopCloseQueue, RestOfStopStep
  <2>3. UNCHANGED <<timerVars, ctxDone, requestVars>>
    BY <1>6 DEF StopCloseDone, StopCloseQueue
  <2>4. QED
    BY <1>2, <2>1, <2>2, <2>3, UnchangedTypes DEF TypeOK
<1>7. QED
  BY <1>3, <1>4, <1>5, <1>6 DEF StopStep

LEMMA InitType == Init => TypeOK
<1> SUFFICES ASSUME Init PROVE TypeOK
  OBVIOUS
<1>1. TimerTypeOK
  BY DEF Init, TimerTypeOK
<1>2. ChannelTypeOK
  <2>1. 0 \in Generations /\ <<>> \in Seq(Requests)
    BY DebouncerAssumption DEF Generations
  <2>2. QED
    BY <2>1 DEF Init, ChannelTypeOK
<1>3. LifeTypeOK
  BY DEF Init, LifeTypeOK
<1>4. RequestTypeOK
  BY DEF Init, RequestTypeOK, Executors
<1>5. QED
  BY <1>1, <1>2, <1>3, <1>4, BackoffInitType DEF Init, TypeOK

LEMMA NextType == TypeOK /\ [Next]_vars => TypeOK'
<1> SUFFICES ASSUME TypeOK, [Next]_vars PROVE TypeOK'
  OBVIOUS
<1>1. CASE UNCHANGED vars
  BY <1>1, UnchangedTypes, ResetBackoffType DEF TypeOK, vars
<1>2. CASE Next
  BY <1>2, TimerActionsType, CancelType, RequestActionsType, StartActionsType,
     StopActionsType
  DEF Next
<1>3. QED
  BY <1>1, <1>2

\* Every variable of the debouncer keeps its type.
THEOREM TypeCorrect == Spec => []TypeOK
BY InitType, NextType, PTL DEF Spec

-----------------------------------------------------------------------------
(* Timers: d.timers and d.callback describe live timers only.  TypeOK and    *)
(* PendingIsLive are inductive together: that the entry of a key is about a  *)
(* timer of that key is what keeps one key's removal from another's entry.   *)

\* Stopping and forgetting the timers of some keys leaves the others live.
LEMMA CancelKeysLive ==
  ASSUME TimerTypeOK, PendingIsLive, NEW K \in SUBSET Keys, cancelKeys(K)
  PROVE  PendingIsLive'
<1> SUFFICES ASSUME NEW k \in Keys
             PROVE  (/\ callback[k] = timers[k]
                     /\ timers[k] # None =>
                          /\ tkey[timers[k]] = k
                          /\ tstate[timers[k]] \in {"armed", "fired", "waiting",
                                                    "dropping", "entered", "running"})'
  BY DEF PendingIsLive
<1>1. CASE k \in K
  BY <1>1 DEF TimerTypeOK, cancelKeys, Forget
<1>2. CASE k \notin K
  <2>1. timers'[k] = timers[k] /\ callback'[k] = callback[k] /\ tkey' = tkey
    BY <1>2 DEF TimerTypeOK, cancelKeys, Forget
  <2>2. ASSUME timers[k] # None PROVE tstate'[timers[k]] = tstate[timers[k]]
    <3>1. timers[k] \in Timers /\ tkey[timers[k]] = k
      BY <2>2 DEF TimerTypeOK, PendingIsLive
    <3>2. timers[k] \notin {timers[j] : j \in K}
      BY <1>2, <2>2, <3>1 DEF TimerTypeOK, PendingIsLive
    <3>3. QED
      BY <3>1, <3>2 DEF cancelKeys, StopTimers
  <2>3. QED
    BY <2>1, <2>2 DEF PendingIsLive
<1>3. QED
  BY <1>1, <1>2

\* A timer that ends takes the entry of its own key with it.
LEMMA ForgetOwnKeyLive ==
  ASSUME TimerTypeOK, PendingIsLive, NEW t \in Timers, NEW st,
         timers' = Forget(timers, {tkey[t]}), callback' = Forget(callback, {tkey[t]}),
         tstate' = [tstate EXCEPT ![t] = st], tkey' = tkey
  PROVE  PendingIsLive'
BY DEF TimerTypeOK, PendingIsLive, Forget

LEMMA AddLive ==
  ASSUME TimerTypeOK, PendingIsLive, NEW t \in Timers, NEW k \in Keys,
         AddWithContext(t, k)
  PROVE  PendingIsLive'
<1> SUFFICES ASSUME NEW j \in Keys
             PROVE  (/\ callback[j] = timers[j]
                     /\ timers[j] # None =>
                          /\ tkey[timers[j]] = j
                          /\ tstate[timers[j]] \in {"armed", "fired", "waiting",
                                                    "dropping", "entered", "running"})'
  BY DEF PendingIsLive
<1>1. CASE j = k
  BY <1>1, DebouncerAssumption DEF TimerTypeOK, AddWithContext, StopTimers
<1>2. CASE j # k
  <2>1. timers'[j] = timers[j] /\ callback'[j] = callback[j]
    BY <1>2 DEF TimerTypeOK, AddWithContext
  <2>2. ASSUME timers[j] # None
        PROVE  tkey'[timers[j]] = j /\ tstate'[timers[j]] = tstate[timers[j]]
    <3>1. timers[j] \in Timers /\ tkey[timers[j]] = j /\ timers[j] # t
      BY <2>2 DEF TimerTypeOK, PendingIsLive, AddWithContext
    <3>2. timers[j] # timers[k]
      BY <1>2, <2>2, <3>1 DEF PendingIsLive
    <3>3. QED
      BY <3>1, <3>2 DEF TimerTypeOK, AddWithContext, StopTimers
  <2>3. QED
    BY <2>1, <2>2 DEF PendingIsLive
<1>3. QED
  BY <1>1, <1>2

\* The steps that touch none of the variables PendingIsLive reads.
LEMMA UnchangedLive ==
  ASSUME PendingIsLive, UNCHANGED <<timers, callback, tstate, tkey>>
  PROVE  PendingIsLive'
BY DEF PendingIsLive

LEMMA NextLive == TypeOK /\ PendingIsLive /\ [Next]_vars => PendingIsLive'
<1> SUFFICES ASSUME TypeOK, PendingIsLive, [Next]_vars PROVE PendingIsLive'
  OBVIOUS
<1>0. TimerTypeOK
  BY DEF TypeOK
<1>1. ASSUME NEW t \in Timers, NEW k \in Keys, AddWithContext(t, k)
      PROVE  PendingIsLive'
  BY <1>0, <1>1, AddLive
<1>2. ASSUME NEW t \in Timers,
             Fire(t) \/ CheckContext(t) \/ Enter(t) \/ BeginCallback(t)
      PROVE  PendingIsLive'
  BY <1>0, <1>2
  DEF TimerTypeOK, PendingIsLive, Fire, CheckContext, Enter, BeginCallback, RestOfTimerStep
<1>3. ASSUME NEW t \in Timers, Drop(t) \/ EndCallback(t)
      PROVE  PendingIsLive'
  BY <1>0, <1>3, ForgetOwnKeyLive DEF Drop, EndCallback, RestOfTimerStep
<1>4. ASSUME NEW K \in {{k} : k \in Keys} \cup {Keys}, Cancel(K)
      PROVE  PendingIsLive'
  BY <1>0, <1>4, CancelKeysLive DEF Cancel
<1>5. ASSUME NEW r \in Requests, BeginManualSync(r)
      PROVE  PendingIsLive'
  <2>1. {rkey[r]} \in SUBSET Keys
    BY DEF TypeOK, RequestTypeOK
  <2>2. QED
    BY <1>0, <1>5, <2>1, CancelKeysLive DEF BeginManualSync
<1>6. ASSUME NEW r \in Requests, AddImmediate(r)
      PROVE  PendingIsLive'
  <2>1. {rkey[r]} \in SUBSET Keys
    BY DEF TypeOK, RequestTypeOK
  <2>2. QED
    BY <1>0, <1>6, <2>1, CancelKeysLive DEF AddImmediate
<1>7. ASSUME NEW p \in Stoppers, StopCancelTimers(p)
      PROVE  PendingIsLive'
  BY <1>0, <1>7, CancelKeysLive DEF StopCancelTimers
<1>8. ASSUME NEW t \in Timers, CancelOperation(t)
      PROVE  PendingIsLive'
  BY <1>8, UnchangedLive DEF CancelOperation
<1>9. ASSUME NEW r \in Requests,
             \/ TriggerManualSync(r)
             \/ RefuseManualSync(r) \/ CallerReturns(r) \/ EndManualSync(r)
      PROVE  PendingIsLive'
  BY <1>9, UnchangedLive
  DEF TriggerManualSync, Send, RefuseManualSync, CallerReturns, EndManualSync,
      RestOfRequestStep, timerVars
<1>10. ASSUME NEW s \in Starters,
              \/ StartEnter(s) \/ StartReset(s) \/ StartLaunch(s)
              \/ WorkerLoop(s) \/ WorkerTake(s) \/ WorkerExit(s)
       PROVE  PendingIsLive'
  BY <1>10, UnchangedLive
  DEF StartEnter, StartReset, StartLaunch, RestOfStartStep, WorkerLoop, WorkerTake,
      WorkerExit, RestOfRequestStep, timerVars
<1>11. ASSUME NEW p \in Stoppers,
              \/ StopEnter(p) \/ StopSetStopped(p) \/ StopCancelCtx(p)
              \/ StopClearStarted(p) \/ StopCloseDone(p) \/ StopDrain(p)
              \/ StopDrained(p) \/ StopCloseQueue(p) \/ StopFinish(p)
       PROVE  PendingIsLive'
  BY <1>11, UnchangedLive
  DEF StopEnter, StopSetStopped, StopCancelCtx, StopClearStarted, StopCloseDone,
      StopDrain, StopDrained, StopCloseQueue, StopFinish, timerVars
<1>12. CASE UNCHANGED vars
  BY <1>12, UnchangedLive DEF vars, timerVars
<1>13. QED
  BY <1>1, <1>2, <1>3, <1>4, <1>5, <1>6, <1>7, <1>8, <1>9, <1>10, <1>11, <1>12
  DEF Next, TimerGoroutine, StopStep

\* Pending() and Cancel are about live callbacks: at any time the two maps hold
\* the same keys, each with a timer of that key that has still to finish.
THEOREM PendingCorrect == Spec => []PendingIsLive
<1>1. Init => PendingIsLive
  BY DEF Init, PendingIsLive
<1>2. QED
  BY <1>1, InitType, NextType, NextLive, PTL DEF Spec

-----------------------------------------------------------------------------
(* Shutdown, with Start and Stop kept apart.  None of the properties is      *)
(* inductive: what follows is how far each Stop and each Start has come, and *)
(* what that says about the flag, the Once, the channels and the requests.   *)

Active(p)    == stopPc[p] \notin {"idle", "returned"}
AfterFlag(p) == stopPc[p] \notin {"idle", "setStopped", "returned"}
Handled(r)   == rstate[r] \in {"taken", "running"}

\* The Stop under way holds the Once; the flag is set from its first step on
\* until a Start takes it back.
StopInv ==
  /\ \A p \in Stoppers : Active(p) <=> once.holder = p
  /\ once.done => stopped /\ once.holder = None
  /\ stopped => once.done \/ \E p \in Stoppers : AfterFlag(p)
  /\ \A p \in Stoppers : AfterFlag(p) => stopped

\* A Start under way holds startMu and keeps every Stop out; past its reset the
\* debouncer is not stopped, and it launches its worker last.
StartInv ==
  /\ \A s \in Starters : startPc[s] \in {"reset", "launch"} <=> startMu = s
  /\ startMu # None => once.holder = None
  /\ \A s \in Starters : startPc[s] = "launch" => ~stopped
  /\ \A s \in Starters : startPc[s] # "returned" => worker[s] = "none"
  /\ once.done => \A s \in Starters : ~Alive(s)

\* Only the queue the field holds may have content; it is closed exactly from
\* the step of Stop that closes it to the Start that replaces it.
ChannelInv ==
  /\ \A g \in queueClosed : g <= gen
  /\ ~stopped => gen \notin queueClosed
  /\ \A p \in Stoppers : stopPc[p] = "wait" => gen \in queueClosed
  /\ once.done => gen \in queueClosed
  /\ \A p \in Stoppers : stopPc[p] = "closeQueue" => queue[gen] = <<>>
  /\ \A g \in Generations : g # gen \/ g \in queueClosed => queue[g] = <<>>

\* Every request is where its state says.
RequestInv ==
  /\ \A g \in Generations : \A i, j \in DOMAIN queue[g] :
       /\ rstate[queue[g][i]] = "queued"
       /\ i # j => queue[g][i] # queue[g][j]
  /\ \A r \in Requests : rstate[r] = "queued" => \E i \in DOMAIN queue[gen] : queue[gen][i] = r
  /\ \A r \in Requests : Handled(r) =>
       /\ rexec[r] # None
       /\ rexec[r] \in Starters => worker[rexec[r]] = "handling"
       /\ rexec[r] \in Stoppers => stopPc[rexec[r]] = "drain"
  /\ \A r \in Requests : rstate[r] = "immediate" => rexec[r] = Own
  /\ \A r, q \in Requests :
       Handled(r) /\ Handled(q) /\ rexec[r] = rexec[q] /\ rexec[r] \in Starters => r = q

ShutdownInv == StopInv /\ StartInv /\ ChannelInv /\ RequestInv

\* Steps that touch none of this: the timers' and the callers'.
LEMMA ShutdownFrame ==
  ASSUME ShutdownInv, UNCHANGED <<channelVars, lifeVars, workerVars, rstate, rexec>>
  PROVE  ShutdownInv'
<1>1. StopInv'
  BY DEF ShutdownInv, StopInv, Active, AfterFlag, lifeVars
<1>2. StartInv'
  BY DEF ShutdownInv, StartInv, Alive, lifeVars, workerVars
<1>3. ChannelInv'
  BY DEF ShutdownInv, ChannelInv, channelVars, lifeVars
<1>4. RequestInv'
  BY DEF ShutdownInv, RequestInv, Handled, channelVars, lifeVars, workerVars
<1>5. QED
  BY <1>1, <1>2, <1>3, <1>4 DEF ShutdownInv

\* Requests move along; Start and Stop stay where they are.
LEMMA ShutdownRequests ==
  ASSUME TypeOK, ShutdownInv, NEW r \in Requests,
         \/ TriggerManualSync(r) \/ AddImmediate(r)
         \/ BeginManualSync(r) \/ EndManualSync(r)
  PROVE  ShutdownInv' /\ (fatal = "none" => fatal' = "none")
<1>0. /\ UNCHANGED <<gen, doneClosed, queueClosed, lifeVars>>
      /\ fatal = "none" => fatal' = "none"
  BY DEF TriggerManualSync, Send, AddImmediate, BeginManualSync, EndManualSync,
         RestOfRequestStep, channelVars, ShutdownInv, ChannelInv
<1>1. StopInv'
  BY <1>0 DEF ShutdownInv, StopInv, Active, AfterFlag, lifeVars
<1>2. CASE TriggerManualSync(r)
  <2>0. /\ gen \in Generations /\ queue[gen] \in Seq(Requests)
        /\ queue \in [Generations -> Seq(Requests)]
        /\ rstate \in [Requests -> {"idle", "queued", "taken", "running", "immediate",
                                    "answered"}]
        /\ rexec \in [Requests -> Executors]
    BY DEF TypeOK, ChannelTypeOK, RequestTypeOK
  <2>1. gen \notin queueClosed /\ rstate[r] = "idle"
    BY <1>2 DEF TriggerManualSync, Send, ShutdownInv, ChannelInv
  <2>2. StartInv'
    BY <1>0, <1>2
    DEF ShutdownInv, StartInv, Alive, lifeVars, workerVars, TriggerManualSync, Send
  <2>3. CASE queue' = queue
    <3>1. /\ rstate' = [rstate EXCEPT ![r] = "taken"]
          /\ rexec' = [rexec EXCEPT ![r] = Own]
          /\ UNCHANGED workerVars
      BY <1>2, <2>0, <2>1, <2>3 DEF TriggerManualSync, Send
    <3>2. ChannelInv'
      BY <1>0, <2>3 DEF ShutdownInv, ChannelInv, lifeVars
    <3>3. RequestInv'
      BY <1>0, <2>0, <2>1, <2>3, <3>1, DebouncerAssumption
      DEF ShutdownInv, RequestInv, Handled, lifeVars, workerVars
    <3>4. QED
      BY <1>0, <1>1, <2>2, <3>2, <3>3 DEF ShutdownInv
  <2>4. CASE queue' # queue
    <3>1. /\ rstate' = [rstate EXCEPT ![r] = "queued"]
          /\ queue' = [queue EXCEPT ![gen] = Append(queue[gen], r)]
          /\ UNCHANGED <<rexec, workerVars>>
          /\ ~stopped
      BY <1>2, <2>1, <2>4 DEF TriggerManualSync, Send
    <3>2. ChannelInv'
      <4>1. \A p \in Stoppers : stopPc[p] # "closeQueue"
        BY <3>1 DEF ShutdownInv, StopInv, AfterFlag
      <4>2. QED
        BY <1>0, <2>0, <2>1, <3>1, <4>1 DEF ShutdownInv, ChannelInv, lifeVars
    <3>3. RequestInv'
      <4>1. \A i \in DOMAIN queue[gen] : queue[gen][i] # r
        BY <2>0, <2>1 DEF ShutdownInv, RequestInv
      <4>2. /\ DOMAIN queue'[gen] = 1 .. Len(queue[gen]) + 1
            /\ queue'[gen][Len(queue[gen]) + 1] = r
            /\ \A i \in DOMAIN queue[gen] : queue'[gen][i] = queue[gen][i]
            /\ DOMAIN queue[gen] = 1 .. Len(queue[gen])
            /\ Len(queue[gen]) \in Nat
        BY <2>0, <3>1
      <4>3. \A g \in Generations : g # gen => queue'[g] = <<>>
        BY <2>0, <3>1 DEF ShutdownInv, ChannelInv
      <4>4. \A g \in Generations : \A i, j \in DOMAIN queue'[g] :
              /\ rstate'[queue'[g][i]] = "queued"
              /\ i # j => queue'[g][i] # queue'[g][j]
        <5> SUFFICES ASSUME NEW i \in DOMAIN queue'[gen], NEW j \in DOMAIN queue'[gen]
                     PROVE  /\ rstate'[queue'[gen][i]] = "queued"
                            /\ i # j => queue'[gen][i] # queue'[gen][j]
          BY <4>3
        <5>1. \A k \in DOMAIN queue[gen] : rstate[queue[gen][k]] = "queued"
          BY <2>0 DEF ShutdownInv, RequestInv
        <5>2. \A k, l \in DOMAIN queue[gen] : k # l => queue[gen][k] # queue[gen][l]
          BY <2>0 DEF ShutdownInv, RequestInv
        <5>3. \A k \in DOMAIN queue[gen] : queue[gen][k] \in Requests
          BY <2>0
        <5>4. rstate'[queue'[gen][i]] = "queued"
          BY <2>0, <3>1, <4>1, <4>2, <5>1, <5>3
        <5>5. ASSUME i # j PROVE queue'[gen][i] # queue'[gen][j]
          <6>1. CASE i = Len(queue[gen]) + 1
            BY <4>1, <4>2, <5>5, <6>1
          <6>2. CASE j = Len(queue[gen]) + 1
            BY <4>1, <4>2, <5>5, <6>2
          <6>3. CASE i \in DOMAIN queue[gen] /\ j \in DOMAIN queue[gen]
            BY <4>2, <5>2, <5>5, <6>3
          <6>4. QED
            BY <4>2, <6>1, <6>2, <6>3
        <5>6. QED
          BY <5>4, <5>5
      <4>5. \A q \in Requests : rstate'[q] = "queued" =>
              \E i \in DOMAIN queue'[gen] : queue'[gen][i] = q
        <5> SUFFICES ASSUME NEW q \in Requests, rstate'[q] = "queued"
                     PROVE  \E i \in DOMAIN queue'[gen] : queue'[gen][i] = q
          OBVIOUS
        <5>1. CASE q = r
          BY <4>2, <5>1
        <5>2. CASE q # r
          <6>1. PICK i \in DOMAIN queue[gen] : queue[gen][i] = q
            BY <2>0, <3>1, <5>2 DEF ShutdownInv, RequestInv
          <6>2. QED
            BY <4>2, <6>1
        <5>3. QED
          BY <5>1, <5>2
      <4>6. \A q \in Requests : Handled(q)' => Handled(q) /\ q # r
        BY <2>0, <2>1, <3>1 DEF Handled
      <4>7. QED
        BY <1>0, <3>1, <4>4, <4>5, <4>6
        DEF ShutdownInv, RequestInv, lifeVars, workerVars
    <3>4. QED
      BY <1>0, <1>1, <2>2, <3>2, <3>3 DEF ShutdownInv
  <2>5. QED
    BY <2>3, <2>4
<1>3. CASE AddImmediate(r) \/ BeginManualSync(r)
  <2>1. /\ UNCHANGED <<queue, workerVars>>
        /\ rstate[r] \in {"idle", "taken"}
        /\ \/ /\ rstate' = [rstate EXCEPT ![r] = "immediate"]
              /\ rexec' = [rexec EXCEPT ![r] = Own]
           \/ /\ rstate[r] = "taken" /\ rstate' = [rstate EXCEPT ![r] = "running"]
              /\ rexec' = rexec
    BY <1>3 DEF AddImmediate, BeginManualSync, channelVars
  <2>2. StartInv'
    BY <1>0, <2>1 DEF ShutdownInv, StartInv, Alive, lifeVars, workerVars
  <2>3. ChannelInv'
    BY <1>0, <2>1 DEF ShutdownInv, ChannelInv, lifeVars
  <2>4. RequestInv'
    <3>1. /\ \A q \in Requests : q # r => rstate'[q] = rstate[q] /\ rexec'[q] = rexec[q]
          /\ rstate'[r] # "queued"
          /\ Handled(r)' => Handled(r) /\ rexec'[r] = rexec[r]
      BY <2>1 DEF TypeOK, RequestTypeOK, Handled
    <3>2. \A q \in Requests : Handled(q)' => Handled(q) /\ rexec'[q] = rexec[q]
      BY <3>1 DEF Handled
    <3>3. \A g \in Generations : \A i \in DOMAIN queue[g] :
            queue[g][i] # r /\ queue[g][i] \in Requests
      BY <2>1 DEF TypeOK, ChannelTypeOK, ShutdownInv, RequestInv
    <3>4. \A q \in Requests : rstate'[q] = "immediate" => rexec'[q] = Own
      BY <2>1 DEF TypeOK, RequestTypeOK, ShutdownInv, RequestInv
    <3>5. \A q \in Requests : rstate'[q] = "queued" <=> rstate[q] = "queued"
      BY <2>1 DEF TypeOK, RequestTypeOK
    <3>6. \A g \in Generations : \A i \in DOMAIN queue[g] : rstate'[queue[g][i]] = "queued"
      BY <3>3, <3>5 DEF ShutdownInv, RequestInv
    <3>7. QED
      BY <1>0, <2>1, <3>2, <3>4, <3>5, <3>6
      DEF ShutdownInv, RequestInv, lifeVars, workerVars
  <2>5. QED
    BY <1>0, <1>1, <2>2, <2>3, <2>4 DEF ShutdownInv
<1>4. CASE EndManualSync(r)
  <2>1. /\ UNCHANGED <<queue, rexec>>
        /\ rstate[r] \in {"running", "immediate"}
        /\ rstate' = [rstate EXCEPT ![r] = "answered"]
        /\ worker' = [s \in Starters |-> IF rexec[r] = s THEN "loop" ELSE worker[s]]
    BY <1>4 DEF EndManualSync, channelVars
  <2>2. ASSUME NEW s \in Starters, rexec[r] = s PROVE Handled(r) /\ worker[s] = "handling"
    BY <2>1, <2>2, DebouncerAssumption DEF ShutdownInv, RequestInv, Handled
  <2>3. StartInv'
    BY <1>0, <2>1, <2>2 DEF TypeOK, ChannelTypeOK, ShutdownInv, StartInv, Alive, lifeVars
  <2>4. ChannelInv'
    BY <1>0, <2>1 DEF ShutdownInv, ChannelInv, lifeVars
  <2>5. RequestInv'
    <3>1. \A q \in Requests : Handled(q)' => Handled(q) /\ q # r
      BY <2>1 DEF TypeOK, RequestTypeOK, Handled
    <3>2. \A q \in Requests : rstate'[q] # "answered" => rstate'[q] = rstate[q]
      BY <2>1 DEF TypeOK, RequestTypeOK
    <3>3. \A g \in Generations : \A i \in DOMAIN queue[g] :
            queue[g][i] # r /\ queue[g][i] \in Requests
      BY <2>1 DEF TypeOK, ChannelTypeOK, ShutdownInv, RequestInv
    <3>4. \A q \in Requests : q # r => rstate'[q] = rstate[q]
      BY <2>1 DEF TypeOK, RequestTypeOK
    <3>5. ASSUME NEW q \in Requests, Handled(q)', rexec[q] \in Starters
          PROVE  worker'[rexec[q]] = "handling"
      <4>1. rexec[q] # rexec[r]
        BY <2>2, <3>1, <3>5 DEF ShutdownInv, RequestInv
      <4>2. QED
        BY <2>1, <3>1, <3>5, <4>1 DEF ShutdownInv, RequestInv
    <3>6. QED
      BY <1>0, <2>1, <3>1, <3>2, <3>3, <3>4, <3>5 DEF ShutdownInv, RequestInv, lifeVars
  <2>6. QED
    BY <1>0, <1>1, <2>3, <2>4, <2>5 DEF ShutdownInv
<1>5. QED
  BY <1>0, <1>2, <1>3, <1>4

\* What becomes of a request that the goroutine p receives, p being idle.
LEMMA ReceiveRequests ==
  ASSUME TypeOK, ShutdownInv, NEW p \in Starters \cup Stoppers, NEW g \in Generations,
         Receive(p, g), \A r \in Requests : Handled(r) => rexec[r] # p
  PROVE  /\ ChannelInv /\ UNCHANGED <<stopped, once, stopPc>> => ChannelInv'
         /\ \A i, j \in DOMAIN queue'[g] :
              /\ rstate'[queue'[g][i]] = "queued"
              /\ i # j => queue'[g][i] # queue'[g][j]
         /\ \A h \in Generations : h # g => queue'[h] = <<>>
         /\ \A r \in Requests : rstate'[r] = "queued" =>
              \E i \in DOMAIN queue'[gen] : queue'[gen][i] = r
         /\ \A r \in Requests : Handled(r)' =>
              \/ Handled(r) /\ rexec'[r] = rexec[r]
              \/ rstate[r] = "queued" /\ rexec'[r] = p /\ r = Head(queue[g])
         /\ \A r \in Requests : rstate'[r] = "immediate" => rexec'[r] = Own
<1> DEFINE hd == Head(queue[g])
<1>1. /\ queue[g] \in Seq(Requests) /\ queue[g] # <<>> /\ hd \in Requests
      /\ Tail(queue[g]) \in Seq(Requests)
  BY DEF TypeOK, ChannelTypeOK, Receive
<1>2. /\ queue' = [queue EXCEPT ![g] = Tail(queue[g])]
      /\ rstate' = [rstate EXCEPT ![hd] = "taken"]
      /\ rexec' = [rexec EXCEPT ![hd] = p]
      /\ UNCHANGED <<gen, doneClosed, queueClosed>>
  BY DEF Receive
<1>3. g = gen /\ gen \notin queueClosed
  BY <1>1 DEF ShutdownInv, ChannelInv
<1>4. /\ Len(queue[g]) \in Nat \ {0}
      /\ DOMAIN queue[g] = 1 .. Len(queue[g])
      /\ hd = queue[g][1]
      /\ DOMAIN Tail(queue[g]) = 1 .. Len(queue[g]) - 1
      /\ \A i \in 1 .. Len(queue[g]) - 1 : Tail(queue[g])[i] = queue[g][i + 1]
  BY <1>1
<1>5. queue'[g] = Tail(queue[g]) /\ \A h \in Generations : h # g => queue'[h] = queue[h]
  BY <1>2 DEF TypeOK, ChannelTypeOK
<1>6. /\ rstate'[hd] = "taken" /\ rexec'[hd] = p /\ rstate[hd] = "queued"
      /\ \A r \in Requests : r # hd => rstate'[r] = rstate[r] /\ rexec'[r] = rexec[r]
  BY <1>1, <1>2, <1>4 DEF TypeOK, RequestTypeOK, ShutdownInv, RequestInv
<1>7. ASSUME NEW i \in DOMAIN queue'[g], NEW j \in DOMAIN queue'[g]
      PROVE  /\ rstate'[queue'[g][i]] = "queued"
             /\ i # j => queue'[g][i] # queue'[g][j]
  <2>1. /\ i + 1 \in DOMAIN queue[g] /\ j + 1 \in DOMAIN queue[g] /\ 1 \in DOMAIN queue[g]
        /\ queue'[g][i] = queue[g][i + 1] /\ queue'[g][j] = queue[g][j + 1]
        /\ i + 1 # 1 /\ (i # j => i + 1 # j + 1)
    BY <1>4, <1>5, <1>7
  <2>2. queue[g][i + 1] # hd /\ rstate[queue[g][i + 1]] = "queued"
    BY <1>4, <2>1 DEF ShutdownInv, RequestInv
  <2>3. queue[g][i + 1] \in Requests
    BY <1>1, <2>1
  <2>4. rstate'[queue'[g][i]] = "queued"
    BY <1>6, <2>1, <2>2, <2>3
  <2>5. i # j => queue'[g][i] # queue'[g][j]
    BY <2>1 DEF ShutdownInv, RequestInv
  <2>6. QED
    BY <2>4, <2>5
<1>8. \A h \in Generations : h # g => queue'[h] = <<>>
  BY <1>3, <1>5 DEF ShutdownInv, ChannelInv
<1>9. ASSUME NEW r \in Requests, rstate'[r] = "queued"
      PROVE  \E i \in DOMAIN queue'[gen] : queue'[gen][i] = r
  <2>1. r # hd /\ rstate[r] = "queued"
    BY <1>6, <1>9
  <2>2. PICK i \in DOMAIN queue[gen] : queue[gen][i] = r
    BY <2>1 DEF ShutdownInv, RequestInv
  <2>3. i \in 1 .. Len(queue[g]) /\ i # 1
    BY <1>3, <1>4, <2>1, <2>2
  <2>4. i - 1 \in 1 .. Len(queue[g]) - 1 /\ Tail(queue[g])[i - 1] = queue[g][i]
    <3>1. i - 1 \in 1 .. Len(queue[g]) - 1 /\ (i - 1) + 1 = i
      BY <1>4, <2>3
    <3>2. QED
      BY <1>4, <3>1
  <2>5. QED
    BY <1>3, <1>4, <1>5, <2>2, <2>4
<1>10. \A r \in Requests : Handled(r)' =>
         \/ Handled(r) /\ rexec'[r] = rexec[r]
         \/ rstate[r] = "queued" /\ rexec'[r] = p /\ r = hd
  BY <1>6 DEF Handled
<1>11. \A r \in Requests : rstate'[r] = "immediate" => rexec'[r] = Own
  BY <1>6 DEF ShutdownInv, RequestInv
<1>12. ASSUME ChannelInv, UNCHANGED <<stopped, once, stopPc>> PROVE ChannelInv'
  <2>1. \A h \in Generations : h # gen \/ h \in queueClosed => queue'[h] = <<>>
    BY <1>3, <1>8
  <2>2. \A q \in Stoppers : stopPc[q] # "closeQueue"
    BY <1>1, <1>3 DEF ShutdownInv, ChannelInv
  <2>3. QED
    BY <1>2, <1>12, <2>1, <2>2 DEF ChannelInv
<1>13. QED
  BY <1>7, <1>8, <1>9, <1>10, <1>11, <1>12

\* The worker.
LEMMA ShutdownWorker ==
  ASSUME TypeOK, ShutdownInv, NEW s \in Starters,
         WorkerLoop(s) \/ WorkerTake(s) \/ WorkerExit(s)
  PROVE  ShutdownInv' /\ fatal' = fatal
<1>0. /\ UNCHANGED <<gen, doneClosed, queueClosed, lifeVars, fatal>>
      /\ worker[s] \in {"loop", "select"}
      /\ worker' \in [Starters -> {"none", "loop", "select", "handling", "exited"}]
      /\ worker'[s] # "none" /\ \A q \in Starters : q # s => worker'[q] = worker[q]
  BY DEF TypeOK, ChannelTypeOK, WorkerLoop, WorkerTake, WorkerExit, Receive,
         RestOfRequestStep, channelVars
<1>1. StopInv'
  BY <1>0 DEF ShutdownInv, StopInv, Active, AfterFlag, lifeVars
<1>2. StartInv'
  BY <1>0 DEF ShutdownInv, StartInv, Alive, lifeVars
<1>3. \A r \in Requests : Handled(r) => rexec[r] # s
  BY <1>0 DEF ShutdownInv, RequestInv
<1>4. CASE WorkerTake(s)
  <2>1. Receive(s, wgen[s]) /\ wgen[s] \in Generations /\ worker'[s] = "handling"
    BY <1>4 DEF WorkerTake, TypeOK, ChannelTypeOK
  <2>2. ChannelInv'
    BY <1>0, <1>3, <2>1, ReceiveRequests DEF ShutdownInv, lifeVars
  <2>3. RequestInv'
    <3>1. \A g \in Generations : \A i, j \in DOMAIN queue'[g] :
            /\ rstate'[queue'[g][i]] = "queued"
            /\ i # j => queue'[g][i] # queue'[g][j]
      BY <1>3, <2>1, ReceiveRequests
    <3>2. \A r \in Requests : rstate'[r] = "queued" =>
            \E i \in DOMAIN queue'[gen'] : queue'[gen'][i] = r
      BY <1>0, <1>3, <2>1, ReceiveRequests
    <3>3. \A r \in Requests : Handled(r)' =>
            \/ Handled(r) /\ rexec'[r] = rexec[r]
            \/ rstate[r] = "queued" /\ rexec'[r] = s /\ r = Head(queue[wgen[s]])
      BY <1>3, <2>1, ReceiveRequests
    <3>4. \A r \in Requests : rstate'[r] = "immediate" => rexec'[r] = Own
      BY <1>3, <2>1, ReceiveRequests
    <3>5. \A r \in Requests : Handled(r)' =>
            /\ rexec'[r] # None
            /\ rexec'[r] \in Starters => worker'[rexec'[r]] = "handling"
            /\ rexec'[r] \in Stoppers => stopPc'[rexec'[r]] = "drain"
      BY <1>0, <1>3, <2>1, <3>3, DebouncerAssumption
      DEF ShutdownInv, RequestInv, lifeVars
    <3>6. \A r, q \in Requests :
            Handled(r)' /\ Handled(q)' /\ rexec'[r] = rexec'[q] /\ rexec'[r] \in Starters
              => r = q
      BY <1>3, <3>3 DEF ShutdownInv, RequestInv
    <3>7. QED
      BY <3>1, <3>2, <3>4, <3>5, <3>6 DEF RequestInv
  <2>4. QED
    BY <1>0, <1>1, <1>2, <2>2, <2>3 DEF ShutdownInv
<1>5. CASE WorkerLoop(s) \/ WorkerExit(s)
  <2>1. UNCHANGED <<channelVars, rstate, rexec>>
    BY <1>5 DEF WorkerLoop, WorkerExit, requestVars
  <2>2. ChannelInv'
    BY <1>0, <2>1 DEF ShutdownInv, ChannelInv, channelVars, lifeVars
  <2>3. RequestInv'
    BY <1>0, <1>3, <2>1 DEF ShutdownInv, RequestInv, Handled, channelVars, lifeVars
  <2>4. QED
    BY <1>0, <1>1, <1>2, <2>2, <2>3 DEF ShutdownInv
<1>6. QED
  BY <1>4, <1>5

\* Start.
LEMMA ShutdownStart ==
  ASSUME ~Overlap, TypeOK, ShutdownInv, NEW s \in Starters,
         StartEnter(s) \/ StartReset(s) \/ StartLaunch(s)
  PROVE  ShutdownInv' /\ fatal' = fatal
<1>0. UNCHANGED <<queue, doneClosed, queueClosed, stopPc, rstate, rexec, fatal>>
  BY DEF StartEnter, StartReset, StartLaunch, RestOfStartStep, requestVars
<1>1. CASE StartEnter(s)
  <2>1. UNCHANGED <<gen, stopped, once, worker>> /\ once.holder = None
    BY <1>1 DEF StartEnter, workerVars
  <2>2. StopInv'
    BY <1>0, <2>1 DEF ShutdownInv, StopInv, Active, AfterFlag
  <2>3. StartInv'
    BY <1>0, <1>1, <2>1, DebouncerAssumption
    DEF TypeOK, LifeTypeOK, StartEnter, ShutdownInv, StartInv, Alive
  <2>4. ChannelInv'
    BY <1>0, <2>1 DEF ShutdownInv, ChannelInv
  <2>5. RequestInv'
    BY <1>0, <2>1 DEF ShutdownInv, RequestInv, Handled
  <2>6. QED
    BY <1>0, <2>2, <2>3, <2>4, <2>5 DEF ShutdownInv
<1>2. CASE StartLaunch(s)
  <2>1. /\ UNCHANGED <<gen, stopped, once>> /\ startMu = s /\ startMu' = None
        /\ worker[s] = "none" /\ worker' = [worker EXCEPT ![s] = "loop"]
        /\ startPc[s] = "launch" /\ startPc' = [startPc EXCEPT ![s] = "returned"]
        /\ ~stopped
    BY <1>2 DEF StartLaunch, ShutdownInv, StartInv
  <2>2. StopInv'
    BY <1>0, <2>1 DEF ShutdownInv, StopInv, Active, AfterFlag
  <2>3. StartInv'
    BY <1>0, <2>1, DebouncerAssumption
    DEF TypeOK, LifeTypeOK, ChannelTypeOK, ShutdownInv, StartInv, StopInv, Alive
  <2>4. ChannelInv'
    BY <1>0, <2>1 DEF ShutdownInv, ChannelInv
  <2>5. RequestInv'
    BY <1>0, <2>1 DEF TypeOK, ChannelTypeOK, ShutdownInv, RequestInv, Handled
  <2>6. QED
    BY <1>0, <2>2, <2>3, <2>4, <2>5 DEF ShutdownInv
<1>3. CASE StartReset(s)
  <2>1. /\ UNCHANGED <<startMu, worker>> /\ startMu = s /\ once.holder = None
        /\ startPc[s] = "reset" /\ startPc' = [startPc EXCEPT ![s] = "launch"]
        /\ ~stopped'
    BY <1>3, DebouncerAssumption
    DEF StartReset, workerVars, ShutdownInv, StartInv, TypeOK, LifeTypeOK
  <2>2. \A p \in Stoppers : ~Active(p) /\ ~AfterFlag(p)
    BY <2>1, DebouncerAssumption DEF ShutdownInv, StopInv, Active, AfterFlag
  <2>3. /\ once'.done = FALSE /\ once'.holder = None
    BY <1>3, <2>1 DEF StartReset, ShutdownInv, StopInv, TypeOK, LifeTypeOK
  <2>4. StopInv'
    BY <1>0, <2>1, <2>2, <2>3, DebouncerAssumption
    DEF StopInv, Active, AfterFlag
  <2>5. StartInv'
    BY <1>0, <2>1, <2>3 DEF TypeOK, LifeTypeOK, ShutdownInv, StartInv, Alive
  <2>6. \/ /\ gen' = gen /\ ~stopped
        \/ /\ gen' = gen + 1 /\ gen \in queueClosed
    BY <1>3, <2>2 DEF StartReset, ShutdownInv, StopInv, ChannelInv
  <2>7. gen \in Nat /\ queueClosed \subseteq Generations /\ gen \in Generations
    BY DebouncerAssumption DEF TypeOK, ChannelTypeOK, Generations
  <2>8. \A g \in Generations : gen' # gen => queue[g] = <<>>
    BY <2>6, <2>7 DEF ShutdownInv, ChannelInv
  <2>9. ChannelInv'
    <3>1. \A g \in queueClosed : g <= gen'
      BY <2>6, <2>7, DebouncerAssumption DEF ShutdownInv, ChannelInv, Generations
    <3>2. gen' \notin queueClosed
      BY <2>6, <2>7 DEF ShutdownInv, ChannelInv
    <3>3. \A p \in Stoppers : stopPc[p] \notin {"wait", "closeQueue"}
      BY <2>2 DEF Active
    <3>4. \A g \in Generations : g # gen' \/ g \in queueClosed => queue[g] = <<>>
      BY <2>8 DEF ShutdownInv, ChannelInv
    <3>5. QED
      BY <1>0, <2>3, <3>1, <3>2, <3>3, <3>4 DEF ChannelInv
  <2>10. RequestInv'
    <3>1. \A r \in Requests : rstate[r] = "queued" =>
            \E i \in DOMAIN queue[gen'] : queue[gen'][i] = r
      <4>1. CASE gen' = gen
        BY <4>1 DEF ShutdownInv, RequestInv
      <4>2. CASE gen' # gen
        BY <2>7, <2>8, <4>2 DEF ShutdownInv, RequestInv
      <4>3. QED
        BY <4>1, <4>2
    <3>2. QED
      BY <1>0, <2>1, <3>1 DEF ShutdownInv, RequestInv, Handled
  <2>11. QED
    BY <1>0, <2>4, <2>5, <2>9, <2>10 DEF ShutdownInv
<1>4. QED
  BY <1>1, <1>2, <1>3

\* Stop.
LEMMA ShutdownStop ==
  ASSUME ~Overlap, TypeOK, ShutdownInv, NEW p \in Stoppers, StopEnter(p) \/ StopStep(p)
  PROVE  ShutdownInv' /\ (fatal = "none" => fatal' = "none")
<1>0. UNCHANGED <<gen, startMu, startPc, worker>>
  BY DEF StopEnter, StopStep, StopSetStopped, StopCancelTimers, StopCancelCtx,
         StopClearStarted, StopCloseDone, StopDrain, StopDrained, StopCloseQueue,
         StopFinish, Receive, RestOfStopStep, channelVars, workerVars
<1>a. /\ stopPc \in [Stoppers -> {"idle", "setStopped", "cancelTimers", "cancelCtx",
                   "clearStarted", "closeDone", "drain", "closeQueue",
                   "wait", "returned"}]
      /\ None \notin Stoppers /\ gen \in Generations
      /\ startMu \in Starters \cup {None} /\ None \notin Starters
  BY DebouncerAssumption DEF TypeOK, LifeTypeOK, ChannelTypeOK
<1>b. ASSUME NEW q \in Stoppers, NEW r \in Stoppers, Active(q), Active(r) PROVE q = r
  BY <1>b DEF ShutdownInv, StopInv
<1>1. CASE StopEnter(p)
  <2>1. /\ UNCHANGED <<queue, queueClosed, stopped, rstate, rexec, fatal>>
        /\ stopPc[p] = "idle"
        /\ \/ /\ once.done /\ once' = once
              /\ stopPc' = [stopPc EXCEPT ![p] = "returned"]
           \/ /\ ~once.done /\ once.holder = None
              /\ once' = [done |-> FALSE, holder |-> p]
              /\ stopPc' = [stopPc EXCEPT ![p] = "setStopped"]
    BY <1>1 DEF StopEnter, StopAt, channelVars, requestVars
  <2>2. startMu = None
    BY <1>1 DEF StopEnter
  <2>3. StopInv'
    BY <1>a, <2>1 DEF ShutdownInv, StopInv, Active, AfterFlag
  <2>4. StartInv'
    BY <1>0, <1>a, <2>1, <2>2 DEF ShutdownInv, StartInv, Alive
  <2>5. ChannelInv'
    BY <1>0, <1>a, <2>1 DEF ShutdownInv, ChannelInv
  <2>6. RequestInv'
    BY <1>0, <1>a, <2>1 DEF ShutdownInv, RequestInv, Handled
  <2>7. QED
    BY <2>1, <2>3, <2>4, <2>5, <2>6 DEF ShutdownInv
<1>2. CASE StopSetStopped(p)
  <2>1. /\ UNCHANGED <<queue, queueClosed, once, rstate, rexec, fatal>>
        /\ stopPc[p] = "setStopped" /\ stopPc' = [stopPc EXCEPT ![p] = "cancelTimers"]
        /\ stopped'
    BY <1>2 DEF StopSetStopped, StopAt, channelVars, requestVars
  <2>2. once.holder = p /\ startMu = None
    BY <1>a, <2>1 DEF ShutdownInv, StopInv, StartInv, Active
  <2>3. StopInv'
    BY <1>a, <2>1 DEF ShutdownInv, StopInv, Active, AfterFlag
  <2>4. StartInv'
    BY <1>0, <1>a, <2>1, <2>2 DEF ShutdownInv, StartInv, Alive
  <2>5. ChannelInv'
    BY <1>0, <1>a, <2>1 DEF ShutdownInv, ChannelInv
  <2>6. RequestInv'
    BY <1>0, <1>a, <2>1 DEF ShutdownInv, RequestInv, Handled
  <2>7. QED
    BY <2>1, <2>3, <2>4, <2>5, <2>6 DEF ShutdownInv
<1>3. CASE \/ StopCancelTimers(p) \/ StopCancelCtx(p) \/ StopClearStarted(p)
           \/ StopCloseDone(p)
  <2>1. /\ UNCHANGED <<queue, queueClosed, once, stopped, rstate, rexec, fatal>>
        /\ stopPc[p] \in {"cancelTimers", "cancelCtx", "clearStarted", "closeDone"}
        /\ \E next \in {"cancelCtx", "clearStarted", "closeDone", "drain"} :
             stopPc' = [stopPc EXCEPT ![p] = next]
    BY <1>3
    DEF StopCancelTimers, StopCancelCtx, StopClearStarted, StopCloseDone, StopAt,
        channelVars, requestVars
  <2>2. StopInv'
    BY <1>a, <2>1 DEF ShutdownInv, StopInv, Active, AfterFlag
  <2>3. StartInv'
    BY <1>0, <2>1 DEF ShutdownInv, StartInv, Alive
  <2>4. ChannelInv'
    BY <1>0, <1>a, <2>1 DEF ShutdownInv, ChannelInv
  <2>5. RequestInv'
    BY <1>0, <1>a, <2>1 DEF ShutdownInv, RequestInv, Handled
  <2>6. QED
    BY <2>1, <2>2, <2>3, <2>4, <2>5 DEF ShutdownInv
<1>4. CASE StopDrain(p)
  <2>1. /\ UNCHANGED <<once, stopped, stopPc, fatal>> /\ Receive(p, gen)
        /\ stopPc[p] = "drain"
        /\ \A r \in Requests : Handled(r) => rexec[r] # p
    BY <1>4 DEF StopDrain, Busy, Handled
  <2>2. StopInv'
    BY <2>1 DEF ShutdownInv, StopInv, Active, AfterFlag
  <2>3. StartInv'
    BY <1>0, <2>1 DEF ShutdownInv, StartInv, Alive
  <2>4. ChannelInv'
    BY <1>a, <2>1, ReceiveRequests DEF ShutdownInv
  <2>5. RequestInv'
    <3>1. \A g \in Generations : \A i, j \in DOMAIN queue'[g] :
            /\ rstate'[queue'[g][i]] = "queued"
            /\ i # j => queue'[g][i] # queue'[g][j]
      BY <1>a, <2>1, ReceiveRequests
    <3>2. \A r \in Requests : rstate'[r] = "queued" =>
            \E i \in DOMAIN queue'[gen'] : queue'[gen'][i] = r
      BY <1>0, <1>a, <2>1, ReceiveRequests
    <3>3. \A r \in Requests : Handled(r)' =>
            \/ Handled(r) /\ rexec'[r] = rexec[r]
            \/ rstate[r] = "queued" /\ rexec'[r] = p /\ r = Head(queue[gen])
      BY <1>a, <2>1, ReceiveRequests
    <3>4. \A r \in Requests : rstate'[r] = "immediate" => rexec'[r] = Own
      BY <1>a, <2>1, ReceiveRequests
    <3>5. \A r \in Requests : Handled(r)' =>
            /\ rexec'[r] # None
            /\ rexec'[r] \in Starters => worker'[rexec'[r]] = "handling"
            /\ rexec'[r] \in Stoppers => stopPc'[rexec'[r]] = "drain"
      BY <1>0, <1>a, <2>1, <3>3, DebouncerAssumption DEF ShutdownInv, RequestInv
    <3>6. \A r, q \in Requests :
            Handled(r)' /\ Handled(q)' /\ rexec'[r] = rexec'[q] /\ rexec'[r] \in Starters
              => r = q
      BY <2>1, <3>3, DebouncerAssumption DEF ShutdownInv, RequestInv
    <3>7. QED
      BY <3>1, <3>2, <3>4, <3>5, <3>6 DEF RequestInv
  <2>6. QED
    BY <2>1, <2>2, <2>3, <2>4, <2>5 DEF ShutdownInv
<1>5. CASE StopDrained(p)
  <2>1. /\ UNCHANGED <<queue, queueClosed, once, stopped, rstate, rexec, fatal>>
        /\ stopPc[p] = "drain" /\ stopPc' = [stopPc EXCEPT ![p] = "closeQueue"]
        /\ queue[gen] = <<>>
        /\ \A r \in Requests : Handled(r) => rexec[r] # p
    BY <1>5 DEF StopDrained, StopAt, Busy, Handled, channelVars, requestVars
  <2>2. StopInv'
    BY <1>a, <2>1 DEF ShutdownInv, StopInv, Active, AfterFlag
  <2>3. StartInv'
    BY <1>0, <2>1 DEF ShutdownInv, StartInv, Alive
  <2>4. ChannelInv'
    BY <1>0, <1>a, <2>1 DEF ShutdownInv, ChannelInv
  <2>5. RequestInv'
    BY <1>0, <1>a, <2>1 DEF ShutdownInv, RequestInv, Handled
  <2>6. QED
    BY <2>1, <2>2, <2>3, <2>4, <2>5 DEF ShutdownInv
<1>6. CASE StopCloseQueue(p)
  <2>1. /\ UNCHANGED <<queue, once, stopped, rstate, rexec, fatal>>
        /\ stopPc[p] = "closeQueue" /\ stopPc' = [stopPc EXCEPT ![p] = "wait"]
        /\ queueClosed' = queueClosed \cup {gen}
        /\ queue[gen] = <<>> /\ stopped
    BY <1>6
    DEF StopCloseQueue, StopAt, requestVars, ShutdownInv, ChannelInv, StopInv, AfterFlag
  <2>2. StopInv'
    BY <1>a, <2>1 DEF ShutdownInv, StopInv, Active, AfterFlag
  <2>3. StartInv'
    BY <1>0, <2>1 DEF ShutdownInv, StartInv, Alive
  <2>4. ChannelInv'
    BY <1>0, <1>a, <2>1, DebouncerAssumption DEF ShutdownInv, ChannelInv, Generations
  <2>5. RequestInv'
    BY <1>0, <1>a, <2>1 DEF ShutdownInv, RequestInv, Handled
  <2>6. QED
    BY <2>1, <2>2, <2>3, <2>4, <2>5 DEF ShutdownInv
<1>7. CASE StopFinish(p)
  <2>1. /\ UNCHANGED <<queue, queueClosed, stopped, rstate, rexec>>
        /\ stopPc[p] = "wait" /\ stopPc' = [stopPc EXCEPT ![p] = "returned"]
        /\ once' = [done |-> TRUE, holder |-> None]
        /\ fatal' = IF once.holder = None THEN "unlockOfUnlockedMutex" ELSE fatal
        /\ \A s \in Starters : ~Alive(s)
    BY <1>7 DEF StopFinish, StopAt, channelVars, requestVars
  <2>2. once.holder = p /\ stopped /\ gen \in queueClosed
    BY <1>a, <2>1 DEF ShutdownInv, StopInv, ChannelInv, Active, AfterFlag
  <2>3. StopInv'
    BY <1>a, <1>b, <2>1, <2>2 DEF ShutdownInv, StopInv, Active, AfterFlag
  <2>4. StartInv'
    BY <1>0, <2>1 DEF ShutdownInv, StartInv, Alive
  <2>5. ChannelInv'
    BY <1>0, <1>a, <2>1, <2>2 DEF ShutdownInv, ChannelInv
  <2>6. RequestInv'
    BY <1>0, <1>a, <2>1 DEF ShutdownInv, RequestInv, Handled
  <2>7. QED
    BY <1>a, <2>1, <2>2, <2>3, <2>4, <2>5, <2>6 DEF ShutdownInv
<1>8. QED
  BY <1>1, <1>2, <1>3, <1>4, <1>5, <1>6, <1>7 DEF StopStep

LEMMA ShutdownInit == Init => ShutdownInv /\ NoFatal
<1> SUFFICES ASSUME Init PROVE ShutdownInv /\ NoFatal
  OBVIOUS
<1>1. StopInv
  BY DebouncerAssumption DEF Init, StopInv, Active, AfterFlag
<1>2. StartInv
  BY DebouncerAssumption DEF Init, StartInv, Alive
<1>3. ChannelInv
  BY DEF Init, ChannelInv
<1>4. RequestInv
  BY DEF Init, RequestInv, Handled
<1>5. QED
  BY <1>1, <1>2, <1>3, <1>4 DEF Init, ShutdownInv, NoFatal

LEMMA ShutdownNext ==
  ASSUME ~Overlap, TypeOK, ShutdownInv, NoFatal, [Next]_vars
  PROVE  ShutdownInv' /\ NoFatal'
<1>1. ASSUME \/ \E t \in Timers : \/ \E k \in Keys : AddWithContext(t, k)
                                 \/ CancelOperation(t) \/ Fire(t) \/ TimerGoroutine(t)
             \/ \E K : Cancel(K)
             \/ \E r \in Requests : RefuseManualSync(r) \/ CallerReturns(r)
             \/ UNCHANGED vars
      PROVE  UNCHANGED <<channelVars, lifeVars, workerVars, rstate, rexec, fatal>>
  BY <1>1
  DEF AddWithContext, CancelOperation, Fire, TimerGoroutine, CheckContext, Drop,
      Enter, BeginCallback, EndCallback, RestOfTimerStep, Cancel, RefuseManualSync,
      CallerReturns, RestOfRequestStep, vars, requestVars
<1>2. QED
  BY <1>1, ShutdownFrame, ShutdownRequests, ShutdownWorker, ShutdownStart, ShutdownStop
  DEF Next, NoFatal

LEMMA ShutdownAlways ==
  ASSUME ~Overlap
  PROVE  Spec => [](TypeOK /\ ShutdownInv /\ NoFatal)
<1>1. Init => TypeOK /\ ShutdownInv /\ NoFatal
  BY InitType, ShutdownInit
<1>2. TypeOK /\ ShutdownInv /\ NoFatal /\ [Next]_vars
        => (TypeOK /\ ShutdownInv /\ NoFatal)'
  BY NextType, ShutdownNext
<1>3. QED
  BY <1>1, <1>2, PTL DEF Spec

\* While Start and Stop are not under way at the same time, no caller sends on a
\* closed channel and the Once unlocks the mutex it locked.
THEOREM NoFatalCorrect ==
  ASSUME ~Overlap
  PROVE  Spec => []NoFatal
BY ShutdownAlways, PTL

\* A request that waits is at one place of the current queue, and nothing else is
\* there; every other queue, and one that was closed, is empty.
THEOREM QueuedOnceCorrect ==
  ASSUME ~Overlap
  PROVE  Spec => []QueuedOnce
<1>1. ASSUME TypeOK, ShutdownInv PROVE QueuedOnce
  <2>1. gen \in Generations /\ queue[gen] \in Seq(Requests)
    BY <1>1 DEF TypeOK, ChannelTypeOK
  <2>2. \A r \in Requests :
          rstate[r] = "queued" <=> \E i \in DOMAIN queue[gen] : queue[gen][i] = r
    BY <1>1, <2>1 DEF ShutdownInv, RequestInv
  <2>3. IsInjective(queue[gen])
    BY <1>1, <2>1 DEF ShutdownInv, RequestInv, IsInjective
  <2>4. \A g \in Generations : g # gen \/ g \in queueClosed => queue[g] = <<>>
    BY <1>1 DEF ShutdownInv, ChannelInv
  <2>5. QED
    BY <2>2, <2>3, <2>4 DEF QueuedOnce
<1>2. TypeOK /\ ShutdownInv /\ NoFatal => QueuedOnce
  BY <1>1
<1>3. QED
  BY <1>2, ShutdownAlways, PTL

\* Once Stop has returned, no worker is alive and every request it accepted was
\* answered, but for those the full queue left to goroutines of their own.
THEOREM ShutdownCorrect ==
  ASSUME ~Overlap
  PROVE  Spec => []ShutdownIsComplete
<1>1. ASSUME TypeOK, ShutdownInv, ShutDown PROVE ShutdownIsComplete
  <2>1. \A s \in Starters : ~Alive(s)
    BY <1>1 DEF ShutDown, ShutdownInv, StartInv
  <2>2. ASSUME NEW r \in Requests PROVE rstate[r] # "queued"
    <3>1. gen \in Generations /\ queue[gen] = <<>>
      BY <1>1 DEF ShutDown, TypeOK, ChannelTypeOK, ShutdownInv, ChannelInv
    <3>2. QED
      BY <1>1, <3>1 DEF ShutdownInv, RequestInv
  <2>3. ASSUME NEW r \in Requests, Handled(r) PROVE rexec[r] = Own
    <3>1. \A p \in Stoppers : stopPc[p] # "drain"
      BY <1>1, DebouncerAssumption DEF ShutDown, ShutdownInv, StopInv, Active
    <3>2. rexec[r] \notin Starters
      BY <1>1, <2>1, <2>3 DEF ShutdownInv, RequestInv, Alive
    <3>3. QED
      BY <1>1, <2>3, <3>1, <3>2
      DEF ShutdownInv, RequestInv, TypeOK, RequestTypeOK, Executors
  <2>4. QED
    BY <2>1, <2>2, <2>3 DEF ShutdownIsComplete, Handled
<1>2. TypeOK /\ ShutdownInv /\ NoFatal => ShutdownIsComplete
  BY <1>1 DEF ShutdownIsComplete
<1>3. QED
  BY <1>2, ShutdownAlways, PTL
=============================================================================
