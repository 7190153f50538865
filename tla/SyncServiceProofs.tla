--------------------------- MODULE SyncServiceProofs ---------------------------
(***************************************************************************)
(* What is proved of SyncService, and with it of StatusManager, for every  *)
(* number of calls of Start, Stop and ManualSync and of delayed calls.     *)
(***************************************************************************)
EXTENDS SyncService, TLAPS

\* Places of a call of Start, of a call of Stop, and of either.
Active(c) == pc[c] \notin OverCall
DebouncerPcs == {"cancelAll", "stopDebouncer", "cancelTimers", "cancelCtx", "endDebouncer"}
StartPcs == {"idle", "watcher", "status", "watch", "unstatus", "loop", "state", "unwatch",
             "resetOnce", "started", "refused", "halfway", "undone"} \cup DebouncerPcs
ClosedPcs == {"unwatch", "close", "endOnce", "await", "store"}
ShutPcs == {"once", "status"} \cup DebouncerPcs \cup ClosedPcs
StopPcs == {"idle", "nothing", "join", "joined", "stopped"} \cup ShutPcs

-----------------------------------------------------------------------------
(* Types.                                                                    *)

LEMMA ContractTypes ==
  ASSUME ContractTypeOK,
         \/ \E c \in Calls : Submit(c) \/ Begin(c) \/ Finish(c)
         \/ WithdrawSome
         \/ \E r \in Requests : Accept(r) \/ Bypass(r) \/ Serve(r) \/ Answer(r)
         \/ BeginClose \/ CancelContext \/ EndClose
         \/ UNCHANGED contractVars
  PROVE  ContractTypeOK'
<1> USE DEF ContractTypeOK
<1>1. CASE WithdrawSome
  BY <1>1 DEF WithdrawSome, Withdraw
<1>2. ASSUME NEW c \in Calls, Submit(c)
      PROVE  ContractTypeOK'
  BY <1>2 DEF Submit
<1>3. ASSUME NEW c \in Calls, Begin(c) \/ Finish(c)
      PROVE  ContractTypeOK'
  BY <1>3 DEF Begin, Finish
<1>4. ASSUME NEW r \in Requests, Bypass(r) \/ Serve(r)
      PROVE  ContractTypeOK'
  <2>1. call' \in [Calls -> {"new", "pending", "running", "over"}]
    BY <1>4 DEF Bypass, Serve, Withdraw
  <2>2. QED
    BY <1>4, <2>1 DEF Bypass, Serve
<1>5. ASSUME NEW r \in Requests, Accept(r) \/ Answer(r)
      PROVE  ContractTypeOK'
  BY <1>5 DEF Accept, Answer
<1>6. CASE BeginClose \/ CancelContext \/ EndClose
  BY <1>6 DEF BeginClose, CancelContext, EndClose
<1>7. CASE UNCHANGED contractVars
  BY <1>7 DEF contractVars
<1>8. QED
  BY <1>1, <1>2, <1>3, <1>4, <1>5, <1>6, <1>7

LEMMA StatusTypes ==
  ASSUME StatusTypeOK, NEW c \in Clients, StatusCall(c) \/ AcceptLoop(c)
  PROVE  StatusTypeOK'
<1> USE DEF StatusTypeOK, StatusAt
<1>1. CASE StatusStart(c) \/ StatusStop(c)
  BY <1>1 DEF StatusStart, StatusStop
<1>2. CASE StatusListen(c) \/ StatusServe(c)
  BY <1>2 DEF StatusListen, StatusServe
<1>3. CASE StatusSignal(c)
  <2>1. smOnce' \in [done : BOOLEAN, holder : Clients \cup {Nobody}]
    <3>1. smOnce' = smOnce \/ smOnce' = [done |-> FALSE, holder |-> c]
      BY <1>3 DEF StatusSignal
    <3>2. [done |-> FALSE, holder |-> c] \in [done : BOOLEAN, holder : Clients \cup {Nobody}]
      OBVIOUS
    <3>3. QED
      BY <3>1, <3>2
  <2>2. smDone' \in BOOLEAN
    BY <1>3 DEF StatusSignal
  <2>3. QED
    BY <1>3, <2>1, <2>2 DEF StatusSignal
<1>4. CASE StatusWait(c) \/ StatusClose(c)
  BY <1>4 DEF StatusWait, StatusClose, serverVars
<1>5. CASE StatusRemove(c)
  BY <1>5 DEF StatusRemove
<1>6. CASE AcceptLoop(c)
  BY <1>6 DEF AcceptLoop, AcceptCheck, AcceptDeadline, AcceptReturns, AcceptStep
<1>7. QED
  BY <1>1, <1>2, <1>3, <1>4, <1>5, <1>6 DEF StatusCall

\* A step of a sync, of the goroutine that runs it, or of the debouncer.
SyncStep ==
  \/ \E c \in Calls : BeginCall(c)
  \/ \E r \in Requests : CheckRunning(r) \/ RequestSync(r)
  \/ \E x \in Syncs : Sync(x)
  \/ DebouncerWithdraws

\* What such a step cannot reach.
LEMMA SyncsApart ==
  ASSUME SyncStep
  PROVE  UNCHANGED <<serverVars, smPc, smPanic, serviceVars, loop, pc, fatal, life, cancelled>>
<1> USE DEF RestOfSyncStep, contractVars
<1>1. CASE \E c \in Calls : BeginCall(c)
  BY <1>1 DEF BeginCall, Begin
<1>2. CASE \E r \in Requests : CheckRunning(r) \/ RequestSync(r)
  BY <1>2 DEF CheckRunning, RequestSync, Accept, Bypass
<1>3. CASE \E x \in Syncs : Sync(x)
  BY <1>3 DEF Sync, ServeRequest, Serve, ReportSyncing, AskContext, GitReturns, ReportResult,
    EndSync, Finish, Answer
<1>4. CASE DebouncerWithdraws
  BY <1>4 DEF DebouncerWithdraws, WithdrawSome
<1>5. QED
  BY <1>1, <1>2, <1>3, <1>4 DEF SyncStep

LEMMA SyncTypes ==
  ASSUME TypeOK, SyncStep
  PROVE  TypeOK'
<1>1. ContractTypeOK'
  <2>1. CASE \E c \in Calls : BeginCall(c)
    BY <2>1, ContractTypes DEF TypeOK, BeginCall
  <2>2. CASE \E r \in Requests : CheckRunning(r) \/ RequestSync(r)
    BY <2>2, ContractTypes DEF TypeOK, CheckRunning, RequestSync
  <2>3. CASE \E x \in Syncs : Sync(x)
    BY <2>3, ContractTypes DEF TypeOK, Sync, ServeRequest, ReportSyncing, AskContext, GitReturns,
      ReportResult, EndSync
  <2>4. CASE DebouncerWithdraws
    BY <2>4, ContractTypes DEF TypeOK, DebouncerWithdraws
  <2>5. QED
    BY <2>1, <2>2, <2>3, <2>4 DEF SyncStep
<1>2. reported' \in {"starting", "running", "syncing", "stopping", "error"}
  BY DEF TypeOK, StatusTypeOK, SyncStep, BeginCall, CheckRunning, RequestSync, Sync, ServeRequest,
    ReportSyncing, AskContext, GitReturns, ReportResult, EndSync, DebouncerWithdraws, SetState
<1>3. syncPc' \in [Syncs -> {"none", "checked", "status", "ask", "git", "gone", "error",
                             "done", "over"}]
  BY DEF TypeOK, ServiceTypeOK, SyncStep, BeginCall, CheckRunning, RequestSync, Sync,
    ServeRequest, ReportSyncing, AskContext, GitReturns, ReportResult, EndSync,
    DebouncerWithdraws, SyncAt
<1>4. QED
  BY <1>1, <1>2, <1>3, SyncsApart DEF TypeOK, StatusTypeOK, ServiceTypeOK, serverVars, serviceVars

LEMMA LoopTypes ==
  ASSUME TypeOK, NEW s \in Starters, EventLoop(s)
  PROVE  TypeOK'
<1>1. ContractTypeOK'
  BY ContractTypes DEF TypeOK, EventLoop, LoopTop, LoopSelect, LoopEvent, LoopAdd, LoopError
<1>2. UNCHANGED <<statusVars, serviceVars, pc, syncPc, fatal>>
  BY DEF EventLoop, LoopTop, LoopSelect, LoopEvent, LoopAdd, LoopError, LoopStep
<1>3. loop' \in [Starters -> {"none", "top", "select", "event", "adding", "error", "exited"}]
  BY DEF TypeOK, ServiceTypeOK, EventLoop, LoopTop, LoopSelect, LoopEvent, LoopAdd, LoopError, LoopStep
<1>4. QED
  BY <1>1, <1>2, <1>3 DEF TypeOK, StatusTypeOK, ServiceTypeOK, statusVars, serverVars, serviceVars

LEMMA DebouncerTypes ==
  ASSUME TypeOK, NEW c \in Clients, StopTheDebouncer(c)
  PROVE  TypeOK'
<1>1. ContractTypeOK'
  BY ContractTypes DEF TypeOK, StopTheDebouncer, CancelAll, StopDebouncer, CancelTimers, CancelCtx,
    EndDebouncer
<1>2. \E here, next \in DebouncerPcs \cup {"resetOnce", "unwatch"} : Step(c, here, next)
  BY DEF StopTheDebouncer, CancelAll, StopDebouncer, CancelTimers, CancelCtx, EndDebouncer,
    AfterDebouncer, DebouncerPcs
<1>3. QED
  BY <1>1, <1>2 DEF StopTheDebouncer, Step, TypeOK, StatusTypeOK, ServiceTypeOK, serverVars,
    DebouncerPcs

LEMMA StartTypes ==
  ASSUME TypeOK, NEW s \in Starters, StartBegin(s) \/ StartStep(s)
  PROVE  TypeOK'
<1> USE ServiceAssumption DEF ServiceAssumption, RestOfStart, Step, CallStatus, SetState, TypeOK,
          StatusTypeOK, ServiceTypeOK, serverVars
<1>1. ContractTypeOK'
  BY ContractTypes DEF StartBegin, StartStep, StartWatcher, StartStatus, StartWatch, StartUnstatus,
    StartLoop, StartState, StartUnwatch, StartResetOnce
<1>2. CASE StartBegin(s) \/ StartWatcher(s) \/ StartStatus(s)
  BY <1>1, <1>2 DEF StartBegin, StartWatcher, StartStatus
<1>3. CASE StartWatch(s) \/ StartUnstatus(s) \/ StartLoop(s) \/ StartState(s)
  BY <1>1, <1>3 DEF StartWatch, StartUnstatus, StartLoop, StartState
<1>4. CASE StartUnwatch(s)
  BY <1>1, <1>4 DEF StartUnwatch
<1>5. CASE StartResetOnce(s)
  BY <1>1, <1>5 DEF StartResetOnce
<1>6. QED
  BY <1>2, <1>3, <1>4, <1>5 DEF StartStep

LEMMA StopTypes ==
  ASSUME TypeOK, NEW p \in Stoppers, StopBegin(p) \/ StopStep(p)
  PROVE  TypeOK'
<1> USE ServiceAssumption DEF ServiceAssumption, RestOfStop, Step, CallStatus, TypeOK,
          StatusTypeOK, ServiceTypeOK, serverVars
<1>1. ContractTypeOK'
  BY ContractTypes DEF StopBegin, StopStep, StopOnce, StopStatus, StopUnwatch, StopClose,
    StopEndOnce, StopAwait, StopStore, StopJoin
<1>2. CASE StopBegin(p) \/ StopStatus(p) \/ StopUnwatch(p)
  BY <1>1, <1>2 DEF StopBegin, StopStatus, StopUnwatch
<1>3. CASE StopOnce(p)
  <2>1. once' = once \/ once' = [done |-> FALSE, holder |-> p]
    BY <1>3 DEF StopOnce
  <2>2. [done |-> FALSE, holder |-> p] \in [done : BOOLEAN, holder : Stoppers \cup {Nobody}]
    OBVIOUS
  <2>3. once' \in [done : BOOLEAN, holder : Stoppers \cup {Nobody}]
    BY <2>1, <2>2
  <2>4. ctxDone' \in BOOLEAN
    BY <1>3 DEF StopOnce
  <2>5. QED
    BY <1>1, <1>3, <2>3, <2>4 DEF StopOnce
<1>4. CASE StopClose(p)
  BY <1>1, <1>4 DEF StopClose
<1>5. CASE StopEndOnce(p)
  BY <1>1, <1>5 DEF StopEndOnce
<1>6. CASE StopAwait(p) \/ StopStore(p) \/ StopJoin(p)
  BY <1>1, <1>6 DEF StopAwait, StopStore, StopJoin
<1>7. QED
  BY <1>2, <1>3, <1>4, <1>5, <1>6 DEF StopStep

LEMMA ServerTypes ==
  ASSUME TypeOK, NEW c \in Clients, StatusServer(StatusCall(c)) \/ StatusServer(AcceptLoop(c))
  PROVE  TypeOK'
BY ContractTypes, StatusTypes DEF TypeOK, ServiceTypeOK, StatusServer, serviceVars

LEMMA TypeStep ==
  ASSUME TypeOK, [Next]_vars
  PROVE  TypeOK'
<1>1. CASE Next
  BY <1>1, SyncTypes, LoopTypes, DebouncerTypes, StartTypes, StopTypes, ServerTypes
  DEF Next, SyncStep
<1>2. CASE UNCHANGED vars
  BY <1>2 DEF vars, contractVars, statusVars, serverVars, serviceVars, TypeOK, ContractTypeOK,
    StatusTypeOK, ServiceTypeOK
<1>3. QED
  BY <1>1, <1>2

LEMMA TypeInit == Init => TypeOK
<1> SUFFICES ASSUME Init PROVE TypeOK
  OBVIOUS
<1>1. ContractTypeOK
  BY DEF Init, ContractInit, ContractTypeOK
<1>2. StatusTypeOK
  BY DEF Init, StatusInit, StatusTypeOK
<1>3. ServiceTypeOK
  BY DEF Init, ServiceTypeOK
<1>4. QED
  BY <1>1, <1>2, <1>3 DEF TypeOK

\* Every variable of the service, the status server and the contract of the
\* debouncer keeps to its type.
THEOREM TypeCorrect == Spec => []TypeOK
BY TypeInit, TypeStep, PTL DEF Spec

-----------------------------------------------------------------------------
(* The calls take turns: a Start has the service for itself, and one Stop, of *)
(* all that are ever made, shuts it down.                                    *)

TurnInv ==
  /\ \A s \in Starters : pc[s] \in StartPcs
  /\ \A p \in Stoppers : pc[p] \in StopPcs
  /\ \A s, t \in Starters : Active(s) /\ Active(t) => s = t
  /\ \A s \in Starters, p \in Stoppers : ~(Active(s) /\ Active(p))
  /\ \A p, q \in Stoppers : {pc[p], pc[q]} \subseteq ShutPcs \cup {"stopped"} => p = q
  /\ \A p \in Stoppers : pc[p] \in ShutPcs => state = "stopping"
  /\ \A s \in Starters :
       /\ pc[s] \in {"watcher", "status", "watch", "unstatus", "loop", "state"} =>
            state = "running"
       /\ pc[s] \in {"unwatch", "resetOnce"} \cup DebouncerPcs => state = "stopped"

\* Where the watch and the context of the service are meanwhile.
WatchInv ==
  /\ closed => watcher = "nil"
  /\ watcher = "nil" => closed \/ \E p \in Stoppers : pc[p] = "close"
  /\ \A p \in Stoppers :
       /\ pc[p] \in {"close", "endOnce", "await", "store", "stopped"} => watcher = "nil"
       /\ pc[p] \in {"endOnce", "await", "store", "stopped"} => closed
       /\ pc[p] \in (ShutPcs \ {"once"}) \cup {"stopped"} => ctxDone
  /\ \A s \in Starters :
       /\ pc[s] \in {"resetOnce", "undone"} \cup DebouncerPcs => watcher = "nil"
       /\ pc[s] \in {"status", "watch", "unstatus", "loop"} => watcher = "open"
  /\ state = "running" /\ (\A s \in Starters : ~Active(s)) => watcher = "open"
  /\ watcher = "open" /\ state # "stopping" => ~ctxDone

\* The Once is done when the one Stop has done it.
OnceInv == once.done => \E p \in Stoppers : pc[p] \in {"await", "store", "stopped"}

\* These are kept by every step of the service.
LifeInv == TypeOK /\ TurnInv /\ WatchInv /\ OnceInv

LEMMA LifeUnseen ==
  ASSUME LifeInv, TypeOK', UNCHANGED <<pc, state, watcher, closed, ctxDone, once>>
  PROVE  LifeInv'
BY DEF LifeInv, TurnInv, WatchInv, OnceInv, Active

LEMMA DebouncerLife ==
  ASSUME LifeInv, NEW c \in Clients, StopTheDebouncer(c)
  PROVE  TurnInv' /\ WatchInv' /\ OnceInv'
<1> USE ServiceAssumption DEF ServiceAssumption, LifeInv, TypeOK, ServiceTypeOK, Active, OverCall, StartPcs, StopPcs,
          ShutPcs, ClosedPcs, DebouncerPcs
<1>1. PICK here \in DebouncerPcs : pc[c] = here /\ \E next \in DebouncerPcs \cup {AfterDebouncer(c)} :
        pc' = [pc EXCEPT ![c] = next]
  BY DEF StopTheDebouncer, CancelAll, StopDebouncer, CancelTimers, CancelCtx, EndDebouncer, Step
<1>2. UNCHANGED <<state, watcher, closed, ctxDone, once>>
  BY DEF StopTheDebouncer
<1>3. TurnInv'
  BY <1>1, <1>2 DEF TurnInv, AfterDebouncer
<1>4. WatchInv'
  BY <1>1, <1>2 DEF WatchInv, TurnInv, AfterDebouncer
<1>5. OnceInv'
  BY <1>1, <1>2 DEF OnceInv
<1>6. QED
  BY <1>3, <1>4, <1>5

LEMMA StartLife ==
  ASSUME ~Overlap, LifeInv, NEW s \in Starters, StartBegin(s) \/ StartStep(s)
  PROVE  TurnInv' /\ WatchInv' /\ OnceInv'
<1> USE ServiceAssumption DEF ServiceAssumption, LifeInv, TypeOK, ServiceTypeOK, Active, OverCall, StartPcs, StopPcs,
          ShutPcs, ClosedPcs, DebouncerPcs, Step, RestOfStart
<1>1. CASE StartBegin(s)
  <2>1. TurnInv'
    BY <1>1 DEF StartBegin, Alone, TurnInv
  <2>2. WatchInv'
    BY <1>1 DEF StartBegin, Alone, WatchInv
  <2>3. OnceInv'
    BY <1>1 DEF StartBegin, OnceInv
  <2>4. QED
    BY <2>1, <2>2, <2>3
<1>2. CASE StartWatcher(s) \/ StartStatus(s) \/ StartWatch(s)
  <2>1. TurnInv'
    BY <1>2 DEF StartWatcher, StartStatus, StartWatch, TurnInv
  <2>2. WatchInv'
    <3>1. CASE StartWatcher(s)
      BY <3>1 DEF StartWatcher, WatchInv, TurnInv
    <3>2. CASE StartStatus(s)
      BY <3>2 DEF StartStatus, WatchInv, TurnInv
    <3>3. CASE StartWatch(s)
      BY <3>3 DEF StartWatch, WatchInv, TurnInv
    <3>4. QED
      BY <1>2, <3>1, <3>2, <3>3
  <2>3. OnceInv'
    BY <1>2 DEF StartWatcher, StartStatus, StartWatch, OnceInv
  <2>4. QED
    BY <2>1, <2>2, <2>3
<1>3. CASE StartUnstatus(s) \/ StartLoop(s) \/ StartState(s)
  <2>1. TurnInv'
    BY <1>3 DEF StartUnstatus, StartLoop, StartState, TurnInv
  <2>2. WatchInv'
    <3>1. CASE StartUnstatus(s)
      BY <3>1 DEF StartUnstatus, WatchInv, TurnInv
    <3>2. CASE StartLoop(s)
      BY <3>2 DEF StartLoop, WatchInv, TurnInv
    <3>3. CASE StartState(s)
      BY <3>3 DEF StartState, WatchInv, TurnInv
    <3>4. QED
      BY <1>3, <3>1, <3>2, <3>3
  <2>3. OnceInv'
    BY <1>3 DEF StartUnstatus, StartLoop, StartState, OnceInv
  <2>4. QED
    BY <2>1, <2>2, <2>3
<1>4. CASE StartUnwatch(s) \/ StartResetOnce(s)
  <2>1. TurnInv'
    BY <1>4 DEF StartUnwatch, StartResetOnce, TurnInv
  <2>2. WatchInv'
    <3>1. CASE StartUnwatch(s)
      <4>1. \A p \in Stoppers : pc[p] # "close"
        BY <3>1 DEF StartUnwatch, TurnInv
      <4>2. closed' /\ watcher' = "nil"
        BY <3>1, <4>1 DEF StartUnwatch, WatchInv
      <4>3. QED
        BY <3>1, <4>2 DEF StartUnwatch, WatchInv, TurnInv
    <3>2. CASE StartResetOnce(s)
      BY <3>2 DEF StartResetOnce, WatchInv, TurnInv
    <3>3. QED
      BY <1>4, <3>1, <3>2
  <2>3. OnceInv'
    BY <1>4 DEF StartUnwatch, StartResetOnce, OnceInv
  <2>4. QED
    BY <2>1, <2>2, <2>3
<1>5. QED
  BY <1>1, <1>2, <1>3, <1>4 DEF StartStep

LEMMA StopLife ==
  ASSUME ~Overlap, LifeInv, NEW p \in Stoppers, StopBegin(p) \/ StopStep(p)
  PROVE  TurnInv' /\ WatchInv' /\ OnceInv'
<1> USE ServiceAssumption DEF ServiceAssumption, LifeInv, TypeOK, ServiceTypeOK, Active,
          OverCall, StartPcs, StopPcs, ShutPcs, ClosedPcs, DebouncerPcs, Step, RestOfStop
<1>1. CASE StopBegin(p)
  <2>1. TurnInv'
    BY <1>1 DEF StopBegin, Alone, TurnInv, WatchInv
  <2>2. WatchInv'
    BY <1>1 DEF StopBegin, Alone, WatchInv
  <2>3. OnceInv'
    BY <1>1 DEF StopBegin, OnceInv
  <2>4. QED
    BY <2>1, <2>2, <2>3
<1>2. CASE StopOnce(p) \/ StopStatus(p) \/ StopUnwatch(p)
  <2>1. TurnInv'
    BY <1>2 DEF StopOnce, StopStatus, StopUnwatch, TurnInv
  <2>2. WatchInv'
    <3>1. CASE StopOnce(p)
      <4>1. ctxDone => ctxDone'
        BY <3>1 DEF StopOnce
      <4>2. CASE once.done
        <5>1. FALSE
          BY <3>1, <4>2 DEF StopOnce, OnceInv, TurnInv
        <5>2. QED
          BY <5>1
      <4>3. CASE ~once.done
        <5>1. ctxDone' /\ pc' = [pc EXCEPT ![p] = "status"]
          BY <3>1, <4>3 DEF StopOnce
        <5>2. UNCHANGED <<state, watcher, closed>>
          BY <3>1 DEF StopOnce
        <5>3. pc[p] = "once" /\ state = "stopping" /\ \A s \in Starters : pc'[s] = pc[s]
          BY <3>1, <5>1 DEF StopOnce, TurnInv
        <5>4. /\ closed' => watcher' = "nil"
              /\ watcher' = "nil" => closed' \/ \E q \in Stoppers : pc'[q] = "close"
          BY <5>1, <5>2, <5>3 DEF WatchInv
        <5>5. \A q \in Stoppers \ {p} : pc'[q] = pc[q]
          BY <5>1
        <5>6. QED
          BY <5>1, <5>2, <5>3, <5>4, <5>5 DEF WatchInv
      <4>4. QED
        BY <4>2, <4>3
    <3>2. CASE StopStatus(p)
      BY <3>2 DEF StopStatus, WatchInv, TurnInv
    <3>3. CASE StopUnwatch(p)
      BY <3>3 DEF StopUnwatch, WatchInv, TurnInv
    <3>4. QED
      BY <1>2, <3>1, <3>2, <3>3
  <2>3. OnceInv'
    BY <1>2 DEF StopOnce, StopStatus, StopUnwatch, OnceInv
  <2>4. QED
    BY <2>1, <2>2, <2>3
<1>3. CASE StopClose(p) \/ StopEndOnce(p)
  <2>1. TurnInv'
    BY <1>3 DEF StopClose, StopEndOnce, TurnInv
  <2>2. WatchInv'
    BY <1>3 DEF StopClose, StopEndOnce, WatchInv, TurnInv
  <2>3. OnceInv'
    BY <1>3 DEF StopClose, StopEndOnce, OnceInv
  <2>4. QED
    BY <2>1, <2>2, <2>3
<1>4. CASE StopAwait(p) \/ StopStore(p) \/ StopJoin(p)
  <2>1. TurnInv'
    BY <1>4 DEF StopAwait, StopStore, StopJoin, TurnInv, WatchInv
  <2>2. WatchInv'
    BY <1>4 DEF StopAwait, StopStore, StopJoin, WatchInv, TurnInv
  <2>3. OnceInv'
    BY <1>4 DEF StopAwait, StopStore, StopJoin, OnceInv
  <2>4. QED
    BY <2>1, <2>2, <2>3
<1>5. QED
  BY <1>1, <1>2, <1>3, <1>4 DEF StopStep

LEMMA LifeStep ==
  ASSUME ~Overlap, LifeInv, [Next]_vars
  PROVE  LifeInv'
<1>1. TypeOK'
  BY TypeStep DEF LifeInv
<1>2. CASE \/ SyncStep \/ \E s \in Starters : EventLoop(s)
           \/ \E c \in Clients : StatusServer(StatusCall(c)) \/ StatusServer(AcceptLoop(c))
           \/ UNCHANGED vars
  <2>1. UNCHANGED <<pc, state, watcher, closed, ctxDone, once>>
    BY <1>2, SyncsApart DEF EventLoop, LoopTop, LoopSelect, LoopEvent, LoopAdd, LoopError, LoopStep,
      StatusServer, vars, serviceVars
  <2>2. QED
    BY <1>1, <2>1, LifeUnseen
<1>3. QED
  BY <1>1, <1>2, DebouncerLife, StartLife, StopLife DEF LifeInv, Next, SyncStep

LEMMA LifeInit == Init => LifeInv
<1> SUFFICES ASSUME Init PROVE LifeInv
  OBVIOUS
<1>1. TurnInv
  BY ServiceAssumption DEF ServiceAssumption, Init, TurnInv, Active, OverCall, StartPcs, StopPcs,
    ShutPcs, ClosedPcs, DebouncerPcs
<1>2. WatchInv
  BY ServiceAssumption DEF ServiceAssumption, Init, WatchInv, Active, OverCall, ShutPcs,
    ClosedPcs, DebouncerPcs
<1>3. OnceInv
  BY DEF Init, OnceInv
<1>4. QED
  BY <1>1, <1>2, <1>3, TypeInit DEF LifeInv

-----------------------------------------------------------------------------
(* The status server is started at most once and stopped at most once, and    *)
(* whoever does it is alone with it.                                         *)

StartWork == {"start", "listen", "serve"}
StopWork == {"stop", "once", "wait", "close", "remove"}

CallInv ==
  /\ \A s \in Starters : /\ smPc[s] \in StartWork => pc[s] = "status"
                         /\ smPc[s] \in StopWork => pc[s] = "unstatus"
  /\ \A p \in Stoppers : /\ smPc[p] \notin StartWork
                         /\ smPc[p] \in StopWork => pc[p] = "status"

LEMMA OneCall ==
  ASSUME LifeInv, CallInv, NEW c \in Clients, NEW d \in Clients,
         {smPc[c], smPc[d]} \subseteq StartWork \cup StopWork
  PROVE  c = d
BY ServiceAssumption DEF ServiceAssumption, LifeInv, TurnInv, CallInv, Active, OverCall, ShutPcs

LEMMA CallStep ==
  ASSUME LifeInv, CallInv, [Next]_vars
  PROVE  CallInv'
<1> USE ServiceAssumption DEF ServiceAssumption, LifeInv, TypeOK, ServiceTypeOK, StatusTypeOK,
          StartWork, StopWork, CallInv
<1>1. CASE SyncStep \/ (\E s \in Starters : EventLoop(s)) \/ UNCHANGED vars
  <2>1. UNCHANGED <<pc, smPc>>
    BY <1>1, SyncsApart DEF EventLoop, LoopTop, LoopSelect, LoopEvent, LoopAdd, LoopError, LoopStep, vars,
      statusVars
  <2>2. QED
    BY <2>1
<1>2. ASSUME NEW c \in Clients, StopTheDebouncer(c)
      PROVE  CallInv'
  <2>1. PICK here \in DebouncerPcs, next \in DebouncerPcs \cup {AfterDebouncer(c)} :
          pc[c] = here /\ pc' = [pc EXCEPT ![c] = next]
    BY <1>2 DEF StopTheDebouncer, CancelAll, StopDebouncer, CancelTimers, CancelCtx, EndDebouncer,
      Step, DebouncerPcs
  <2>2. UNCHANGED smPc
    BY <1>2 DEF StopTheDebouncer
  <2>3. QED
    BY <2>1, <2>2 DEF DebouncerPcs
<1>3. ASSUME NEW s \in Starters, StartBegin(s) \/ StartStep(s)
      PROVE  CallInv'
  <2> USE DEF Step, CallStatus
  <2>1. CASE StartBegin(s) \/ StartWatcher(s)
    BY <2>1 DEF StartBegin, StartWatcher
  <2>2. CASE StartStatus(s) \/ StartWatch(s) \/ StartUnstatus(s)
    BY <2>2 DEF StartStatus, StartWatch, StartUnstatus, StatusReturned
  <2>3. CASE StartLoop(s) \/ StartState(s) \/ StartUnwatch(s) \/ StartResetOnce(s)
    BY <2>3 DEF StartLoop, StartState, StartUnwatch, StartResetOnce
  <2>4. QED
    BY <1>3, <2>1, <2>2, <2>3 DEF StartStep
<1>4. ASSUME NEW p \in Stoppers, StopBegin(p) \/ StopStep(p)
      PROVE  CallInv'
  <2> USE DEF Step, CallStatus
  <2>1. CASE StopBegin(p) \/ StopOnce(p)
    BY <2>1 DEF StopBegin, StopOnce
  <2>2. CASE StopStatus(p) \/ StopUnwatch(p) \/ StopClose(p)
    BY <2>2 DEF StopStatus, StopUnwatch, StopClose, StatusReturned
  <2>3. CASE StopEndOnce(p) \/ StopAwait(p) \/ StopStore(p) \/ StopJoin(p)
    BY <2>3 DEF StopEndOnce, StopAwait, StopStore, StopJoin
  <2>4. QED
    BY <1>4, <2>1, <2>2, <2>3 DEF StopStep
<1>5. ASSUME NEW c \in Clients, StatusServer(StatusCall(c))
      PROVE  CallInv'
  <2>1. \/ \E here \in StartWork, next \in StartWork \cup {"ok", "failed"} : StatusAt(c, here, next)
        \/ \E here \in StopWork, next \in StopWork \cup {"ok", "failed"} : StatusAt(c, here, next)
    BY <1>5 DEF StatusServer, StatusCall, StatusStart, StatusListen, StatusServe, StatusStop,
      StatusSignal, StatusWait, StatusClose, StatusRemove
  <2>2. QED
    BY <1>5, <2>1 DEF StatusServer, StatusAt
<1>6. ASSUME NEW c \in Clients, StatusServer(AcceptLoop(c))
      PROVE  CallInv'
  BY <1>6 DEF StatusServer, AcceptLoop, AcceptCheck, AcceptDeadline, AcceptReturns, AcceptStep
<1>7. QED
  BY <1>1, <1>2, <1>3, <1>4, <1>5, <1>6 DEF Next, SyncStep

NotServed == ~smRunning /\ smSocket = Nobody /\ listening = {} /\ AcceptExited /\ ~smOnce.done

\* Nobody has started the server yet, and a Start still can.
Unstarted ==
  /\ watcher = "open"
  /\ \/ state = "stopped" /\ \A s \in Starters : ~Active(s)
     \/ \E s \in Starters : pc[s] = "watcher"

ServedInv ==
  /\ Unstarted => NotServed
  /\ \A c \in Clients :
       /\ smPc[c] = "start" => NotServed
       /\ smPc[c] \in {"listen", "serve"} =>
            smRunning /\ smSocket = Nobody /\ AcceptExited /\ ~smOnce.done
       /\ c \in listening => smPc[c] = "serve" \/ smSocket = c
       /\ accept[c] \in {"check", "deadline", "accepting"} => smSocket = c
       /\ smPc[c] \in {"close", "remove"} => AcceptExited
       /\ smPc[c] = "remove" => listening = {}
  /\ smOnce.done => ServerIsReleased
  /\ ~smRunning /\ (\A c \in Clients : smPc[c] \notin StopWork \ {"stop"}) => ServerIsReleased
  /\ ~smPanic

\* The server is down before the debouncer and the watch are given up.
ReleaseInv ==
  /\ watcher = "nil" => ServerIsReleased
  /\ \A s \in Starters :
       (pc[s] = "unstatus" /\ StatusReturned(s)) \/ pc[s] \in {"state", "unwatch"}
         => ServerIsReleased
  /\ \A p \in Stoppers :
       (pc[p] = "status" /\ StatusReturned(p)) \/ pc[p] \in DebouncerPcs \cup {"unwatch"}
         => ServerIsReleased

ServerInv == CallInv /\ ServedInv /\ ReleaseInv

LEMMA ServerUnseen ==
  ASSUME LifeInv, ServerInv, UNCHANGED <<serverVars, smPc, smPanic, pc, state, watcher>>
  PROVE  ServedInv' /\ ReleaseInv'
BY DEF ServerInv, ServedInv, ReleaseInv, Unstarted, NotServed, ServerIsReleased, AcceptExited,
  StatusReturned, Active, serverVars

LEMMA DebouncerServer ==
  ASSUME LifeInv, ServerInv, NEW c \in Clients, StopTheDebouncer(c)
  PROVE  ServedInv' /\ ReleaseInv'
<1> USE ServiceAssumption DEF ServiceAssumption, LifeInv, TypeOK, ServiceTypeOK, ServerInv
<1>1. PICK here \in DebouncerPcs, next \in DebouncerPcs \cup {AfterDebouncer(c)} :
        pc[c] = here /\ pc' = [pc EXCEPT ![c] = next]
  BY DEF StopTheDebouncer, CancelAll, StopDebouncer, CancelTimers, CancelCtx, EndDebouncer, Step,
    DebouncerPcs
<1>2. UNCHANGED <<serverVars, smPc, smPanic, state, watcher>>
  BY DEF StopTheDebouncer, CancelAll, StopDebouncer, CancelTimers, CancelCtx, EndDebouncer, Step
<1>3. AcceptExited' = AcceptExited /\ ServerIsReleased' = ServerIsReleased
        /\ NotServed' = NotServed
  BY <1>2 DEF AcceptExited, ServerIsReleased, NotServed, serverVars
<1>4. Unstarted' => Unstarted
  BY <1>1, <1>2 DEF Unstarted, Active, OverCall, DebouncerPcs, AfterDebouncer
<1>5. ServedInv'
  BY <1>2, <1>3, <1>4 DEF ServedInv, serverVars
<1>6. ReleaseInv'
  BY <1>1, <1>2, <1>3 DEF ReleaseInv, StatusReturned, DebouncerPcs, AfterDebouncer
<1>7. QED
  BY <1>5, <1>6

LEMMA StartServer ==
  ASSUME ~Overlap, LifeInv, ServerInv, NEW s \in Starters, StartBegin(s) \/ StartStep(s)
  PROVE  ServedInv' /\ ReleaseInv'
<1> USE ServiceAssumption DEF ServiceAssumption, LifeInv, TypeOK, ServiceTypeOK, StatusTypeOK,
          ServerInv, Step, StartWork, StopWork
<1>1. UNCHANGED <<smRunning, smSocket, listening, smOnce, accept, smPanic>>
  BY DEF StartBegin, StartStep, StartWatcher, StartStatus, StartWatch, StartUnstatus, StartLoop,
    StartState, StartUnwatch, StartResetOnce, serverVars
<1>2. /\ AcceptExited' = AcceptExited /\ ServerIsReleased' = ServerIsReleased
      /\ NotServed' = NotServed
  BY <1>1 DEF AcceptExited, ServerIsReleased, NotServed
<1>3. CASE StartBegin(s)
  <2>1. UNCHANGED <<smPc, watcher>>
    BY <1>3 DEF StartBegin
  <2>2. Unstarted' => Unstarted
    BY <1>3 DEF StartBegin, Alone, Unstarted, TurnInv, Active, OverCall
  <2>3. ServedInv'
    BY <1>1, <1>2, <2>1, <2>2 DEF ServedInv
  <2>4. ReleaseInv'
    BY <1>2, <1>3, <2>1 DEF StartBegin, ReleaseInv, StatusReturned
  <2>5. QED
    BY <2>3, <2>4
<1>4. CASE StartWatcher(s)
  <2>1. ~Unstarted'
    BY <1>4 DEF StartWatcher, RestOfStart, Unstarted, TurnInv, Active, OverCall
  <2>2. CASE watcher = "nil"
    BY <1>1, <1>2, <1>4, <2>1, <2>2 DEF StartWatcher, CallStatus, ServedInv, ReleaseInv, StatusReturned
  <2>3. CASE watcher # "nil"
    <3>1. NotServed /\ ServerIsReleased
      BY <1>4, <2>3 DEF StartWatcher, ServedInv, Unstarted, NotServed, ServerIsReleased
    <3>2. smPc' = [smPc EXCEPT ![s] = "start"] /\ pc' = [pc EXCEPT ![s] = "status"]
            /\ UNCHANGED watcher
      BY <1>4, <2>3 DEF StartWatcher, CallStatus
    <3>3. smPc[s] \notin StartWork \cup StopWork /\ ~smPanic
      BY <1>4 DEF StartWatcher, CallInv, ServedInv
    <3>4. ServedInv'
      <4>1. \A c \in Clients \ {s} : smPc'[c] = smPc[c]
        BY <3>2
      <4>2. smPc'[s] = "start"
        BY <3>2
      <4>3. NotServed' /\ ServerIsReleased' /\ ~smPanic'
        BY <1>1, <1>2, <3>1, <3>3
      <4>4. QED
        BY <1>1, <1>2, <2>1, <4>1, <4>2, <4>3 DEF ServedInv, NotServed
    <3>5. ReleaseInv'
      BY <1>2, <3>2 DEF ReleaseInv, StatusReturned
    <3>6. QED
      BY <3>4, <3>5
  <2>4. QED
    BY <2>2, <2>3
<1>5. CASE StartStatus(s) \/ StartUnstatus(s) \/ StartLoop(s) \/ StartState(s)
  <2>1. UNCHANGED <<smPc, watcher>>
    BY <1>5 DEF StartStatus, StartUnstatus, StartLoop, StartState
  <2>2. ~Unstarted'
    BY <1>5 DEF StartStatus, StartUnstatus, StartLoop, StartState, RestOfStart, Unstarted,
      TurnInv, Active, OverCall
  <2>3. ServedInv'
    BY <1>1, <1>2, <2>1, <2>2 DEF ServedInv
  <2>4. ReleaseInv'
    BY <1>2, <1>5, <2>1 DEF StartStatus, StartUnstatus, StartLoop, StartState, ReleaseInv,
      StatusReturned
  <2>5. QED
    BY <2>3, <2>4
<1>6. CASE StartWatch(s)
  <2>1. ~Unstarted' /\ UNCHANGED watcher
    BY <1>6 DEF StartWatch, RestOfStart, Unstarted, TurnInv, Active, OverCall
  <2>2. /\ smPc' = smPc \/ (smPc' = [smPc EXCEPT ![s] = "stop"] /\ pc[s] = "watch")
        /\ \/ pc' = [pc EXCEPT ![s] = "loop"]
           \/ pc' = [pc EXCEPT ![s] = "unstatus"] /\ smPc' = [smPc EXCEPT ![s] = "stop"]
    BY <1>6 DEF StartWatch, CallStatus
  <2>3. smPc[s] \notin StartWork \cup StopWork
    BY <1>6 DEF StartWatch, CallInv
  <2>4. ServedInv'
    BY <1>1, <1>2, <2>1, <2>2, <2>3 DEF ServedInv
  <2>5. ReleaseInv'
    BY <1>2, <2>1, <2>2 DEF ReleaseInv, StatusReturned
  <2>6. QED
    BY <2>4, <2>5
<1>7. CASE StartUnwatch(s) \/ StartResetOnce(s)
  <2>1. UNCHANGED smPc
    BY <1>7 DEF StartUnwatch, StartResetOnce
  <2>2. watcher' = "nil"
    BY <1>7 DEF StartUnwatch, StartResetOnce, WatchInv
  <2>3. ServedInv'
    BY <1>1, <1>2, <2>1, <2>2 DEF ServedInv, Unstarted
  <2>4. ReleaseInv'
    BY <1>2, <1>7, <2>1, <2>2 DEF StartUnwatch, StartResetOnce, ReleaseInv, WatchInv,
      StatusReturned
  <2>5. QED
    BY <2>3, <2>4
<1>8. QED
  BY <1>3, <1>4, <1>5, <1>6, <1>7 DEF StartStep

LEMMA StopServer ==
  ASSUME ~Overlap, LifeInv, ServerInv, NEW p \in Stoppers, StopBegin(p) \/ StopStep(p)
  PROVE  ServedInv' /\ ReleaseInv'
<1> USE ServiceAssumption DEF ServiceAssumption, LifeInv, TypeOK, ServiceTypeOK, StatusTypeOK,
          ServerInv, Step, StartWork, StopWork
<1>1. UNCHANGED <<smRunning, smSocket, listening, smOnce, accept, smPanic>>
  BY DEF StopBegin, StopStep, StopOnce, StopStatus, StopUnwatch, StopClose, StopEndOnce,
    StopAwait, StopStore, StopJoin, serverVars
<1>2. /\ AcceptExited' = AcceptExited /\ ServerIsReleased' = ServerIsReleased
      /\ NotServed' = NotServed
  BY <1>1 DEF AcceptExited, ServerIsReleased, NotServed
<1>3. Unstarted' => Unstarted
  BY DEF StopBegin, StopStep, StopOnce, StopStatus, StopUnwatch, StopClose, StopEndOnce,
    StopAwait, StopStore, StopJoin, Unstarted, Active, WatchInv
<1>4. CASE StopOnce(p)
  <2>1. UNCHANGED watcher
    BY <1>4 DEF StopOnce
  <2>2. smPc' = smPc \/ (smPc' = [smPc EXCEPT ![p] = "stop"] /\ pc[p] = "once")
    BY <1>4 DEF StopOnce, CallStatus
  <2>3. smPc[p] \notin StartWork \cup StopWork
    BY <1>4 DEF StopOnce, CallInv
  <2>4. ServedInv'
    BY <1>1, <1>2, <1>3, <2>2, <2>3 DEF ServedInv
  <2>5. \/ pc' = [pc EXCEPT ![p] = "await"] /\ UNCHANGED smPc
        \/ pc' = [pc EXCEPT ![p] = "status"] /\ smPc' = [smPc EXCEPT ![p] = "stop"]
    BY <1>4 DEF StopOnce, CallStatus
  <2>6. ReleaseInv'
    BY <1>2, <2>1, <2>5 DEF ReleaseInv, StatusReturned, DebouncerPcs
  <2>7. QED
    BY <2>4, <2>6
<1>5. CASE ~StopOnce(p)
  <2>1. UNCHANGED smPc
    BY <1>5 DEF StopBegin, StopStep, StopStatus, StopUnwatch, StopClose, StopEndOnce, StopAwait,
      StopStore, StopJoin
  <2>2. ServedInv'
    BY <1>1, <1>2, <1>3, <2>1 DEF ServedInv
  <2>3. ReleaseInv'
    BY <1>2, <1>5, <2>1 DEF StopBegin, StopStep, StopStatus, StopUnwatch, StopClose, StopEndOnce,
      StopAwait, StopStore, StopJoin, ReleaseInv, StatusReturned, DebouncerPcs
  <2>4. QED
    BY <2>2, <2>3
<1>6. QED
  BY <1>4, <1>5

LEMMA StatusCallServer ==
  ASSUME ~SlowAccept, LifeInv, ServerInv, NEW c \in Clients, StatusServer(StatusCall(c))
  PROVE  ServedInv' /\ ReleaseInv'
<1> USE ServiceAssumption, StatusAssumption DEF ServiceAssumption, StatusAssumption, LifeInv,
          TypeOK, ServiceTypeOK, StatusTypeOK, ServerInv, StatusAt, StartWork, StopWork
<1>1. UNCHANGED <<pc, state, watcher>> /\ StatusCall(c)
  BY DEF StatusServer, serviceVars
<1>2. smPc[c] \in StartWork \cup StopWork /\ \A d \in Clients \ {c} :
        smPc[d] \notin StartWork \cup StopWork /\ smPc'[d] = smPc[d]
  <2>1. smPc[c] \in StartWork \cup StopWork /\ \E next : smPc' = [smPc EXCEPT ![c] = next]
    BY <1>1 DEF StatusCall, StatusStart, StatusListen, StatusServe, StatusStop, StatusSignal,
      StatusWait, StatusClose, StatusRemove
  <2>2. \A d \in Clients \ {c} : smPc[d] \notin StartWork \cup StopWork
    BY <2>1, OneCall
  <2>3. QED
    BY <2>1, <2>2
<1>3. ~Unstarted'
  <2>1. ~Unstarted
    BY <1>2 DEF Unstarted, CallInv, TurnInv, WatchInv, Active, OverCall, ShutPcs
  <2>2. QED
    BY <1>1, <2>1 DEF Unstarted, Active
<1>4. /\ watcher = "nil" => smPc[c] \notin StartWork
      /\ smPc[c] \in StartWork => c \in Starters /\ pc[c] = "status"
      /\ smPc[c] \in StopWork =>
           pc[c] = IF c \in Starters THEN "unstatus" ELSE "status"
  BY DEF CallInv, WatchInv
\* Starting the server is over before anything is to be released.
<1>5. smPc[c] \in StartWork => ReleaseInv'
  <2>1. smPc[c] \in StartWork =>
          /\ \A s \in Starters : pc[s] \notin {"unstatus", "state", "unwatch"}
          /\ \A p \in Stoppers : pc[p] \notin {"status", "unwatch"} \cup DebouncerPcs
    BY <1>4 DEF TurnInv, Active, OverCall, DebouncerPcs
  <2>2. QED
    BY <1>1, <1>4, <2>1 DEF ReleaseInv
<1>6. CASE StatusStart(c)
  <2>1. /\ NotServed /\ smPc' = [smPc EXCEPT ![c] = "listen"] /\ smRunning'
        /\ UNCHANGED <<smSocket, listening, smOnce, accept, smPanic>>
    BY <1>6 DEF StatusStart, ServedInv, NotServed
  <2>2. ServedInv'
    BY <1>2, <1>3, <2>1 DEF ServedInv, NotServed, ServerIsReleased, AcceptExited
  <2>3. QED
    BY <1>5, <1>6, <2>2 DEF StatusStart
<1>7. CASE StatusListen(c)
  <2>1. /\ smPc[c] = "listen"
        /\ UNCHANGED <<smRunning, smSocket, smOnce, accept, smPanic>>
        /\ \/ smPc' = [smPc EXCEPT ![c] = "serve"] /\ listening' = listening \cup {c}
           \/ smPc' = [smPc EXCEPT ![c] = "failed"] /\ UNCHANGED listening
    BY <1>7 DEF StatusListen
  <2>2. smRunning /\ smSocket = Nobody /\ AcceptExited /\ ~smOnce.done
    BY <2>1 DEF ServedInv
  <2>3. ServedInv'
    BY <1>2, <1>3, <2>1, <2>2 DEF ServedInv, AcceptExited
  <2>4. QED
    BY <1>5, <2>1, <2>3
<1>8. CASE StatusServe(c)
  <2>1. /\ smPc[c] = "serve"
        /\ smPc' = [smPc EXCEPT ![c] = "ok"]
        /\ smSocket' = c
        /\ accept' = [accept EXCEPT ![c] = "check"]
        /\ UNCHANGED <<smRunning, listening, smOnce, smPanic>>
    BY <1>8 DEF StatusServe
  <2>2. smRunning /\ smSocket = Nobody /\ AcceptExited /\ ~smOnce.done
    BY <2>1 DEF ServedInv
  <2>3. ServedInv'
    BY <1>2, <1>3, <2>1, <2>2 DEF ServedInv, AcceptExited
  <2>4. QED
    BY <1>5, <2>1, <2>3
<1>9. CASE StatusStop(c)
  <2>1. /\ smPc[c] = "stop" /\ ~smRunning'
        /\ UNCHANGED <<smSocket, listening, smOnce, accept, smPanic>>
        /\ \/ smRunning /\ smPc' = [smPc EXCEPT ![c] = "once"]
           \/ ~smRunning /\ smPc' = [smPc EXCEPT ![c] = "ok"]
    BY <1>9 DEF StatusStop
  <2>2. ~smRunning => ServerIsReleased
    BY <1>2, <2>1 DEF ServedInv
  <2>3. ServedInv'
    BY <1>2, <1>3, <2>1, <2>2 DEF ServedInv, AcceptExited, ServerIsReleased
  <2>4. ReleaseInv'
    BY <1>1, <1>2, <2>1, <2>2 DEF ReleaseInv, StatusReturned, ServerIsReleased, AcceptExited
  <2>5. QED
    BY <2>3, <2>4
<1>10. CASE StatusSignal(c)
  <2>1. /\ smPc[c] = "once" /\ UNCHANGED <<smRunning, smSocket, listening, accept, smPanic>>
        /\ \/ smOnce.done /\ smPc' = [smPc EXCEPT ![c] = "ok"] /\ UNCHANGED smOnce
           \/ /\ smPc' = [smPc EXCEPT ![c] = "wait"]
              /\ smOnce' = [done |-> FALSE, holder |-> c]
    BY <1>10 DEF StatusSignal
  <2>2. smOnce.done => ServerIsReleased
    BY DEF ServedInv
  <2>3. ServedInv'
    BY <1>2, <1>3, <2>1, <2>2 DEF ServedInv, AcceptExited, ServerIsReleased
  <2>4. ReleaseInv'
    BY <1>1, <1>2, <2>1, <2>2 DEF ReleaseInv, StatusReturned, ServerIsReleased, AcceptExited
  <2>5. QED
    BY <2>3, <2>4
<1>11. CASE StatusWait(c)
  <2>1. /\ smPc[c] = "wait" /\ AcceptExited
        /\ smPc' = [smPc EXCEPT ![c] = "close"]
        /\ UNCHANGED <<smRunning, smSocket, listening, smOnce, accept, smPanic>>
    BY <1>11 DEF StatusWait, serverVars
  <2>2. ServedInv'
    BY <1>2, <1>3, <2>1 DEF ServedInv, AcceptExited, ServerIsReleased
  <2>3. ReleaseInv'
    BY <1>1, <1>2, <2>1 DEF ReleaseInv, StatusReturned, ServerIsReleased, AcceptExited
  <2>4. QED
    BY <2>2, <2>3
<1>12. CASE StatusClose(c)
  <2>1. /\ smPc[c] = "close"
        /\ smPc' = [smPc EXCEPT ![c] = "remove"]
        /\ listening' = listening \ {smSocket} /\ smSocket' = Nobody
        /\ UNCHANGED <<smRunning, smOnce, accept, smPanic>>
    BY <1>12 DEF StatusClose
  <2>2. AcceptExited /\ listening' = {}
    BY <1>2, <2>1 DEF ServedInv
  <2>3. ServedInv'
    BY <1>2, <1>3, <2>1, <2>2 DEF ServedInv, AcceptExited, ServerIsReleased
  <2>4. ReleaseInv'
    BY <1>1, <1>2, <2>1, <2>2 DEF ReleaseInv, StatusReturned, ServerIsReleased, AcceptExited
  <2>5. QED
    BY <2>3, <2>4
<1>13. CASE StatusRemove(c)
  <2>1. /\ smPc[c] = "remove"
        /\ \E next \in {"ok", "failed"} : smPc' = [smPc EXCEPT ![c] = next]
        /\ UNCHANGED <<smRunning, smSocket, listening, accept, smPanic>>
    BY <1>13 DEF StatusRemove
  <2>2. ServerIsReleased
    BY <2>1 DEF ServedInv, ServerIsReleased
  <2>3. ServedInv'
    BY <1>2, <1>3, <2>1, <2>2 DEF ServedInv, AcceptExited, ServerIsReleased
  <2>4. ReleaseInv'
    BY <1>1, <1>2, <2>1, <2>2 DEF ReleaseInv, StatusReturned, ServerIsReleased, AcceptExited
  <2>5. QED
    BY <2>3, <2>4
<1>14. QED
  BY <1>1, <1>6, <1>7, <1>8, <1>9, <1>10, <1>11, <1>12, <1>13 DEF StatusCall

LEMMA AcceptServer ==
  ASSUME LifeInv, ServerInv, NEW c \in Clients, StatusServer(AcceptLoop(c))
  PROVE  ServedInv' /\ ReleaseInv'
<1> USE StatusAssumption DEF StatusAssumption, LifeInv, TypeOK, StatusTypeOK, ServerInv
<1>1. UNCHANGED <<pc, state, watcher, smRunning, smSocket, listening, smOnce, smPc>>
  BY DEF StatusServer, serviceVars, AcceptLoop, AcceptCheck, AcceptDeadline, AcceptReturns,
    AcceptStep
<1>2. /\ accept[c] \in {"check", "deadline", "accepting"}
      /\ \A d \in Clients \ {c} : accept'[d] = accept[d]
  BY DEF StatusServer, AcceptLoop, AcceptCheck, AcceptDeadline, AcceptReturns, AcceptStep
<1>3. ~AcceptExited /\ smSocket = c
  BY <1>2 DEF AcceptExited, ServedInv
<1>4. ~smPanic'
  BY <1>3 DEF ServedInv, StatusServer, AcceptLoop, AcceptCheck, AcceptDeadline, AcceptReturns
<1>5. ~Unstarted'
  <2>1. ~Unstarted
    BY <1>3 DEF ServedInv, NotServed
  <2>2. QED
    BY <1>1, <2>1 DEF Unstarted, Active
<1>6. ServedInv'
  BY <1>1, <1>2, <1>3, <1>4, <1>5 DEF ServedInv, NotServed, AcceptExited, ServerIsReleased
<1>7. ReleaseInv'
  BY <1>1, <1>3 DEF ReleaseInv, StatusReturned, ServerIsReleased
<1>8. QED
  BY <1>6, <1>7

LEMMA ServerStep ==
  ASSUME ~Overlap, ~SlowAccept, LifeInv, ServerInv, [Next]_vars
  PROVE  ServerInv'
<1>1. CallInv'
  BY CallStep DEF ServerInv
<1>2. CASE SyncStep \/ (\E s \in Starters : EventLoop(s)) \/ UNCHANGED vars
  <2>1. UNCHANGED <<serverVars, smPc, smPanic, pc, state, watcher>>
    BY <1>2, SyncsApart DEF EventLoop, LoopTop, LoopSelect, LoopEvent, LoopAdd, LoopError, LoopStep, vars,
      statusVars, serviceVars
  <2>2. QED
    BY <1>1, <2>1, ServerUnseen DEF ServerInv
<1>3. QED
  BY <1>1, <1>2, DebouncerServer, StartServer, StopServer, StatusCallServer, AcceptServer
  DEF ServerInv, Next, SyncStep

LEMMA ServerInit == Init => ServerInv
<1> SUFFICES ASSUME Init PROVE ServerInv
  OBVIOUS
<1>1. AcceptExited /\ listening = {} /\ ~smOnce.done /\ ~smRunning /\ smSocket = Nobody
  BY DEF Init, StatusInit, AcceptExited
<1>2. \A c \in Clients : smPc[c] = "idle" /\ pc[c] = "idle" /\ accept[c] = "none"
  BY DEF Init, StatusInit
<1>3. watcher = "open" /\ ~smPanic
  BY DEF Init, StatusInit
<1>4. CallInv
  BY <1>2, ServiceAssumption DEF ServiceAssumption, CallInv, StartWork, StopWork
<1>5. ServedInv
  BY <1>1, <1>2, <1>3 DEF ServedInv, NotServed, ServerIsReleased
<1>6. ReleaseInv
  BY <1>1 DEF ReleaseInv, ServerIsReleased
<1>7. QED
  BY <1>4, <1>5, <1>6 DEF ServerInv

-----------------------------------------------------------------------------
(* Where a Start that did not start the status server leaves the service.    *)

\* A Start came as far as the event loop, or gave up with the status server.
Begun == \E s \in Starters : loop[s] # "none" \/ pc[s] = "halfway"

\* Where a Start still has the watcher that it found.
LaunchPcs == {"watcher", "status", "watch", "unstatus", "loop", "state"}

\* It is the only one, as long as the watcher is there.
LaunchInv ==
  Begun /\ watcher = "open" =>
    state # "stopped" /\ \A s \in Starters : pc[s] \notin LaunchPcs

HalfwayInv ==
  \A s \in Starters :
    /\ (pc[s] = "status" /\ smPc[s] = "failed") \/ pc[s] = "halfway" => ServerIsReleased
    /\ pc[s] = "halfway" => \A t \in Starters : loop[t] = "none"

StoppingInv == state = "stopping" => \E p \in Stoppers : pc[p] \in ShutPcs

BegunInv == LaunchInv /\ HalfwayInv /\ StoppingInv

LEMMA StartBegun ==
  ASSUME ~Overlap, LifeInv, ServerInv, BegunInv, NEW s \in Starters, StartBegin(s) \/ StartStep(s)
  PROVE  BegunInv'
<1> USE ServiceAssumption DEF ServiceAssumption, LifeInv, TypeOK, ServiceTypeOK, StatusTypeOK,
          BegunInv, Step
<1>1. ServerIsReleased' = ServerIsReleased
  BY DEF StartBegin, StartStep, StartWatcher, StartStatus, StartWatch, StartUnstatus, StartLoop,
    StartState, StartUnwatch, StartResetOnce, serverVars, ServerIsReleased, AcceptExited
<1>2. StoppingInv'
  <2>1. state' = "stopping" => state = "stopping" /\ \A p \in Stoppers : pc'[p] = pc[p]
    BY DEF StartBegin, StartStep, StartWatcher, StartStatus, StartWatch, StartUnstatus, StartLoop,
      StartState, StartUnwatch, StartResetOnce
  <2>2. QED
    BY <2>1 DEF StoppingInv
<1>3. CASE StartBegin(s)
  <2>1. UNCHANGED <<watcher, loop, smPc>> /\ \A t \in Starters \ {s} : pc'[t] = pc[t]
    BY <1>3 DEF StartBegin
  <2>2. /\ state = "stopped" => pc'[s] = "watcher"
        /\ state # "stopped" => pc'[s] = "refused" /\ UNCHANGED state
    BY <1>3 DEF StartBegin
  <2>3. LaunchInv'
    BY <2>1, <2>2 DEF LaunchInv, LaunchPcs, Begun
  <2>4. HalfwayInv'
    BY <1>1, <2>1, <2>2 DEF HalfwayInv
  <2>5. QED
    BY <1>2, <2>3, <2>4
<1>4. CASE StartWatcher(s)
  <2>1. UNCHANGED <<state, watcher, loop>> /\ \A t \in Starters \ {s} : pc'[t] = pc[t]
    BY <1>4 DEF StartWatcher
  <2>2. /\ pc[s] = "watcher" /\ pc'[s] \in {"state", "status"}
        /\ \A t \in Starters \ {s} : smPc'[t] = smPc[t]
        /\ pc'[s] = "status" => smPc'[s] = "start"
    BY <1>4 DEF StartWatcher, CallStatus
  <2>3. LaunchInv'
    BY <2>1, <2>2 DEF LaunchInv, LaunchPcs, Begun
  <2>4. HalfwayInv'
    BY <1>1, <2>1, <2>2 DEF HalfwayInv
  <2>5. QED
    BY <1>2, <2>3, <2>4
<1>5. CASE StartStatus(s)
  <2>1. UNCHANGED <<state, watcher, loop, smPc>> /\ \A t \in Starters \ {s} : pc'[t] = pc[t]
    BY <1>5 DEF StartStatus
  <2>2. /\ pc[s] = "status" /\ pc'[s] \in {"watch", "halfway"}
        /\ pc'[s] = "halfway" => smPc[s] = "failed"
    BY <1>5 DEF StartStatus, StatusReturned
  <2>3. watcher = "open" /\ ~Begun /\ state = "running"
    BY <2>2 DEF WatchInv, LaunchInv, TurnInv, LaunchPcs
  <2>4. \A t \in Starters \ {s} : pc[t] \notin LaunchPcs
    BY <2>2 DEF TurnInv, Active, OverCall, LaunchPcs
  <2>5. LaunchInv'
    BY <2>1, <2>2, <2>3, <2>4 DEF LaunchInv, LaunchPcs, Begun
  <2>6. HalfwayInv'
    BY <1>1, <2>1, <2>2, <2>3 DEF HalfwayInv, Begun
  <2>7. QED
    BY <1>2, <2>5, <2>6
<1>6. CASE StartLoop(s)
  <2>1. UNCHANGED <<state, watcher, smPc>> /\ \A t \in Starters \ {s} : pc'[t] = pc[t]
    BY <1>6 DEF StartLoop
  <2>2. pc[s] = "loop" /\ pc'[s] = "started"
    BY <1>6 DEF StartLoop
  <2>3. watcher = "open" /\ ~Begun /\ state = "running"
    BY <2>2 DEF WatchInv, LaunchInv, TurnInv, LaunchPcs
  <2>4. \A t \in Starters \ {s} : pc[t] \notin LaunchPcs
    BY <2>2 DEF TurnInv, Active, OverCall, LaunchPcs
  <2>5. LaunchInv'
    BY <2>1, <2>2, <2>3, <2>4 DEF LaunchInv, LaunchPcs
  <2>6. HalfwayInv'
    BY <1>1, <2>1, <2>2, <2>3 DEF HalfwayInv, Begun
  <2>7. QED
    BY <1>2, <2>5, <2>6
<1>7. CASE StartWatch(s)
  <2>1. UNCHANGED <<state, watcher, loop>> /\ \A t \in Starters \ {s} : pc'[t] = pc[t]
    BY <1>7 DEF StartWatch
  <2>2. /\ pc[s] = "watch" /\ pc'[s] \in {"loop", "unstatus"}
        /\ \A t \in Starters \ {s} : smPc'[t] = smPc[t]
    BY <1>7 DEF StartWatch, CallStatus
  <2>3. LaunchInv'
    BY <2>1, <2>2 DEF LaunchInv, LaunchPcs, Begun
  <2>4. HalfwayInv'
    BY <1>1, <2>1, <2>2 DEF HalfwayInv
  <2>5. QED
    BY <1>2, <2>3, <2>4
<1>8. CASE StartUnstatus(s) \/ StartState(s)
  <2>1. UNCHANGED <<watcher, loop, smPc>> /\ \A t \in Starters \ {s} : pc'[t] = pc[t]
    BY <1>8 DEF StartUnstatus, StartState
  <2>2. /\ pc[s] \in {"unstatus", "state"} /\ pc'[s] \in {"state", "unwatch"}
        /\ state' # state => pc[s] = "state"
    BY <1>8 DEF StartUnstatus, StartState
  <2>3. LaunchInv'
    BY <2>1, <2>2 DEF LaunchInv, LaunchPcs, Begun
  <2>4. HalfwayInv'
    BY <1>1, <2>1, <2>2 DEF HalfwayInv
  <2>5. QED
    BY <1>2, <2>3, <2>4
<1>9. CASE StartUnwatch(s) \/ StartResetOnce(s)
  <2>1. watcher' = "nil" /\ UNCHANGED <<loop, smPc>>
    BY <1>9 DEF StartUnwatch, StartResetOnce, WatchInv
  <2>2. pc'[s] \in {"cancelAll", "undone"} /\ \A t \in Starters \ {s} : pc'[t] = pc[t]
    BY <1>9 DEF StartUnwatch, StartResetOnce
  <2>3. LaunchInv' /\ HalfwayInv'
    BY <1>1, <2>1, <2>2 DEF LaunchInv, LaunchPcs, HalfwayInv
  <2>4. QED
    BY <1>2, <2>3
<1>10. QED
  BY <1>3, <1>4, <1>5, <1>6, <1>7, <1>8, <1>9 DEF StartStep

LEMMA StopBegun ==
  ASSUME LifeInv, ServerInv, BegunInv, NEW p \in Stoppers, StopBegin(p) \/ StopStep(p)
  PROVE  BegunInv'
<1> USE ServiceAssumption DEF ServiceAssumption, LifeInv, TypeOK, ServiceTypeOK, StatusTypeOK,
          BegunInv, Step
<1>1. ServerIsReleased' = ServerIsReleased
  BY DEF StopBegin, StopStep, StopOnce, StopStatus, StopUnwatch, StopClose, StopEndOnce,
    StopAwait, StopStore, StopJoin, serverVars, ServerIsReleased, AcceptExited
<1>2. /\ UNCHANGED loop
      /\ \A s \in Starters : pc'[s] = pc[s] /\ smPc'[s] = smPc[s]
      /\ watcher' = "open" => watcher = "open"
  BY DEF StopBegin, StopStep, StopOnce, StopStatus, StopUnwatch, StopClose, StopEndOnce,
    StopAwait, StopStore, StopJoin, RestOfStop, CallStatus
<1>3. state' = "stopped" => state = "stopped" \/ watcher' = "nil"
  BY DEF StopBegin, StopStep, StopOnce, StopStatus, StopUnwatch, StopClose, StopEndOnce,
    StopAwait, StopStore, StopJoin, WatchInv
<1>4. LaunchInv'
  BY <1>2, <1>3 DEF LaunchInv, LaunchPcs, Begun
<1>5. HalfwayInv'
  BY <1>1, <1>2 DEF HalfwayInv
<1>6. StoppingInv'
  <2>1. CASE StopBegin(p)
    BY <2>1 DEF StopBegin, StoppingInv, ShutPcs, ClosedPcs, DebouncerPcs
  <2>2. CASE StopStore(p)
    BY <2>2 DEF StopStore, StoppingInv
  <2>3. CASE StopStep(p) /\ ~StopStore(p)
    <3>1. UNCHANGED state /\ \A q \in Stoppers \ {p} : pc'[q] = pc[q]
      BY <2>3 DEF StopStep, StopOnce, StopStatus, StopUnwatch, StopClose, StopEndOnce, StopAwait,
        StopJoin
    <3>2. pc[p] \in ShutPcs => pc'[p] \in ShutPcs
      BY <2>3 DEF StopStep, StopOnce, StopStatus, StopUnwatch, StopClose, StopEndOnce, StopAwait,
        StopJoin, ShutPcs, ClosedPcs, DebouncerPcs
    <3>3. QED
      BY <3>1, <3>2 DEF StoppingInv
  <2>4. QED
    BY <2>1, <2>2, <2>3
<1>7. QED
  BY <1>4, <1>5, <1>6

LEMMA StatusBegun ==
  ASSUME ~SlowAccept, LifeInv, ServerInv, BegunInv, NEW c \in Clients, StatusServer(StatusCall(c))
  PROVE  BegunInv'
<1> USE ServiceAssumption, StatusAssumption DEF ServiceAssumption, StatusAssumption, LifeInv,
          TypeOK, ServiceTypeOK, StatusTypeOK, ServerInv, BegunInv, StatusAt
<1>1. UNCHANGED <<pc, state, watcher, loop>> /\ StatusCall(c)
  BY DEF StatusServer, serviceVars
<1>2. LaunchInv' /\ StoppingInv'
  BY <1>1 DEF LaunchInv, StoppingInv, Begun
<1>3. HalfwayInv'
  <2> SUFFICES ASSUME NEW s \in Starters,
                      \/ pc[s] = "status" /\ smPc'[s] = "failed"
                      \/ pc[s] = "halfway"
               PROVE  ServerIsReleased'
    BY <1>1 DEF HalfwayInv
  <2>1. smPc[c] \in StartWork => c \in Starters /\ pc[c] = "status" /\ watcher = "open"
    BY DEF CallInv, WatchInv
  <2>2. smPc[c] \in StartWork => pc[s] # "halfway" /\ c = s
    BY <2>1 DEF LaunchInv, LaunchPcs, Begun, TurnInv, Active, OverCall
  <2>3. CASE StatusStart(c)
    <3>1. NotServed /\ UNCHANGED <<listening, accept>>
      BY <2>3 DEF StatusStart, ServedInv
    <3>2. QED
      BY <3>1 DEF NotServed, ServerIsReleased, AcceptExited
  <2>4. CASE StatusListen(c)
    <3>1. c = s /\ smPc[c] = "listen"
      BY <2>2, <2>4 DEF StatusListen, StartWork
    <3>2. smPc'[s] = "failed" /\ UNCHANGED <<listening, accept>>
      BY <1>1, <2>2, <2>4, <3>1 DEF StatusListen, StartWork
    <3>3. smSocket = Nobody /\ AcceptExited
      BY <3>1 DEF ServedInv
    <3>4. \A d \in Clients : smPc[d] # "serve"
      BY <3>1, OneCall DEF StartWork
    <3>5. listening = {}
      BY <3>3, <3>4 DEF ServedInv
    <3>6. QED
      BY <3>2, <3>3, <3>5 DEF ServerIsReleased, AcceptExited
  <2>5. CASE StatusServe(c)
    BY <1>1, <2>2, <2>5 DEF StatusServe, StartWork
  <2>6. CASE StatusStop(c) \/ StatusSignal(c) \/ StatusWait(c) \/ StatusClose(c)
               \/ StatusRemove(c)
    <3>1. UNCHANGED accept /\ listening' \subseteq listening
      BY <2>6 DEF StatusStop, StatusSignal, StatusWait, StatusClose, StatusRemove, serverVars
    <3>2. smPc[c] \in StopWork
      BY <2>6 DEF StatusStop, StatusSignal, StatusWait, StatusClose, StatusRemove, StopWork
    <3>3. c # s \/ pc[s] = "halfway"
      BY <3>2 DEF CallInv
    <3>4. smPc'[s] = smPc[s] \/ pc[s] = "halfway"
      BY <2>6, <3>3 DEF StatusStop, StatusSignal, StatusWait, StatusClose, StatusRemove
    <3>5. ServerIsReleased
      BY <3>4 DEF HalfwayInv
    <3>6. QED
      BY <3>1, <3>5 DEF ServerIsReleased, AcceptExited
  <2>7. QED
    BY <1>1, <2>3, <2>4, <2>5, <2>6 DEF StatusCall
<1>4. QED
  BY <1>2, <1>3

LEMMA BegunStep ==
  ASSUME ~Overlap, ~SlowAccept, LifeInv, ServerInv, BegunInv, [Next]_vars
  PROVE  BegunInv'
<1> USE DEF BegunInv
<1>1. CASE SyncStep \/ UNCHANGED vars
  <2>1. UNCHANGED <<serverVars, smPc, pc, state, watcher, loop>>
    BY <1>1, SyncsApart DEF vars, statusVars, serviceVars
  <2>2. QED
    BY <2>1 DEF LaunchInv, HalfwayInv, StoppingInv, Begun, ServerIsReleased, AcceptExited,
      serverVars
<1>2. ASSUME NEW s \in Starters, EventLoop(s)
      PROVE  BegunInv'
  <2>1. UNCHANGED <<serverVars, smPc, pc, state, watcher>>
    BY <1>2 DEF EventLoop, LoopTop, LoopSelect, LoopEvent, LoopAdd, LoopError, LoopStep,
      statusVars, serviceVars
  <2>2. loop[s] # "none" /\ \A t \in Starters \ {s} : loop'[t] = loop[t]
    BY <1>2 DEF EventLoop, LoopTop, LoopSelect, LoopEvent, LoopAdd, LoopError, LoopStep,
      LifeInv, TypeOK, ServiceTypeOK
  <2>3. QED
    BY <2>1, <2>2 DEF LaunchInv, HalfwayInv, StoppingInv, Begun, ServerIsReleased, AcceptExited,
      serverVars
<1>3. ASSUME NEW c \in Clients, StopTheDebouncer(c)
      PROVE  BegunInv'
  <2>1. PICK here \in DebouncerPcs, next \in DebouncerPcs \cup {AfterDebouncer(c)} :
          pc[c] = here /\ pc' = [pc EXCEPT ![c] = next]
    BY <1>3 DEF StopTheDebouncer, CancelAll, StopDebouncer, CancelTimers, CancelCtx, EndDebouncer,
      Step, DebouncerPcs
  <2>2. UNCHANGED <<serverVars, smPc, state, watcher, loop>>
    BY <1>3 DEF StopTheDebouncer, CancelAll, StopDebouncer, CancelTimers, CancelCtx, EndDebouncer,
      Step
  <2>3. ServerIsReleased' = ServerIsReleased
    BY <2>2 DEF ServerIsReleased, AcceptExited, serverVars
  <2>4. \A d \in Clients \ {c} : pc'[d] = pc[d]
    BY <2>1 DEF LifeInv, TypeOK, ServiceTypeOK
  <2>5. /\ pc'[c] \notin LaunchPcs \cup {"status", "halfway"}
        /\ c \in Stoppers => pc'[c] \in ShutPcs
    BY <2>1, ServiceAssumption DEF ServiceAssumption, LifeInv, TypeOK, ServiceTypeOK,
      AfterDebouncer, DebouncerPcs, ShutPcs, ClosedPcs, LaunchPcs
  <2>6. LaunchInv' /\ HalfwayInv'
    BY <2>2, <2>3, <2>4, <2>5, ServiceAssumption DEF ServiceAssumption, LaunchInv, HalfwayInv,
      Begun
  <2>7. StoppingInv'
    BY <2>2, <2>4, <2>5, ServiceAssumption DEF ServiceAssumption, StoppingInv
  <2>8. QED
    BY <2>6, <2>7
<1>4. ASSUME NEW c \in Clients, StatusServer(AcceptLoop(c))
      PROVE  BegunInv'
  <2>1. UNCHANGED <<pc, state, watcher, loop, smPc>> /\ ~AcceptExited
    BY <1>4 DEF StatusServer, serviceVars, AcceptLoop, AcceptCheck, AcceptDeadline, AcceptReturns,
      AcceptStep, AcceptExited
  <2>2. QED
    BY <2>1 DEF LaunchInv, HalfwayInv, StoppingInv, Begun, ServerIsReleased
<1>5. QED
  BY <1>1, <1>2, <1>3, <1>4, StartBegun, StopBegun, StatusBegun DEF Next, SyncStep

LEMMA BegunInit == Init => BegunInv
BY ServiceAssumption DEF ServiceAssumption, Init, StatusInit, BegunInv, LaunchInv, HalfwayInv,
  StoppingInv, Begun, LaunchPcs

-----------------------------------------------------------------------------
(* What works while the service is stopped.  A call that runs holds the lock  *)
(* of the debouncer, which CancelAll needs, and one that comes later finds    *)
(* the context cancelled.                                                    *)

Busy == {"status", "ask", "git", "gone", "error", "done"}

WorkInv ==
  /\ life = "closed" \/ ~advanced => \A r \in Requests : request[r] \notin {"queued", "serving"}
  /\ \A r \in Requests : syncPc[r] \in Busy => request[r] \in {"serving", "own"}
  /\ \A c \in Calls : syncPc[c] \in Busy => call[c] = "running"

\* No call works on the repository after it was cancelled.
CancelledInv ==
  \A p \in Stoppers : pc[p] \in (DebouncerPcs \ {"cancelAll"}) \cup ClosedPcs \cup {"stopped"} =>
    \A c \in Calls : syncPc[c] # "git"

\* The debouncer is closed, and the event loops have returned.
ClosedInv ==
  advanced => /\ \A s \in Starters : pc[s] \in {"resetOnce", "undone"} => life = "closed"
              /\ \A p \in Stoppers : pc[p] \in ClosedPcs \cup {"stopped"} => life = "closed"

LoopInv == \A p \in Stoppers \ Impatient : pc[p] \in {"store", "stopped"} => LoopsExited

QuietInv == WorkInv /\ CancelledInv /\ ClosedInv /\ LoopInv

LEMMA SyncQuiet ==
  ASSUME LifeInv, QuietInv, SyncStep
  PROVE  QuietInv'
<1> USE ServiceAssumption DEF ServiceAssumption, LifeInv, TypeOK, ContractTypeOK, ServiceTypeOK,
          SyncAt, Busy, Syncs, QuietInv
<1>1. UNCHANGED <<advanced, life, ctxDone, loop, pc>>
  BY SyncsApart DEF serviceVars
<1>2. ClosedInv' /\ LoopInv'
  BY <1>1 DEF ClosedInv, LoopInv, LoopsExited
<1>3. ASSUME NEW c \in Calls, BeginCall(c)
      PROVE  WorkInv' /\ CancelledInv'
  <2>1. WorkInv'
    BY <1>1, <1>3 DEF BeginCall, Begin, WorkInv
  <2>2. CancelledInv'
    BY <1>1, <1>3 DEF BeginCall, CancelledInv
  <2>3. QED
    BY <2>1, <2>2
<1>4. ASSUME NEW r \in Requests, CheckRunning(r) \/ RequestSync(r)
      PROVE  WorkInv' /\ CancelledInv'
  <2>1. WorkInv'
    <3>1. CASE CheckRunning(r)
      BY <1>1, <3>1 DEF CheckRunning, contractVars, WorkInv
    <3>2. CASE RequestSync(r) /\ Accept(r)
      BY <1>1, <3>2 DEF RequestSync, Accept, WorkInv, Bypass
    <3>3. CASE RequestSync(r) /\ Bypass(r)
      BY <1>1, <3>3 DEF RequestSync, Bypass, Accept, Withdraw, WorkInv
    <3>4. CASE RequestSync(r) /\ UNCHANGED contractVars
      BY <1>1, <3>4 DEF RequestSync, Bypass, Accept, contractVars, WorkInv
    <3>5. QED
      BY <1>4, <3>1, <3>2, <3>3, <3>4 DEF RequestSync
  <2>2. CancelledInv'
    BY <1>1, <1>4 DEF CheckRunning, RequestSync, CancelledInv
  <2>3. QED
    BY <2>1, <2>2
<1>5. ASSUME NEW x \in Syncs, Sync(x)
      PROVE  WorkInv' /\ CancelledInv'
  <2>1. WorkInv'
    <3>1. CASE x \in Requests /\ ServeRequest(x)
      BY <1>1, <3>1 DEF ServeRequest, Serve, Withdraw, WorkInv
    <3>2. CASE ReportSyncing(x) \/ AskContext(x) \/ GitReturns(x) \/ ReportResult(x)
      BY <1>1, <3>2 DEF ReportSyncing, AskContext, GitReturns, ReportResult, contractVars, WorkInv
    <3>3. CASE EndSync(x)
      BY <1>1, <3>3 DEF EndSync, Finish, Answer, WorkInv
    <3>4. QED
      BY <1>5, <3>1, <3>2, <3>3 DEF Sync
  <2>2. CancelledInv'
    <3>1. CASE AskContext(x)
      BY <1>1, <3>1 DEF AskContext, CancelledInv, WatchInv, ShutPcs, ClosedPcs, DebouncerPcs
    <3>2. CASE ~AskContext(x)
      BY <1>1, <1>5, <3>2 DEF Sync, ServeRequest, ReportSyncing, GitReturns, ReportResult,
        EndSync, CancelledInv
    <3>3. QED
      BY <3>1, <3>2
  <2>3. QED
    BY <2>1, <2>2
<1>6. CASE DebouncerWithdraws
  <2>1. WorkInv'
    BY <1>1, <1>6 DEF DebouncerWithdraws, WithdrawSome, Withdraw, WorkInv
  <2>2. CancelledInv'
    BY <1>1, <1>6 DEF DebouncerWithdraws, CancelledInv
  <2>3. QED
    BY <1>2, <2>1, <2>2
<1>7. QED
  BY <1>2, <1>3, <1>4, <1>5, <1>6 DEF SyncStep

LEMMA LoopQuiet ==
  ASSUME LifeInv, QuietInv, NEW s \in Starters, EventLoop(s)
  PROVE  QuietInv'
<1> USE DEF LifeInv, TypeOK, ContractTypeOK, ServiceTypeOK, QuietInv
<1>1. UNCHANGED <<advanced, pc, syncPc>> /\ loop[s] \in {"top", "select", "event", "adding", "error"}
  BY DEF EventLoop, LoopTop, LoopSelect, LoopEvent, LoopAdd, LoopError, LoopStep, serviceVars
<1>2. UNCHANGED <<request, life>>
  BY DEF EventLoop, LoopTop, LoopSelect, LoopEvent, LoopAdd, LoopError, contractVars, Submit,
    WithdrawSome
<1>3. \A c \in Calls : call[c] = "running" => call'[c] = "running"
  BY DEF EventLoop, LoopTop, LoopSelect, LoopEvent, LoopAdd, LoopError, contractVars, Submit,
    WithdrawSome, Withdraw, Free
<1>4. WorkInv' /\ CancelledInv' /\ ClosedInv'
  BY <1>1, <1>2, <1>3 DEF WorkInv, CancelledInv, ClosedInv
<1>5. LoopInv'
  BY <1>1 DEF LoopInv, LoopsExited
<1>6. QED
  BY <1>4, <1>5

LEMMA DebouncerQuiet ==
  ASSUME LifeInv, QuietInv, NEW c \in Clients, StopTheDebouncer(c)
  PROVE  QuietInv'
<1> USE ServiceAssumption DEF ServiceAssumption, LifeInv, TypeOK, ContractTypeOK, ServiceTypeOK,
          QuietInv, Step
<1>1. UNCHANGED <<advanced, loop, syncPc, request>>
  BY DEF StopTheDebouncer, CancelAll, StopDebouncer, CancelTimers, CancelCtx, EndDebouncer,
    contractVars, WithdrawSome, BeginClose, CancelContext, EndClose
<1>2. LoopInv'
  <2>1. \A p \in Stoppers : pc'[p] \in {"store", "stopped"} => pc'[p] = pc[p]
    BY DEF StopTheDebouncer, CancelAll, StopDebouncer, CancelTimers, CancelCtx, EndDebouncer,
      AfterDebouncer
  <2>2. QED
    BY <1>1, <2>1 DEF LoopInv, LoopsExited
<1>3. life = "closed" => UNCHANGED life
  BY DEF StopTheDebouncer, CancelAll, StopDebouncer, CancelTimers, CancelCtx, EndDebouncer,
    contractVars, WithdrawSome, BeginClose, CancelContext, EndClose
<1>4. CASE CancelAll(c) \/ CancelTimers(c)
  <2>1. /\ UNCHANGED life
        /\ \A d \in Calls : call[d] # "running"
    BY <1>4 DEF CancelAll, CancelTimers, WithdrawSome, Free
  <2>2. \A d \in Calls : syncPc[d] \notin Busy
    BY <2>1 DEF WorkInv
  <2>3. WorkInv'
    BY <1>1, <2>1, <2>2 DEF WorkInv
  <2>4. CancelledInv'
    BY <1>1, <2>2 DEF CancelledInv, Busy
  <2>5. ClosedInv'
    BY <1>1, <1>4, <2>1 DEF CancelAll, CancelTimers, ClosedInv, AfterDebouncer, ClosedPcs
  <2>6. QED
    BY <1>2, <2>3, <2>4, <2>5
<1>5. CASE StopDebouncer(c) \/ CancelCtx(c) \/ EndDebouncer(c)
  <2>1. UNCHANGED call
    BY <1>5 DEF StopDebouncer, CancelCtx, EndDebouncer, contractVars, BeginClose, CancelContext,
      EndClose
  <2>2. life' = "closed" => \/ life = "closed"
                            \/ \A r \in Requests : request[r] \notin {"queued", "serving"}
    BY <1>5 DEF StopDebouncer, CancelCtx, EndDebouncer, contractVars, BeginClose, CancelContext,
      EndClose
  <2>3. WorkInv'
    BY <1>1, <2>1, <2>2 DEF WorkInv
  <2>4. CancelledInv'
    BY <1>1, <1>5 DEF CancelledInv, StopDebouncer, CancelCtx, EndDebouncer, DebouncerPcs
  <2>5. ClosedInv'
    BY <1>1, <1>3, <1>5 DEF ClosedInv, StopDebouncer, CancelCtx, EndDebouncer, EndClose,
      AfterDebouncer, ClosedPcs
  <2>6. QED
    BY <1>2, <2>3, <2>4, <2>5
<1>6. QED
  BY <1>4, <1>5 DEF StopTheDebouncer

LEMMA StartQuiet ==
  ASSUME LifeInv, QuietInv, NEW s \in Starters, StartBegin(s) \/ StartStep(s)
  PROVE  QuietInv'
<1> USE ServiceAssumption DEF ServiceAssumption, LifeInv, TypeOK, ServiceTypeOK, QuietInv, Step,
          RestOfStart
<1>1. UNCHANGED <<contractVars, advanced, syncPc>>
  BY DEF StartBegin, StartStep, StartWatcher, StartStatus, StartWatch, StartUnstatus, StartLoop,
    StartState, StartUnwatch, StartResetOnce
<1>2. /\ \A p \in Stoppers : pc'[p] = pc[p]
      /\ \A t \in Starters : pc'[t] \in {"resetOnce", "undone"} =>
           pc[t] \in {"resetOnce", "undone"}
  BY DEF StartBegin, StartStep, StartWatcher, StartStatus, StartWatch, StartUnstatus, StartLoop,
    StartState, StartUnwatch, StartResetOnce
<1>3. WorkInv' /\ CancelledInv' /\ ClosedInv'
  BY <1>1, <1>2 DEF contractVars, WorkInv, CancelledInv, ClosedInv
<1>4. LoopInv'
  <2>1. CASE StartLoop(s)
    \* There is no stopped service to be started.
    <3>1. \A p \in Stoppers : pc[p] \notin {"store", "stopped"}
      BY <2>1 DEF StartLoop, WatchInv
    <3>2. QED
      BY <1>2, <3>1 DEF LoopInv
  <2>2. CASE ~StartLoop(s)
    <3>1. UNCHANGED loop
      BY <2>2 DEF StartBegin, StartStep, StartWatcher, StartStatus, StartWatch, StartUnstatus,
        StartState, StartUnwatch, StartResetOnce
    <3>2. QED
      BY <1>2, <3>1 DEF LoopInv, LoopsExited
  <2>3. QED
    BY <2>1, <2>2
<1>5. QED
  BY <1>3, <1>4

LEMMA StopQuiet ==
  ASSUME LifeInv, QuietInv, NEW p \in Stoppers, StopBegin(p) \/ StopStep(p)
  PROVE  QuietInv'
<1> USE ServiceAssumption DEF ServiceAssumption, LifeInv, TypeOK, ServiceTypeOK, QuietInv, Step,
          RestOfStop, ClosedPcs, DebouncerPcs
<1>1. UNCHANGED <<contractVars, advanced, syncPc, loop>>
  BY DEF StopBegin, StopStep, StopOnce, StopStatus, StopUnwatch, StopClose, StopEndOnce,
    StopAwait, StopStore, StopJoin
\* Nobody else has done the Once.
<1>2. pc[p] = "once" => ~once.done
  BY DEF OnceInv, TurnInv, ShutPcs
<1>3. /\ \A c \in Clients \ {p} : pc'[c] = pc[c]
      /\ pc'[p] \in (DebouncerPcs \ {"cancelAll"}) \cup ClosedPcs \cup {"stopped"} =>
           pc[p] \in ClosedPcs
  BY <1>2 DEF StopBegin, StopStep, StopOnce, StopStatus, StopUnwatch, StopClose, StopEndOnce,
    StopAwait, StopStore, StopJoin
<1>4. WorkInv' /\ CancelledInv' /\ ClosedInv'
  <2>1. WorkInv'
    BY <1>1 DEF contractVars, WorkInv
  <2>2. CancelledInv'
    BY <1>1, <1>3 DEF contractVars, CancelledInv
  <2>3. ClosedInv'
    BY <1>1, <1>3 DEF contractVars, ClosedInv
  <2>4. QED
    BY <2>1, <2>2, <2>3
<1>5. LoopInv'
  <2>1. p \notin Impatient /\ pc'[p] \in {"store", "stopped"} => LoopsExited
    BY DEF StopBegin, StopStep, StopOnce, StopStatus, StopUnwatch, StopClose, StopEndOnce,
      StopAwait, StopStore, StopJoin, LoopInv
  <2>2. QED
    BY <1>1, <1>3, <2>1 DEF LoopInv, LoopsExited
<1>6. QED
  BY <1>4, <1>5

LEMMA QuietStep ==
  ASSUME LifeInv, QuietInv, [Next]_vars
  PROVE  QuietInv'
<1>1. CASE \/ \E c \in Clients : StatusServer(StatusCall(c)) \/ StatusServer(AcceptLoop(c))
           \/ UNCHANGED vars
  <2>1. UNCHANGED <<contractVars, advanced, loop, pc, syncPc>>
    BY <1>1 DEF StatusServer, serviceVars, vars
  <2>2. QED
    BY <2>1 DEF contractVars, QuietInv, WorkInv, CancelledInv, ClosedInv, LoopInv, LoopsExited
<1>2. QED
  BY <1>1, SyncQuiet, LoopQuiet, DebouncerQuiet, StartQuiet, StopQuiet DEF Next, SyncStep

LEMMA QuietInit == Init => QuietInv
BY ServiceAssumption DEF ServiceAssumption, Init, ContractInit, QuietInv, WorkInv, CancelledInv,
  ClosedInv, LoopInv, Syncs, Busy, DebouncerPcs, ClosedPcs

-----------------------------------------------------------------------------
(* The theorems.  ~Overlap is how the daemon uses the service: its Start has  *)
(* returned before a signal, a callback or an error makes a Stop, and no      *)
(* Start follows while one is under way.  ~SlowAccept: the goroutine of the   *)
(* server, whose Accept has a deadline of one second, ends within the two     *)
(* that Stop waits for it.                                                   *)

LEMMA LifeCorrect ==
  ASSUME ~Overlap
  PROVE  Spec => [](LifeInv /\ QuietInv)
<1>1. Init => LifeInv /\ QuietInv
  BY LifeInit, QuietInit
<1>2. LifeInv /\ QuietInv /\ [Next]_vars => (LifeInv /\ QuietInv)'
  BY LifeStep, QuietStep
<1>3. QED
  BY <1>1, <1>2, PTL DEF Spec

LEMMA ServerCorrect ==
  ASSUME ~Overlap, ~SlowAccept
  PROVE  Spec => []ServerInv
<1>1. Init => ServerInv
  BY ServerInit
<1>2. LifeInv /\ ServerInv /\ [Next]_vars => ServerInv'
  BY ServerStep
<1>3. QED
  BY <1>1, <1>2, LifeCorrect, PTL DEF Spec

LEMMA BegunCorrect ==
  ASSUME ~Overlap, ~SlowAccept
  PROVE  Spec => []BegunInv
<1>1. Init => BegunInv
  BY BegunInit
<1>2. LifeInv /\ ServerInv /\ BegunInv /\ [Next]_vars => BegunInv'
  BY BegunStep
<1>3. QED
  BY <1>1, <1>2, LifeCorrect, ServerCorrect, PTL DEF Spec

\* The goroutine that accepts connections of the status server never meets the
\* nil that Stop writes into sm.socket: Stop waits for it, and no Start follows.
THEOREM NoNilSocketCorrect ==
  ASSUME ~Overlap, ~SlowAccept
  PROVE  Spec => []NoNilSocket
<1>1. ServerInv => NoNilSocket
  BY DEF ServerInv, ServedInv, NoNilSocket
<1>2. QED
  BY <1>1, ServerCorrect, PTL

\* When the shutdown of the status server is over, no goroutine accepts and
\* nothing listens, and neither comes back.
THEOREM ServerIsDownCorrect ==
  ASSUME ~Overlap, ~SlowAccept
  PROVE  Spec => []ServerIsDown
<1>1. ServerInv => ServerIsDown
  BY DEF ServerInv, ServedInv, ServerIsDown, ServerIsReleased
<1>2. QED
  BY <1>1, ServerCorrect, PTL

\* When a Stop that was ready to wait has returned, no event loop, no watch, no
\* server and no worker of the debouncer is left, and no sync touches the
\* repository except a request that runs in a goroutine of its own.
THEOREM StoppedIsQuietCorrect ==
  ASSUME ~Overlap, ~SlowAccept
  PROVE  Spec => []StoppedIsQuiet
<1>1. LifeInv /\ QuietInv /\ ServerInv => StoppedIsQuiet
  <2> SUFFICES ASSUME LifeInv, QuietInv, ServerInv,
                      NEW p \in Stoppers \ Impatient, pc[p] = "stopped"
               PROVE  /\ LoopsExited
                      /\ watcher = "nil" /\ closed
                      /\ ServerIsReleased
                      /\ advanced => life = "closed"
                      /\ \A x \in Syncs :
                           syncPc[x] = "git" => x \in Requests /\ request[x] = "own"
    BY DEF StoppedIsQuiet
  <2>1. LoopsExited
    BY DEF QuietInv, LoopInv
  <2>2. watcher = "nil" /\ closed
    BY DEF LifeInv, WatchInv
  <2>3. ServerIsReleased
    BY <2>2 DEF ServerInv, ReleaseInv
  <2>4. advanced => life = "closed"
    BY DEF QuietInv, ClosedInv
  <2>5. \A c \in Calls : syncPc[c] # "git"
    BY DEF QuietInv, CancelledInv
  <2>6. \A r \in Requests : syncPc[r] = "git" => request[r] = "own"
    BY <2>4 DEF QuietInv, WorkInv, Busy
  <2>7. QED
    BY <2>1, <2>2, <2>3, <2>4, <2>5, <2>6 DEF Syncs
<1>2. QED
  BY <1>1, LifeCorrect, ServerCorrect, PTL

\* What a Start that failed leaves behind once no other call is under way: nothing
\* when it could not watch the repository or found the service stopped; a service
\* that says it is running, has its watch and no event loop and no server, when
\* the status server did not start and nobody has stopped the service since.
THEOREM FailedStartLeavesCorrect ==
  ASSUME ~Overlap, ~SlowAccept
  PROVE  Spec => []FailedStartLeaves
<1>1. LifeInv /\ QuietInv /\ ServerInv /\ BegunInv => FailedStartLeaves
  <2> SUFFICES ASSUME LifeInv, QuietInv, ServerInv, BegunInv,
                      \A c \in Clients : pc[c] \in OverCall, NEW s \in Starters
               PROVE  /\ pc[s] = "undone" =>
                           /\ watcher = "nil" /\ closed
                           /\ ServerIsReleased
                           /\ advanced => life = "closed"
                      /\ pc[s] = "halfway" /\ state # "stopped" =>
                           /\ state = "running"
                           /\ watcher = "open" /\ ~closed
                           /\ ServerIsReleased
                           /\ \A t \in Starters : loop[t] = "none"
    BY DEF FailedStartLeaves
  <2>1. CASE pc[s] = "undone"
    <3>1. watcher = "nil"
      BY <2>1 DEF LifeInv, WatchInv
    <3>2. closed
      BY <3>1, ServiceAssumption DEF ServiceAssumption, LifeInv, WatchInv, OverCall
    <3>3. ServerIsReleased
      BY <3>1 DEF ServerInv, ReleaseInv
    <3>4. advanced => life = "closed"
      BY <2>1 DEF QuietInv, ClosedInv
    <3>5. QED
      BY <2>1, <3>1, <3>2, <3>3, <3>4
  <2>2. CASE pc[s] = "halfway" /\ state # "stopped"
    <3>1. state = "running"
      BY <2>2, ServiceAssumption DEF ServiceAssumption, LifeInv, TypeOK, ServiceTypeOK,
        BegunInv, StoppingInv, OverCall, ShutPcs, ClosedPcs, DebouncerPcs
    <3>2. watcher = "open" /\ ~closed
      BY <3>1, ServiceAssumption DEF ServiceAssumption, LifeInv, WatchInv, Active
    <3>3. QED
      BY <2>2, <3>1, <3>2 DEF BegunInv, HalfwayInv
  <2>3. QED
    BY <2>1, <2>2
<1>2. QED
  BY <1>1, LifeCorrect, ServerCorrect, BegunCorrect, PTL

-----------------------------------------------------------------------------
(* What the daemon reports.  Each sync that could have left "syncing" behind  *)
(* is still on its way to report how it ended, or the service is stopping.    *)
(* Calls of Start and Stop may overlap.                                       *)

Reporting == {"ask", "git", "error", "done"}

SettleInv ==
  /\ \A x \in Syncs : syncPc[x] = "gone" => ctxDone
  /\ ~ctxDone /\ reported = "syncing" => \E x \in Syncs : syncPc[x] \in Reporting

LEMMA SettleSync ==
  ASSUME TypeOK, SettleInv, NEW x \in Syncs, Sync(x)
  PROVE  SettleInv'
<1> USE DEF TypeOK, ServiceTypeOK, StatusTypeOK, SyncAt, SetState, Reporting
<1>1. UNCHANGED ctxDone
  BY DEF Sync, ServeRequest, ReportSyncing, AskContext, GitReturns, ReportResult, EndSync,
    RestOfSyncStep, serviceVars
<1>2. (\A y \in Syncs : syncPc[y] = "gone" => ctxDone)'
  BY <1>1 DEF SettleInv, Sync, ServeRequest, ReportSyncing, AskContext, GitReturns, ReportResult,
    EndSync
<1>3. CASE ReportSyncing(x)
  BY <1>2, <1>3 DEF ReportSyncing, SettleInv
<1>4. CASE AskContext(x)
  BY <1>1, <1>2, <1>4 DEF AskContext, SettleInv
<1>5. CASE GitReturns(x)
  BY <1>1, <1>2, <1>5 DEF GitReturns, SettleInv
<1>6. CASE ReportResult(x)
  BY <1>1, <1>2, <1>6 DEF ReportResult, SettleInv
<1>7. CASE (x \in Requests /\ ServeRequest(x)) \/ EndSync(x)
  BY <1>1, <1>2, <1>7 DEF ServeRequest, EndSync, SettleInv
<1>8. QED
  BY <1>3, <1>4, <1>5, <1>6, <1>7 DEF Sync

LEMMA SettleStep ==
  ASSUME TypeOK, SettleInv, [Next]_vars
  PROVE  SettleInv'
<1> USE ServiceAssumption DEF ServiceAssumption, TypeOK, ServiceTypeOK, StatusTypeOK
<1>1. CASE \E x \in Syncs : Sync(x)
  BY <1>1, SettleSync
<1>2. CASE \/ \E c \in Calls : BeginCall(c)
           \/ \E r \in Requests : CheckRunning(r) \/ RequestSync(r)
           \/ DebouncerWithdraws
  <2>1. UNCHANGED <<ctxDone, reported>>
    BY <1>2 DEF BeginCall, CheckRunning, RequestSync, DebouncerWithdraws, RestOfSyncStep,
      serviceVars
  <2>2. \A x \in Syncs : \/ syncPc'[x] = syncPc[x]
                         \/ syncPc[x] \in {"none", "checked"} /\ syncPc'[x] # "gone"
    BY <1>2 DEF BeginCall, CheckRunning, RequestSync, DebouncerWithdraws, SyncAt
  <2>3. QED
    BY <2>1, <2>2 DEF SettleInv, Reporting
<1>3. ASSUME NEW s \in Starters, EventLoop(s) \/ StartBegin(s) \/ StartStep(s)
      PROVE  SettleInv'
  <2>1. UNCHANGED <<ctxDone, syncPc>>
    BY <1>3 DEF EventLoop, LoopTop, LoopSelect, LoopEvent, LoopAdd, LoopError, LoopStep, StartBegin,
      StartStep, StartWatcher, StartStatus, StartWatch, StartUnstatus, StartLoop, StartState,
      StartUnwatch, StartResetOnce, Step, RestOfStart, serviceVars
  <2>2. reported' \in {reported, "error", "running"}
    BY <1>3 DEF EventLoop, LoopTop, LoopSelect, LoopEvent, LoopAdd, LoopError, LoopStep, StartBegin,
      StartStep, StartWatcher, StartStatus, StartWatch, StartUnstatus, StartLoop, StartState,
      StartUnwatch, StartResetOnce, SetState, statusVars
  <2>3. QED
    BY <2>1, <2>2 DEF SettleInv
<1>4. ASSUME NEW p \in Stoppers, StopBegin(p) \/ StopStep(p)
      PROVE  SettleInv'
  <2>1. UNCHANGED <<reported, syncPc>> /\ (ctxDone => ctxDone')
    BY <1>4 DEF StopBegin, StopStep, StopOnce, StopStatus, StopUnwatch, StopClose, StopEndOnce,
      StopAwait, StopStore, StopJoin, Step, RestOfStop
  <2>2. QED
    BY <2>1 DEF SettleInv
<1>5. ASSUME NEW c \in Clients,
             \/ StopTheDebouncer(c)
             \/ StatusServer(StatusCall(c)) \/ StatusServer(AcceptLoop(c))
      PROVE  SettleInv'
  <2>1. UNCHANGED <<ctxDone, syncPc>>
    BY <1>5 DEF StopTheDebouncer, CancelAll, StopDebouncer, CancelTimers, CancelCtx, EndDebouncer,
      Step, StatusServer, serviceVars
  <2>2. reported' \in {reported, "running", "stopping"}
    BY <1>5 DEF StopTheDebouncer, StatusServer, StatusCall, StatusStart, StatusListen, StatusServe,
      StatusStop, StatusSignal, StatusWait, StatusClose, StatusRemove, AcceptLoop, AcceptCheck,
      AcceptDeadline, AcceptReturns, AcceptStep
  <2>3. QED
    BY <2>1, <2>2 DEF SettleInv
<1>6. CASE UNCHANGED vars
  BY <1>6 DEF vars, statusVars, serviceVars, SettleInv
<1>7. QED
  BY <1>1, <1>2, <1>3, <1>4, <1>5, <1>6 DEF Next

\* While the service lives the daemon does not go on to report that it is
\* syncing once every sync has ended, in whatever way it did.
THEOREM StatusSettlesCorrect == Spec => []StatusSettles
<1>1. Init => SettleInv
  BY DEF Init, StatusInit, SettleInv
<1>2. TypeOK /\ SettleInv /\ [Next]_vars => SettleInv'
  BY SettleStep
<1>3. SettleInv => StatusSettles
  BY DEF SettleInv, StatusSettles, Reporting
<1>4. QED
  BY <1>1, <1>2, <1>3, TypeCorrect, PTL DEF Spec
=============================================================================
