---------------------------- MODULE BasicDebouncer ----------------------------
(***************************************************************************)
(* internal/debouncer/debouncer.go: callbacks delayed by timers, no        *)
(* context, no queue, no Stop.  The sync service uses it when no backoff   *)
(* is configured.                                                          *)
(*                                                                         *)
(* A timer is one time.AfterFunc.  Its goroutine holds d.mu while it runs  *)
(* the callback; Add, Cancel and CancelAll hold it for one step.           *)
(***************************************************************************)
CONSTANTS
  Keys,     \* debounce keys
  Timers,   \* one per call of Add
  None      \* no timer

ASSUME BasicAssumption == None \notin Timers

VARIABLES
  mu,         \* the timer whose goroutine runs its callback under d.mu, or None
  timers,     \* d.timers: key -> timer
  callback,   \* d.callback: key -> the timer whose function it holds
  tstate,     \* progress of each timer
  tkey        \* the key each timer was added under

vars == <<mu, timers, callback, tstate, tkey>>

States == {"unused", "armed", "stopped", "waiting", "running", "ran"}

TypeOK ==
  /\ mu \in Timers \cup {None}
  /\ timers \in [Keys -> Timers \cup {None}]
  /\ callback \in [Keys -> Timers \cup {None}]
  /\ tstate \in [Timers -> States]
  /\ tkey \in [Timers -> Keys \cup {None}]

\* New
Init ==
  /\ mu = None
  /\ timers = [k \in Keys |-> None]
  /\ callback = [k \in Keys |-> None]
  /\ tstate = [t \in Timers |-> "unused"]
  /\ tkey = [t \in Timers |-> None]

\* timer.Stop: no effect on a timer that has fired.
StopTimers(S) ==
  [t \in Timers |-> IF t \in S /\ tstate[t] = "armed" THEN "stopped" ELSE tstate[t]]

Forget(map, K) == [k \in Keys |-> IF k \in K THEN None ELSE map[k]]

\* Mutant: the timer of the key is forgotten without being stopped.
AddKeeping(t, k) ==
  /\ mu = None
  /\ tstate[t] = "unused"
  /\ tstate' = [tstate EXCEPT ![t] = "armed"]
  /\ timers' = [timers EXCEPT ![k] = t]
  /\ callback' = [callback EXCEPT ![k] = t]
  /\ tkey' = [tkey EXCEPT ![t] = k]
  /\ UNCHANGED mu

\* The timer of the key, if it has one, is stopped and replaced.
Add(t, k) ==
  /\ mu = None
  /\ tstate[t] = "unused"
  /\ tstate' = [StopTimers({timers[k]}) EXCEPT ![t] = "armed"]
  /\ timers' = [timers EXCEPT ![k] = t]
  /\ callback' = [callback EXCEPT ![k] = t]
  /\ tkey' = [tkey EXCEPT ![t] = k]
  /\ UNCHANGED mu

\* Cancel for one key, CancelAll for all of them.
Cancel(K) ==
  /\ mu = None
  /\ \E k \in K : timers[k] # None
  /\ tstate' = StopTimers({timers[k] : k \in K})
  /\ timers' = Forget(timers, K)
  /\ callback' = Forget(callback, K)
  /\ UNCHANGED <<mu, tkey>>

\* The runtime starts the goroutine of an expired timer.
Fire(t) ==
  /\ tstate[t] = "armed"
  /\ tstate' = [tstate EXCEPT ![t] = "waiting"]
  /\ UNCHANGED <<mu, timers, callback, tkey>>

\* Mutant: the callback runs without d.mu.
BeginCallbackUnlocked(t) ==
  /\ tstate[t] = "waiting"
  /\ mu' = t
  /\ tstate' = [tstate EXCEPT ![t] = "running"]
  /\ UNCHANGED <<timers, callback, tkey>>

\* d.mu is locked: capturedFn(), whatever became of the entries of the key.
BeginCallback(t) ==
  /\ mu = None
  /\ tstate[t] = "waiting"
  /\ mu' = t
  /\ tstate' = [tstate EXCEPT ![t] = "running"]
  /\ UNCHANGED <<timers, callback, tkey>>

\* Mutant: a panic is not recovered from, and d.mu stays locked.
EndCallbackLocked(t) ==
  /\ tstate[t] = "running"
  /\ tstate' = [tstate EXCEPT ![t] = "ran"]
  /\ \/ /\ mu' = None
        /\ timers' = Forget(timers, {tkey[t]})
        /\ callback' = Forget(callback, {tkey[t]})
     \/ UNCHANGED <<mu, timers, callback>>
  /\ UNCHANGED tkey

\* capturedFn returned, and the entries of the key go; or it panicked, and the
\* recovery skips that.
EndCallback(t) ==
  /\ tstate[t] = "running"
  /\ mu' = None
  /\ tstate' = [tstate EXCEPT ![t] = "ran"]
  /\ \/ /\ timers' = Forget(timers, {tkey[t]})
        /\ callback' = Forget(callback, {tkey[t]})
     \/ UNCHANGED <<timers, callback>>
  /\ UNCHANGED tkey

TimerGoroutine(t) == BeginCallback(t) \/ EndCallback(t)

Next ==
  \/ \E t \in Timers : (\E k \in Keys : Add(t, k)) \/ Fire(t) \/ TimerGoroutine(t)
  \/ \E K \in {{k} : k \in Keys} \cup {Keys} : Cancel(K)

Spec == Init /\ [][Next]_vars

\* Timers expire, callbacks return, a free mutex goes to someone who waits.
FairSpec ==
  /\ Spec
  /\ \A t \in Timers : WF_vars(Fire(t)) /\ WF_vars(TimerGoroutine(t))
-----------------------------------------------------------------------------
(* Properties *)

\* A timer that has fired is still pending until it holds d.mu.
AbstractCall(t) ==
  CASE tstate[t] = "unused" -> "new"
    [] tstate[t] \in {"armed", "waiting"} -> "pending"
    [] tstate[t] = "running" -> "running"
    [] OTHER -> "over"

abstractCall == [t \in Timers |-> AbstractCall(t)]

Contract == INSTANCE DebouncerContract WITH
  Calls <- Timers,
  Requests <- {},
  call <- abstractCall,
  request <- [r \in {} |-> "idle"],
  life <- "open",
  cancelled <- FALSE

\* The basic debouncer keeps the contract of the advanced one, without requests
\* and shutdown: one callback at a time, and Add and Cancel never reach into one
\* that runs.
ImplementsContract == Contract!ContractSpec

\* Of the timers of one key at most one is still to expire, unless a clean-up by
\* an earlier one removed the entry of the later: two armed timers of a key need
\* a third that ran.
TwoArmedNeedARun ==
  \A t, u \in Timers :
    t # u /\ tstate[t] = "armed" /\ tstate[u] = "armed" /\ tkey[t] = tkey[u]
      => \E v \in Timers : tkey[v] = tkey[t] /\ tstate[v] = "ran"

\* A change is acted upon, though other callbacks of the key panic or clean up:
\* an armed timer runs unless it is replaced or cancelled.
AddedRuns == \A t \in Timers : (tstate[t] = "armed") ~> (tstate[t] \in {"ran", "stopped"})

-----------------------------------------------------------------------------
(* Claims of comments and tests that do not hold: TLC refutes each of them   *)
(* when it is added to a configuration (README, section 5).                  *)

\* "the previous function is cancelled and the new one will be executed after
\* the delay" (line 27), "the old callback should not execute" when it is about to
\* fire (debouncer_test.go:139): a callback that begins was not replaced.
ReplacedNeverRuns ==
  [][\A t \in Timers : tstate'[t] = "running" /\ tstate[t] # "running"
       => timers[tkey[t]] \in {t, None}]_vars

\* "Pending returns the number of pending debounced functions" (line 91): an
\* entry is about a timer that has still to finish.
PendingIsLive ==
  \A k \in Keys : timers[k] # None => tstate[timers[k]] \in {"armed", "waiting", "running"}
=============================================================================
