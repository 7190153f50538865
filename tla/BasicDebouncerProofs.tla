------------------------- MODULE BasicDebouncerProofs -------------------------
(***************************************************************************)
(* What is proved of BasicDebouncer for every set of keys and timers.      *)
(***************************************************************************)
EXTENDS BasicDebouncer, TLAPS

LEMMA TypeCorrect == Spec => []TypeOK
<1>1. Init => TypeOK
  BY DEF Init, TypeOK, States
<1>2. TypeOK /\ [Next]_vars => TypeOK'
  <2> SUFFICES ASSUME TypeOK, [Next]_vars PROVE TypeOK'
    OBVIOUS
  <2>1. ASSUME NEW t \in Timers, NEW k \in Keys, Add(t, k) PROVE TypeOK'
    BY <2>1 DEF Add, StopTimers, TypeOK, States
  <2>2. ASSUME NEW t \in Timers, Fire(t) \/ TimerGoroutine(t) PROVE TypeOK'
    BY <2>2 DEF Fire, TimerGoroutine, BeginCallback, EndCallback, Forget, TypeOK, States
  <2>3. ASSUME NEW K, Cancel(K) PROVE TypeOK'
    BY <2>3 DEF Cancel, StopTimers, Forget, TypeOK, States
  <2>4. CASE UNCHANGED vars
    BY <2>4 DEF vars, TypeOK
  <2>5. QED
    BY <2>1, <2>2, <2>3, <2>4 DEF Next
<1>3. QED
  BY <1>1, <1>2, PTL DEF Spec

-----------------------------------------------------------------------------
(* Two armed timers of a key.  The entry of the key leads to all armed timers *)
(* but those whose entry a callback removed.                                  *)

RanUnder(k) == \E v \in Timers : tkey[v] = k /\ tstate[v] = "ran"

EntryInv ==
  \A t \in Timers : tstate[t] = "armed" => timers[tkey[t]] = t \/ RanUnder(tkey[t])

\* A timer that was used has a key.
KeyInv == \A t \in Timers : tstate[t] # "unused" => tkey[t] \in Keys

LEMMA EntryNext ==
  ASSUME TypeOK, KeyInv, EntryInv, [Next]_vars
  PROVE  KeyInv' /\ EntryInv'
<1>1. ASSUME NEW t \in Timers, NEW k \in Keys, Add(t, k) PROVE KeyInv' /\ EntryInv'
  <2>1. KeyInv'
    BY <1>1 DEF Add, StopTimers, TypeOK, KeyInv
  <2>2. ASSUME NEW v \in Timers, tstate[v] = "ran"
        PROVE  tstate'[v] = "ran" /\ tkey'[v] = tkey[v]
    BY <1>1, <2>2 DEF Add, StopTimers, TypeOK
  <2>3. ASSUME NEW u \in Timers, tstate'[u] = "armed"
        PROVE  \/ timers'[tkey'[u]] = u
               \/ \E v \in Timers : tkey'[v] = tkey'[u] /\ tstate'[v] = "ran"
    <3>1. CASE u = t
      BY <1>1, <3>1 DEF Add, TypeOK
    <3>2. CASE u # t
      <4>1. tstate[u] = "armed" /\ tkey'[u] = tkey[u] /\ tkey[u] \in Keys
        BY <1>1, <2>3, <3>2 DEF Add, StopTimers, TypeOK, KeyInv
      <4>2. CASE RanUnder(tkey[u])
        BY <2>2, <4>1, <4>2 DEF RanUnder
      <4>3. CASE timers[tkey[u]] = u
        BY <1>1, <2>3, <3>2, <4>1, <4>3 DEF Add, StopTimers, TypeOK
      <4>4. QED
        BY <4>1, <4>2, <4>3 DEF EntryInv
    <3>3. QED
      BY <3>1, <3>2
  <2>4. EntryInv'
    BY <2>3 DEF EntryInv, RanUnder
  <2>5. QED
    BY <2>1, <2>4
<1>2. ASSUME NEW t \in Timers, Fire(t) \/ BeginCallback(t) PROVE KeyInv' /\ EntryInv'
  <2>1. /\ UNCHANGED <<timers, tkey>> /\ tstate[t] \in {"armed", "waiting"}
        /\ \E st \in {"waiting", "running"} : tstate' = [tstate EXCEPT ![t] = st]
    BY <1>2 DEF Fire, BeginCallback
  <2>2. KeyInv'
    BY <2>1 DEF TypeOK, KeyInv
  <2>3. ASSUME NEW u \in Timers
        PROVE  /\ tstate'[u] = "armed" => tstate[u] = "armed"
               /\ tstate[u] = "ran" => tstate'[u] = "ran"
    BY <2>1 DEF TypeOK
  <2>4. EntryInv'
    BY <2>1, <2>3 DEF EntryInv, RanUnder
  <2>5. QED
    BY <2>2, <2>4
<1>3. ASSUME NEW t \in Timers, EndCallback(t) PROVE KeyInv' /\ EntryInv'
  <2>1. /\ tstate' = [tstate EXCEPT ![t] = "ran"] /\ tkey' = tkey
        /\ timers' = timers \/ timers' = Forget(timers, {tkey[t]})
    BY <1>3 DEF EndCallback
  <2>2. KeyInv'
    BY <1>3, <2>1 DEF EndCallback, TypeOK, KeyInv
  <2>3. ASSUME NEW u \in Timers, tstate'[u] = "armed"
        PROVE  timers'[tkey[u]] = u \/ RanUnder(tkey[u])'
    BY <2>1, <2>3 DEF TypeOK, KeyInv, EntryInv, RanUnder, Forget
  <2>4. QED
    BY <2>1, <2>2, <2>3 DEF EntryInv, RanUnder
<1>4. ASSUME NEW K, Cancel(K) PROVE KeyInv' /\ EntryInv'
  BY <1>4 DEF Cancel, StopTimers, Forget, TypeOK, KeyInv, EntryInv, RanUnder
<1>5. CASE UNCHANGED vars
  BY <1>5 DEF vars, KeyInv, EntryInv, RanUnder
<1>6. QED
  BY <1>1, <1>2, <1>3, <1>4, <1>5 DEF Next, TimerGoroutine

\* Two timers of one key are armed at the same time only after a callback of the
\* key ran (Add stops what it replaces; the clean-up deletes by key).
THEOREM TwoArmedCorrect == Spec => []TwoArmedNeedARun
<1>1. Init => KeyInv /\ EntryInv
  BY DEF Init, KeyInv, EntryInv
<1>2. TypeOK /\ KeyInv /\ EntryInv /\ [Next]_vars => KeyInv' /\ EntryInv'
  BY EntryNext
<1>3. EntryInv => TwoArmedNeedARun
  BY DEF EntryInv, RanUnder, TwoArmedNeedARun
<1>4. QED
  BY <1>1, <1>2, <1>3, TypeCorrect, PTL DEF Spec

-----------------------------------------------------------------------------
(* The contract. *)

\* One callback runs at a time: the one that mu names.
MutexInv == \A t \in Timers : tstate[t] = "running" <=> mu = t

LEMMA MutexNext ==
  ASSUME TypeOK, MutexInv, [Next]_vars
  PROVE  MutexInv'
<1>1. ASSUME NEW t \in Timers, NEW k \in Keys, Add(t, k) PROVE MutexInv'
  BY <1>1, BasicAssumption DEF Add, StopTimers, TypeOK, MutexInv
<1>2. ASSUME NEW t \in Timers, Fire(t) \/ TimerGoroutine(t) PROVE MutexInv'
  BY <1>2, BasicAssumption
  DEF Fire, TimerGoroutine, BeginCallback, EndCallback, TypeOK, MutexInv
<1>3. ASSUME NEW K, Cancel(K) PROVE MutexInv'
  BY <1>3, BasicAssumption DEF Cancel, StopTimers, TypeOK, MutexInv
<1>4. CASE UNCHANGED vars
  BY <1>4 DEF vars, MutexInv
<1>5. QED
  BY <1>1, <1>2, <1>3, <1>4 DEF Next

ContractStep == [Contract!ContractNext]_(Contract!contractVars)

LEMMA ContractSteps ==
  ASSUME TypeOK, MutexInv, [Next]_vars
  PROVE  ContractStep
<1>0. mu = None => Contract!Free
  BY BasicAssumption DEF MutexInv, Contract!Free, abstractCall, AbstractCall
<1>1. ASSUME NEW t \in Timers, NEW k \in Keys, Add(t, k) PROVE ContractStep
  <2> DEFINE S == {d \in {timers[k]} \cap Timers : tstate[d] = "armed"}
  <2>1. abstractCall[t] = "new" /\ S \in SUBSET {d \in Timers : abstractCall[d] = "pending"}
    BY <1>1 DEF Add, abstractCall, AbstractCall
  <2>2. abstractCall' = [d \in Timers |-> IF d = t THEN "pending" ELSE
                                          IF d \in S THEN "over" ELSE abstractCall[d]]
    BY <1>1 DEF Add, abstractCall, AbstractCall, StopTimers, TypeOK
  <2>3. Contract!Submit(t)
    BY <1>0, <1>1, <2>1, <2>2 DEF Add, Contract!Submit
  <2>4. QED
    BY <2>3 DEF ContractStep, Contract!ContractNext
<1>2. ASSUME NEW t \in Timers, Fire(t) PROVE ContractStep
  <2>1. UNCHANGED abstractCall
    BY <1>2 DEF Fire, abstractCall, AbstractCall, TypeOK
  <2>2. QED
    BY <2>1 DEF ContractStep, Contract!contractVars
<1>3. ASSUME NEW t \in Timers, BeginCallback(t) PROVE ContractStep
  <2>1. /\ abstractCall[t] = "pending"
        /\ abstractCall' = [abstractCall EXCEPT ![t] = "running"]
    BY <1>3 DEF BeginCallback, abstractCall, AbstractCall, TypeOK
  <2>2. Contract!Begin(t)
    BY <1>0, <1>3, <2>1 DEF BeginCallback, Contract!Begin
  <2>3. QED
    BY <1>3, <2>2 DEF ContractStep, Contract!ContractNext
<1>4. ASSUME NEW t \in Timers, EndCallback(t) PROVE ContractStep
  <2>1. /\ abstractCall[t] = "running"
        /\ abstractCall' = [abstractCall EXCEPT ![t] = "over"]
    BY <1>4 DEF EndCallback, abstractCall, AbstractCall, TypeOK
  <2>2. Contract!Finish(t)
    BY <2>1 DEF Contract!Finish
  <2>3. QED
    BY <1>4, <2>2 DEF ContractStep, Contract!ContractNext
<1>5. ASSUME NEW K, Cancel(K) PROVE ContractStep
  <2> DEFINE S == {d \in {timers[k] : k \in K} \cap Timers : tstate[d] = "armed"}
  <2>1. S \in SUBSET {d \in Timers : abstractCall[d] = "pending"}
    BY DEF abstractCall, AbstractCall
  <2>2. abstractCall' = [d \in Timers |-> IF d \in S THEN "over" ELSE abstractCall[d]]
    BY <1>5 DEF Cancel, abstractCall, AbstractCall, StopTimers, TypeOK
  <2>3. Contract!WithdrawSome
    BY <1>0, <1>5, <2>1, <2>2 DEF Cancel, Contract!WithdrawSome, Contract!Withdraw
  <2>4. QED
    BY <2>3 DEF ContractStep, Contract!ContractNext
<1>6. CASE UNCHANGED vars
  <2>1. UNCHANGED abstractCall
    BY <1>6 DEF vars, abstractCall, AbstractCall
  <2>2. QED
    BY <2>1 DEF ContractStep, Contract!contractVars
<1>7. QED
  BY <1>1, <1>2, <1>3, <1>4, <1>5, <1>6 DEF Next, TimerGoroutine

\* The basic debouncer runs its callbacks one at a time and withdraws none that
\* has begun.
THEOREM ImplementsContractCorrect == Spec => ImplementsContract
<1>1. Init => Contract!ContractInit /\ MutexInv
  <2> SUFFICES ASSUME Init PROVE Contract!ContractInit /\ MutexInv
    OBVIOUS
  <2>1. abstractCall = [t \in Timers |-> "new"]
    BY DEF Init, abstractCall, AbstractCall
  <2>2. MutexInv
    BY BasicAssumption DEF Init, MutexInv
  <2>3. QED
    BY <2>1, <2>2 DEF Contract!ContractInit
<1>2. TypeOK /\ MutexInv /\ [Next]_vars => MutexInv'
  BY MutexNext
<1>3. TypeOK /\ MutexInv /\ [Next]_vars => [Contract!ContractNext]_(Contract!contractVars)
  BY ContractSteps DEF ContractStep
<1>4. QED
  BY <1>1, <1>2, <1>3, TypeCorrect, PTL
  DEF Spec, ImplementsContract, Contract!ContractSpec
=============================================================================
