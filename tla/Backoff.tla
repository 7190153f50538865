------------------------------- MODULE Backoff -------------------------------
(***************************************************************************)
(* The delay calculation of AdvancedDebouncer: recordActivity trims a      *)
(* sliding window of activity times, calculateDelay turns the activity of  *)
(* the window into a delay, a callback that succeeds resets the backoff.   *)
(* Time and durations are integers in the same unit; a time.Duration is a  *)
(* signed machine word whose largest value is MaxDuration.                 *)
(***************************************************************************)
EXTENDS Integers, Sequences, FiniteSets

CONSTANTS
  BaseDelay, MaxDelay, BackoffEnabled,
  MultiplierTop, MultiplierBottom,  \* BackoffMultiplier is their quotient
  ChurnThreshold, ChurnWindow, DecayResetDuration,
  MaxActivityHistory,   \* cap on the length of the history (1000 in the code)
  MaxDuration,          \* the largest time.Duration (2^63 - 1 in the code)
  MaxTime,              \* bound on the clock of the model
  MaxBackoff            \* bound on the number of consecutive backoff steps

\* NewAdvanced replaces every setting that is not positive by its default, and
\* a multiplier that is not above 1; it does not compare the two delays. Every
\* float64 above 1 is the quotient of two natural numbers.
ASSUME BackoffAssumption ==
  /\ BaseDelay \in Nat \ {0} /\ BaseDelay <= MaxDuration
  /\ MaxDelay \in Nat \ {0} /\ MaxDelay <= MaxDuration
  /\ MultiplierTop \in Nat /\ MultiplierBottom \in Nat \ {0}
  /\ MultiplierTop > MultiplierBottom
  /\ BackoffEnabled \in BOOLEAN
  /\ ChurnThreshold \in Nat \ {0}
  /\ ChurnWindow \in Nat \ {0}
  /\ DecayResetDuration \in Nat \ {0}
  /\ MaxActivityHistory \in Nat \ {0}
  /\ MaxDuration \in Nat
  /\ MaxTime \in Nat
  /\ MaxBackoff \in Nat

VARIABLES now, activityHistory, lastActivityTime, backoffCount, currentDelay

backoffVars == <<now, activityHistory, lastActivityTime, backoffCount, currentDelay>>

BackoffTypeOK ==
  /\ now \in Nat
  /\ activityHistory \in Seq(Nat)
  /\ lastActivityTime \in Nat
  /\ backoffCount \in Nat
  /\ currentDelay \in Int

BackoffInit ==
  /\ now = 0
  /\ activityHistory = <<>>
  /\ lastActivityTime = 0
  /\ backoffCount = 0
  /\ currentDelay = BaseDelay

-----------------------------------------------------------------------------
AtLeast(n, bound) == IF n < bound THEN bound ELSE n

\* How far s is longer than the cap.
Excess(s) == AtLeast(Len(s) - MaxActivityHistory, 0)

\* Mutant: the cap alone bounds the history, old times stay in it.
TrimmedByCapOnly(s) == SubSeq(s, Excess(s) + 1, Len(s))

\* recordActivity drops times from the front: all that precede the first one
\* within the window before now, then as many as exceed the cap.
Trimmed(s) ==
  LET stale == {i \in DOMAIN s : \A j \in 1 .. i : s[j] < now - ChurnWindow}
  IN  SubSeq(s, AtLeast(Excess(s), Cardinality(stale)) + 1, Len(s))

recordActivity ==
  /\ activityHistory' = Trimmed(Append(activityHistory, now))
  /\ lastActivityTime' = now

\* float64(baseDelay) * math.Pow(backoffMult, n), as a fraction that is never
\* reduced; the conversion to a time.Duration drops what follows the point. The
\* product is exact, that of the code is rounded to the 53 bits of a float64.
Growth[k \in Nat] == IF k = 0 THEN <<BaseDelay, 1>>
                     ELSE <<MultiplierTop * Growth[k - 1][1], MultiplierBottom * Growth[k - 1][2]>>
Exponential(n) == Growth[n][1] \div Growth[n][2]

\* time.Duration(f): a float that does not fit converts to whatever the
\* architecture produces, the smallest duration on amd64, the largest on arm64.
ToDuration(x) ==
  IF x \in 0 .. MaxDuration THEN {x} ELSE {-MaxDuration - 1, MaxDuration}

\* Mutant: the cap is forgotten.
Uncapped(d, bound) == d

AtMost(d, bound) == IF d > bound THEN bound ELSE d

\* The conditions of calculateDelay, which reads what recordActivity has just
\* written (the primed history and time).
Decayed == now - lastActivityTime' > DecayResetDuration
ChurnDetected == Len(activityHistory') >= ChurnThreshold /\ BackoffEnabled

\* Mutant: the count wraps around at 3 instead of growing while the churn lasts.
calculateDelayWrapping ==
  /\ backoffCount' = IF ChurnDetected THEN (backoffCount + 1) % 3 ELSE backoffCount
  /\ currentDelay' = IF ChurnDetected THEN AtMost(Exponential(backoffCount'), MaxDelay)
                                     ELSE BaseDelay

calculateDelay ==
  /\ backoffCount' = CASE Decayed -> 0
                      [] ~Decayed /\ ChurnDetected -> backoffCount + 1
                      [] OTHER -> backoffCount
  /\ currentDelay' \in
       IF ~Decayed /\ ChurnDetected
       THEN {AtMost(d, MaxDelay) : d \in ToDuration(Exponential(backoffCount'))}
       ELSE {BaseDelay}

\* The part of AddWithContext that computes the delay of the new timer.
NoteActivity ==
  /\ backoffCount < MaxBackoff
  /\ recordActivity
  /\ calculateDelay
  /\ UNCHANGED now

\* Mutant: a success takes one step back instead of starting over.
StepBack ==
  /\ backoffCount' = backoffCount - 1
  /\ currentDelay' = BaseDelay
  /\ UNCHANGED <<now, activityHistory, lastActivityTime>>

\* A debounced callback returned without a panic.
ResetBackoff ==
  /\ backoffCount' = 0
  /\ currentDelay' = BaseDelay
  /\ UNCHANGED <<now, activityHistory, lastActivityTime>>

\* Time passes.
Tick ==
  /\ now < MaxTime
  /\ now' = now + 1
  /\ UNCHANGED <<activityHistory, lastActivityTime, backoffCount, currentDelay>>

BackoffNext == NoteActivity \/ ResetBackoff \/ Tick

BackoffSpec == BackoffInit /\ [][BackoffNext]_backoffVars

-----------------------------------------------------------------------------
(* Properties *)

\* What the history may hold: times in the order they were recorded, none
\* outside the window of the newest one, never more than the cap. Trimming from
\* the front (recordActivity) is enough only because the times are ordered.
HistoryIsWindow ==
  /\ Len(activityHistory) <= MaxActivityHistory
  /\ \A i \in DOMAIN activityHistory :
       /\ activityHistory[i] \in (lastActivityTime - ChurnWindow) .. lastActivityTime
       /\ \A j \in 1 .. i : activityHistory[j] <= activityHistory[i]

\* Between the two delays of the configuration: whatever sequence of churn, quiet
\* and success came before, the delay in force is neither below BaseDelay nor above
\* MaxDelay, as long as what the count of backoff steps stands for fits a
\* time.Duration: calculateDelay converts before it caps.
DelayInRange ==
  (MaxDelay >= BaseDelay /\ Exponential(backoffCount) <= MaxDuration)
    => currentDelay \in BaseDelay .. MaxDelay

\* The same without the proviso: backing off may lengthen the wait of a busy
\* repository, never shorten it. The conversion of a delay that is too large does.
DelayAtLeastBase == MaxDelay >= BaseDelay => currentDelay >= BaseDelay

\* While changes keep coming fast, each one waits at least as long as the one
\* before it, as long as the delay before the cap fits a time.Duration; only a
\* callback that succeeded shortens the wait (calculateDelay).
ChurnNeverShortensDelay ==
  [][(NoteActivity /\ ChurnDetected /\ MaxDelay >= BaseDelay
        /\ Exponential(backoffCount') <= MaxDuration)
       => currentDelay' >= currentDelay]_backoffVars

\* "Check if we need to reset backoff due to inactivity": the first change
\* after a quiet spell longer than DecayResetDuration starts a new count.
QuietSpellResetsBackoff ==
  [][(NoteActivity /\ now - lastActivityTime > DecayResetDuration)
       => backoffCount' = 0]_backoffVars
=============================================================================
