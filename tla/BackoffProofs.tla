----------------------------- MODULE BackoffProofs -----------------------------
(***************************************************************************)
(* What is proved of the delay calculation for every setting of it.        *)
(***************************************************************************)
EXTENDS Backoff, FiniteSetTheorems, SequenceTheorems, WellFoundedInduction, TLAPS

LEMMA IntervalSize ==
  ASSUME NEW n \in Nat
  PROVE  IsFiniteSet(1 .. n) /\ Cardinality(1 .. n) = n
<1>1. /\ IsFiniteSet(1 .. n)
      /\ Cardinality(1 .. n) = IF 1 > n THEN 0 ELSE n - 1 + 1
  BY FS_Interval, 1 \in Int, n \in Int
<1>2. QED
  BY <1>1

\* The times Trimmed drops: a number of them between none and all.
StaleTimes(s) == {i \in DOMAIN s : \A j \in 1 .. i : s[j] < now - ChurnWindow}
Dropped(s) == AtLeast(Excess(s), Cardinality(StaleTimes(s)))

LEMMA DroppedRange ==
  ASSUME NEW s \in Seq(Nat), now \in Nat
  PROVE  /\ Cardinality(StaleTimes(s)) \in 0 .. Len(s)
         /\ Excess(s) \in 0 .. Len(s)
         /\ Dropped(s) \in 0 .. Len(s)
         /\ Dropped(s) >= Cardinality(StaleTimes(s))
         /\ Dropped(s) >= Excess(s)
<1>1. DOMAIN s = 1 .. Len(s) /\ Len(s) \in Nat
  OBVIOUS
<1>2. StaleTimes(s) \in SUBSET (1 .. Len(s))
  BY <1>1 DEF StaleTimes
<1>3. IsFiniteSet(1 .. Len(s)) /\ Cardinality(1 .. Len(s)) = Len(s)
  BY <1>1, IntervalSize
<1>4. IsFiniteSet(StaleTimes(s)) /\ Cardinality(StaleTimes(s)) <= Len(s)
  BY <1>2, <1>3, FS_Subset
<1>5. Cardinality(StaleTimes(s)) \in 0 .. Len(s)
  BY <1>1, <1>4, FS_CardinalityType
<1>6. Excess(s) \in 0 .. Len(s)
  BY <1>1, BackoffAssumption DEF Excess, AtLeast
<1>7. QED
  BY <1>1, <1>5, <1>6 DEF Dropped, AtLeast

\* What Trimmed returns: the last times of s, as many as it keeps.
LEMMA TrimmedIsSuffix ==
  ASSUME NEW s \in Seq(Nat), now \in Nat
  PROVE  /\ Trimmed(s) \in Seq(Nat)
         /\ Len(Trimmed(s)) = Len(s) - Dropped(s)
         /\ \A i \in 1 .. Len(Trimmed(s)) : Trimmed(s)[i] = s[i + Dropped(s)]
<1>1. Dropped(s) \in 0 .. Len(s)
  BY DroppedRange
<1>2. Trimmed(s) = SubSeq(s, Dropped(s) + 1, Len(s))
  BY DEF Trimmed, Dropped, StaleTimes
<1> HIDE DEF Dropped, Trimmed
<1>3. \A i \in (Dropped(s) + 1) .. Len(s) : s[i] \in Nat
  BY <1>1
<1> DEFINE t == SubSeq(s, Dropped(s) + 1, Len(s))
<1>4. Len(s) \in Nat /\ Dropped(s) \in Int
  BY <1>1
<1>5. /\ t \in Seq(Nat)
      /\ Len(t) = IF Dropped(s) + 1 <= Len(s) THEN Len(s) - (Dropped(s) + 1) + 1 ELSE 0
      /\ \A i \in 1 .. Len(s) - (Dropped(s) + 1) + 1 : t[i] = s[Dropped(s) + 1 + i - 1]
  BY <1>3, <1>4, SubSeqProperties
<1>6. Trimmed(s) = t
  BY <1>2
<1> HIDE DEF t
<1>7. Len(t) = Len(s) - Dropped(s)
  <2>1. PICK n \in Nat, d \in Nat : n = Len(s) /\ d = Dropped(s) /\ d <= n
    BY <1>1, <1>4
  <2>2. Len(t) = IF d + 1 <= n THEN n - (d + 1) + 1 ELSE 0
    BY <1>5, <2>1
  <2>3. QED
    BY <2>1, <2>2
<1>8. ASSUME NEW i \in 1 .. Len(t) PROVE t[i] = s[i + Dropped(s)]
  <2>1. i \in 1 .. Len(s) - (Dropped(s) + 1) + 1 /\ Dropped(s) + 1 + i - 1 = i + Dropped(s)
    BY <1>4, <1>7
  <2>2. QED
    BY <1>5, <2>1
<1>9. QED
  BY <1>5, <1>6, <1>7, <1>8

\* In an ordered history, every time older than the window is dropped.
LEMMA TrimmedIsRecent ==
  ASSUME NEW s \in Seq(Nat), now \in Nat,
         \A i \in DOMAIN s : \A j \in 1 .. i : s[j] <= s[i],
         NEW k \in DOMAIN s, s[k] < now - ChurnWindow
  PROVE  k <= Dropped(s)
<1>1. DOMAIN s = 1 .. Len(s) /\ Len(s) \in Nat /\ k \in Nat
  OBVIOUS
<1>2. \A j \in 1 .. k : s[j] \in Nat /\ s[j] <= s[k]
  BY <1>1
<1>3. \A j \in 1 .. k : s[j] < now - ChurnWindow
  BY <1>1, <1>2, BackoffAssumption
<1>4. 1 .. k \subseteq StaleTimes(s)
  BY <1>1, <1>3 DEF StaleTimes
<1>5. IsFiniteSet(StaleTimes(s))
  <2>1. StaleTimes(s) \in SUBSET (1 .. Len(s))
    BY <1>1 DEF StaleTimes
  <2>2. QED
    BY <1>1, <2>1, IntervalSize, FS_Subset
<1>6. Cardinality(1 .. k) = k
  BY <1>1, IntervalSize
<1>7. k <= Cardinality(StaleTimes(s))
  BY <1>4, <1>5, <1>6, FS_Subset
<1>8. QED
  BY <1>1, <1>7, DroppedRange

-----------------------------------------------------------------------------
\* A delay is an integer whatever the conversion of a float that does not fit
\* yields.
LEMMA NoteActivityType ==
  ASSUME BackoffTypeOK, NoteActivity
  PROVE  BackoffTypeOK'
<1>1. activityHistory' \in Seq(Nat)
  <2>1. Append(activityHistory, now) \in Seq(Nat) /\ now \in Nat
    BY DEF BackoffTypeOK
  <2>2. activityHistory' = Trimmed(Append(activityHistory, now))
    BY DEF NoteActivity, recordActivity
  <2>3. QED
    BY <2>1, <2>2, TrimmedIsSuffix
<1>2. now' \in Nat /\ lastActivityTime' \in Nat
  BY DEF BackoffTypeOK, NoteActivity, recordActivity
<1>3. backoffCount' \in Nat
  BY DEF BackoffTypeOK, NoteActivity, calculateDelay
<1>4. \A x : ToDuration(x) \subseteq Int
  BY BackoffAssumption DEF ToDuration
<1>5. \A d \in Int : AtMost(d, MaxDelay) \in Int
  BY BackoffAssumption DEF AtMost
<1>6. currentDelay' \in Int
  BY <1>4, <1>5, BackoffAssumption DEF NoteActivity, calculateDelay
<1>7. QED
  BY <1>1, <1>2, <1>3, <1>6 DEF BackoffTypeOK

LEMMA ResetBackoffType ==
  ASSUME BackoffTypeOK, ResetBackoff \/ UNCHANGED backoffVars
  PROVE  BackoffTypeOK'
BY BackoffAssumption DEF BackoffTypeOK, ResetBackoff, backoffVars

LEMMA BackoffInitType == BackoffInit => BackoffTypeOK
BY BackoffAssumption DEF BackoffInit, BackoffTypeOK

\* The delay calculation keeps its variables in their types.
THEOREM BackoffTypeCorrect == BackoffSpec => []BackoffTypeOK
<1>1. BackoffTypeOK /\ [BackoffNext]_backoffVars => BackoffTypeOK'
  <2> SUFFICES ASSUME BackoffTypeOK, [BackoffNext]_backoffVars PROVE BackoffTypeOK'
    OBVIOUS
  <2>1. CASE NoteActivity
    BY <2>1, NoteActivityType
  <2>2. CASE ResetBackoff \/ UNCHANGED backoffVars
    BY <2>2, ResetBackoffType
  <2>3. CASE Tick
    BY <2>3 DEF Tick, BackoffTypeOK
  <2>4. QED
    BY <2>1, <2>2, <2>3 DEF BackoffNext
<1>2. QED
  BY <1>1, BackoffInitType, PTL DEF BackoffSpec

-----------------------------------------------------------------------------
\* HistoryIsWindow speaks of the time of the last activity; to stay true when
\* the next one is recorded it needs the clock not to run behind that time.
WindowInv == HistoryIsWindow /\ lastActivityTime <= now

LEMMA NoteActivityKeepsWindow ==
  ASSUME BackoffTypeOK, WindowInv, NoteActivity
  PROVE  WindowInv'
<1> DEFINE s == Append(activityHistory, now)
           h == Trimmed(s)
<1>1. s \in Seq(Nat) /\ now \in Nat /\ lastActivityTime \in Nat
  BY DEF BackoffTypeOK
<1>2. /\ DOMAIN s = 1 .. Len(activityHistory) + 1
      /\ Len(s) = Len(activityHistory) + 1
      /\ Len(activityHistory) \in Nat
      /\ s[Len(s)] = now
      /\ \A i \in DOMAIN activityHistory : i \in DOMAIN s /\ s[i] = activityHistory[i]
      /\ DOMAIN activityHistory = 1 .. Len(activityHistory)
  BY DEF BackoffTypeOK
<1>3. \A i \in DOMAIN s : s[i] \in Nat /\ s[i] <= now
  BY <1>1, <1>2, BackoffAssumption DEF WindowInv, HistoryIsWindow
<1>4. \A i \in DOMAIN s : \A j \in 1 .. i : s[j] <= s[i]
  <2> SUFFICES ASSUME NEW i \in DOMAIN s, NEW j \in 1 .. i PROVE s[j] <= s[i]
    OBVIOUS
  <2>1. CASE i = Len(s)
    BY <2>1, <1>2, <1>3
  <2>2. CASE i # Len(s)
    <3>1. i \in DOMAIN activityHistory /\ j \in DOMAIN activityHistory
      BY <2>2, <1>2
    <3>2. QED
      BY <3>1, <1>2 DEF WindowInv, HistoryIsWindow
  <2>3. QED
    BY <2>1, <2>2
<1>5. activityHistory' = h /\ lastActivityTime' = now /\ now' = now
  BY DEF NoteActivity, recordActivity
<1>6. /\ h \in Seq(Nat)
      /\ Dropped(s) \in 0 .. Len(s)
      /\ Len(h) = Len(s) - Dropped(s)
      /\ \A i \in 1 .. Len(h) : h[i] = s[i + Dropped(s)]
      /\ Dropped(s) >= Excess(s)
  BY <1>1, TrimmedIsSuffix, DroppedRange
<1> HIDE DEF h
<1>7. Len(h) <= MaxActivityHistory
  BY <1>2, <1>6, BackoffAssumption DEF Excess, AtLeast
<1>8. \A i \in 1 .. Len(h) : i + Dropped(s) \in DOMAIN s /\ i + Dropped(s) > Dropped(s)
  BY <1>2, <1>6
<1>9. \A i \in 1 .. Len(h) : h[i] >= now - ChurnWindow
  <2> SUFFICES ASSUME NEW i \in 1 .. Len(h), ~(h[i] >= now - ChurnWindow) PROVE FALSE
    OBVIOUS
  <2> DEFINE k == i + Dropped(s)
  <2>0. h[i] = s[k] /\ k \in DOMAIN s /\ s[k] \in Nat
    BY <1>3, <1>6, <1>8
  <2> HIDE DEF s, k
  <2>1. s[k] < now - ChurnWindow
    BY <1>1, <2>0, BackoffAssumption
  <2> USE DEF s, k
  <2>2. i + Dropped(s) <= Dropped(s)
    BY <1>1, <1>4, <1>8, <2>1, TrimmedIsRecent
  <2>3. QED
    BY <2>2, <1>8, <1>6
<1>10. \A i \in 1 .. Len(h) : h[i] \in (now - ChurnWindow) .. now
  <2> SUFFICES ASSUME NEW i \in 1 .. Len(h)
               PROVE  h[i] \in (now - ChurnWindow) .. now
    OBVIOUS
  <2>1. h[i] \in Nat /\ h[i] <= now
    BY <1>3, <1>6, <1>8
  <2>2. h[i] >= now - ChurnWindow
    BY <1>9
  <2> HIDE DEF s
  <2>3. QED
    BY <1>1, <2>1, <2>2, BackoffAssumption
<1>11. \A i \in 1 .. Len(h) : \A j \in 1 .. i : h[j] <= h[i]
  <2> SUFFICES ASSUME NEW i \in 1 .. Len(h), NEW j \in 1 .. i PROVE h[j] <= h[i]
    OBVIOUS
  <2>0. j \in 1 .. Len(h)
    BY <1>6
  <2>1. h[i] = s[i + Dropped(s)] /\ h[j] = s[j + Dropped(s)]
    BY <1>6, <2>0
  <2>2. i + Dropped(s) \in DOMAIN s /\ j + Dropped(s) \in 1 .. (i + Dropped(s))
    BY <1>2, <1>6
  <2>3. QED
    BY <2>1, <2>2, <1>4
<1>12. DOMAIN h = 1 .. Len(h)
  BY <1>6
<1>13. QED
  BY <1>1, <1>5, <1>7, <1>10, <1>11, <1>12 DEF WindowInv, HistoryIsWindow

\* The history holds the times of one window, in order, never more than the cap.
THEOREM HistoryCorrect == BackoffSpec => []HistoryIsWindow
<1>1. BackoffInit => WindowInv
  BY BackoffAssumption DEF BackoffInit, WindowInv, HistoryIsWindow
<1>2. BackoffTypeOK /\ WindowInv /\ [BackoffNext]_backoffVars => WindowInv'
  <2> SUFFICES ASSUME BackoffTypeOK, WindowInv, [BackoffNext]_backoffVars
               PROVE  WindowInv'
    OBVIOUS
  <2>1. CASE NoteActivity
    BY <2>1, NoteActivityKeepsWindow
  <2>2. CASE ResetBackoff \/ UNCHANGED backoffVars
    BY <2>2 DEF ResetBackoff, backoffVars, WindowInv, HistoryIsWindow
  <2>3. CASE Tick
    BY <2>3 DEF Tick, WindowInv, HistoryIsWindow, BackoffTypeOK
  <2>4. QED
    BY <2>1, <2>2, <2>3 DEF BackoffNext
<1>3. WindowInv => HistoryIsWindow
  BY DEF WindowInv
<1>4. QED
  BY <1>1, <1>2, <1>3, BackoffTypeCorrect, PTL DEF BackoffSpec

-----------------------------------------------------------------------------
\* Every non-empty set of natural numbers has a least element: induction for a set.
LEMMA LeastNatural ==
  ASSUME NEW T, T \subseteq Nat, T # {}
  PROVE  \E x \in T : \A y \in T : x <= y
<1> DEFINE R == {pair \in Nat \X Nat : pair[1] < pair[2]}
<1>1. IsWellFoundedOn(R, Nat)
  BY NatLessThanWellFounded DEF OpToRel
<1>2. \A x, y \in Nat : <<y, x>> \notin R => x <= y
  OBVIOUS
<1> HIDE DEF R
<1>3. \E x \in T : \A y \in T : <<y, x>> \notin R
  BY <1>1, WFMin, Zenon
<1>4. QED
  BY <1>2, <1>3

\* A set that has 0, and n + 1 whenever it has n, has all of them.
LEMMA Induction ==
  ASSUME NEW S, 0 \in S, \A n \in Nat : n \in S => n + 1 \in S
  PROVE  Nat \subseteq S
<1> SUFFICES ASSUME Nat \ S # {} PROVE FALSE
  OBVIOUS
<1>1. PICK n \in Nat \ S : \A k \in Nat \ S : n <= k
  <2>1. Nat \ S \subseteq Nat
    OBVIOUS
  <2>2. QED
    BY <2>1, LeastNatural
<1>2. n - 1 \in Nat /\ n - 1 \in S
  BY <1>1
<1>3. QED
  BY <1>1, <1>2

\* Fractions of natural numbers that have a value, and one more factor to each.
Fraction == Nat \X (Nat \ {0})
Grown(x) == <<MultiplierTop * x[1], MultiplierBottom * x[2]>>

LEMMA GrownFraction == \A x \in Fraction : Grown(x) \in Fraction
<1>1. ASSUME NEW a \in Nat, NEW b \in Nat \ {0} PROVE MultiplierTop * a \in Nat /\ MultiplierBottom * b \in Nat \ {0}
  BY BackoffAssumption
<1>2. QED
  BY <1>1 DEF Fraction, Grown

\* A recursive function is a CHOOSE: the rule of Growth has a solution, glued of
\* those up to each number, any two of which agree as far as both go.
LEMMA GrowthUnfolds ==
  \A n \in Nat : Growth[n] = IF n = 0 THEN <<BaseDelay, 1>> ELSE Grown(Growth[n - 1])
<1> DEFINE one == <<BaseDelay, 1>>
           Rule(g) == g = [k \in Nat |-> IF k = 0 THEN one ELSE Grown(g[k - 1])]
           Upto(n) == {g \in [0 .. n -> Fraction] : g[0] = one /\ \A i \in 1 .. n : g[i] = Grown(g[i - 1])}
           S == {n \in Nat : Upto(n) # {}}
<1>0. one \in Fraction
  BY BackoffAssumption DEF Fraction
<1> HIDE DEF one
<1>1. \A n \in Nat : Upto(n) # {}
  <2>1. 0 \in S
    <3>1. [i \in 0 .. 0 |-> one] \in Upto(0)
      BY <1>0
    <3>2. QED
      BY <3>1
  <2>2. ASSUME NEW n \in S PROVE n + 1 \in S
    <3>1. PICK g \in Upto(n) : TRUE
      OBVIOUS
    <3> DEFINE h == [i \in 0 .. n + 1 |-> IF i = n + 1 THEN Grown(g[n]) ELSE g[i]]
    <3>2. Grown(g[n]) \in Fraction
      BY <3>1, GrownFraction
    <3>3. h \in [0 .. n + 1 -> Fraction] /\ h[0] = one
      BY <3>1, <3>2
    <3>4. ASSUME NEW i \in 1 .. n + 1 PROVE h[i] = Grown(h[i - 1])
      <4>1. CASE i = n + 1
        BY <4>1
      <4>2. CASE i \in 1 .. n
        BY <3>1, <4>2
      <4>3. QED
        BY <4>1, <4>2
    <3> HIDE DEF h
    <3>5. h \in Upto(n + 1)
      BY <3>3, <3>4
    <3> HIDE DEF Upto
    <3>6. QED
      BY <3>5
  <2> HIDE DEF S
  <2>3. Nat \subseteq S
    BY <2>1, <2>2, Induction
  <2>4. QED
    BY <2>3 DEF S
<1>2. ASSUME NEW m \in Nat, NEW n \in Nat, NEW g \in Upto(m), NEW h \in Upto(n)
      PROVE  \A i \in 0 .. m : i <= n => g[i] = h[i]
  <2> DEFINE E == {i \in Nat : i <= m /\ i <= n => g[i] = h[i]}
  <2>1. 0 \in E
    OBVIOUS
  <2>2. ASSUME NEW i \in Nat, i \in E PROVE i + 1 \in E
    <3> SUFFICES ASSUME i + 1 <= m, i + 1 <= n PROVE g[i + 1] = h[i + 1]
      OBVIOUS
    <3>1. g[i + 1] = Grown(g[i]) /\ h[i + 1] = Grown(h[i])
      <4>1. i + 1 \in 1 .. m /\ i + 1 \in 1 .. n /\ (i + 1) - 1 = i
        OBVIOUS
      <4>2. QED
        BY <4>1
    <3>2. QED
      BY <2>2, <3>1
  <2> HIDE DEF E
  <2>3. Nat \subseteq E
    BY <2>1, <2>2, Induction
  <2>4. QED
    BY <2>3 DEF E
<1> DEFINE last(n) == CHOOSE g \in Upto(n) : TRUE
           all == [n \in Nat |-> last(n)[n]]
<1>3. \A n \in Nat : last(n) \in Upto(n)
  <2> HIDE DEF Upto
  <2> QED
    BY <1>1
<1>4. ASSUME NEW n \in Nat PROVE all[n] = IF n = 0 THEN one ELSE Grown(all[n - 1])
  <2> HIDE DEF last
  <2>1. CASE n = 0
    BY <1>3, <2>1
  <2>2. CASE n # 0
    <3>1. n - 1 \in Nat /\ n - 1 \in 0 .. n
      BY <2>2
    <3>2. last(n)[n] = Grown(last(n)[n - 1])
      BY <1>3, <2>2
    <3>3. last(n)[n - 1] = last(n - 1)[n - 1]
      <4> HIDE DEF Upto
      <4>1. last(n) \in Upto(n) /\ last(n - 1) \in Upto(n - 1)
        BY <1>3, <3>1
      <4>2. \A i \in 0 .. n : i <= n - 1 => last(n)[i] = last(n - 1)[i]
        BY <1>2, <3>1, <4>1
      <4>3. QED
        BY <3>1, <4>2
    <3>4. QED
      BY <2>2, <3>1, <3>2, <3>3
  <2>3. QED
    BY <2>1, <2>2
<1>5. \E g : Rule(g)
  <2> HIDE DEF last
  <2>1. all = [k \in Nat |-> IF k = 0 THEN one ELSE Grown(all[k - 1])]
    <3> HIDE DEF all
    <3>1. all = [k \in Nat |-> all[k]]
      BY DEF all
    <3>2. QED
      BY <1>4, <3>1
  <2>2. QED
    BY <2>1
<1>6. Growth = CHOOSE g : Rule(g)
  BY DEF Growth, Grown, one
<1>7. Rule(Growth)
  <2> HIDE DEF Rule
  <2> QED
    BY <1>5, <1>6
<1>8. Growth[0] = one /\ \A n \in Nat \ {0} : Growth[n] = Grown(Growth[n - 1])
  BY <1>7
<1>9. QED
  BY <1>8 DEF one

LEMMA GrowthIsFraction == \A n \in Nat : Growth[n] \in Fraction
<1> DEFINE S == {n \in Nat : Growth[n] \in Fraction}
<1>1. 0 \in S
  BY GrowthUnfolds, BackoffAssumption DEF Fraction
<1>2. ASSUME NEW n \in Nat, n \in S PROVE n + 1 \in S
  <2>1. Growth[n + 1] = Grown(Growth[n])
    BY GrowthUnfolds
  <2>2. QED
    BY <1>2, <2>1, GrownFraction
<1> HIDE DEF S
<1>3. Nat \subseteq S
  BY <1>1, <1>2, Induction
<1>4. QED
  BY <1>3 DEF S

\* A quotient is the largest number of times the divisor fits.
LEMMA QuotientBound ==
  ASSUME NEW x \in Nat, NEW y \in Nat \ {0}
  PROVE  /\ x \div y \in Nat
         /\ (x \div y) * y <= x
         /\ \A q \in Nat : q * y <= x => q <= x \div y
<1> DEFINE d == x \div y
<1>1. d \in Int /\ x % y \in 0 .. y - 1 /\ x = y * d + (x % y)
  OBVIOUS
<1> HIDE DEF d
<1>2. PICK rest \in Nat : rest < y /\ x = d * y + rest
  BY <1>1
<1>3. d \in Nat
  <2> SUFFICES ASSUME d \in Int, d <= -1 PROVE FALSE
    BY <1>1
  <2>1. PICK k \in Nat : d = -1 - k
    <3>1. -1 - d \in Nat /\ d = -1 - (-1 - d)
      OBVIOUS
    <3>2. QED
      BY <3>1
  <2>2. k * y \in Nat /\ d * y = -y - k * y
    BY <2>1
  <2>3. QED
    BY <1>2, <2>2
<1>4. ASSUME NEW q \in Nat, q * y <= x PROVE q <= d
  <2> SUFFICES ASSUME q >= d + 1 PROVE FALSE
    BY <1>3
  <2>1. PICK k \in Nat : q = d + 1 + k
    <3>1. q - d - 1 \in Nat /\ q = d + 1 + (q - d - 1)
      BY <1>3
    <3>2. QED
      BY <3>1
  <2>2. q * y = d * y + y + k * y /\ k * y \in Nat /\ d * y \in Nat
    BY <1>3, <2>1
  <2>3. QED
    BY <1>2, <1>4, <2>2
<1>5. d * y \in Nat /\ d * y <= x
  BY <1>2, <1>3
<1>6. QED
  BY <1>3, <1>4, <1>5 DEF d

\* To multiply a fraction with one above 1 does not lower its quotient.
LEMMA QuotientGrows ==
  ASSUME NEW x \in Fraction
  PROVE  /\ x[1] \div x[2] \in Nat
         /\ Grown(x)[1] \div Grown(x)[2] \in Nat
         /\ x[1] \div x[2] <= Grown(x)[1] \div Grown(x)[2]
<1>1. PICK a \in Nat, b \in Nat \ {0} : x = <<a, b>>
  BY DEF Fraction
<1> DEFINE q == a \div b
           top == MultiplierTop * a
           bottom == MultiplierBottom * b
<1>2. top \in Nat /\ bottom \in Nat \ {0} /\ Grown(x) = <<top, bottom>>
  BY <1>1, GrownFraction DEF Fraction, Grown
<1>3. q \in Nat /\ q * b <= a
  BY QuotientBound
<1> HIDE DEF q
<1>4. q * bottom <= top
  <2>1. PICK more \in Nat : MultiplierTop = MultiplierBottom + more
    <3>1. MultiplierTop - MultiplierBottom \in Nat
          /\ MultiplierTop = MultiplierBottom + (MultiplierTop - MultiplierBottom)
      BY BackoffAssumption
    <3>2. QED
      BY <3>1
  <2>2. PICK rest \in Nat : a = q * b + rest
    <3>1. q * b \in Nat
      BY <1>3
    <3>2. a - q * b \in Nat /\ a = q * b + (a - q * b)
      BY <1>3, <3>1
    <3>3. QED
      BY <3>2
  <2>3. /\ MultiplierBottom \in Nat /\ q * bottom = MultiplierBottom * (q * b)
    BY <1>3, BackoffAssumption
  <2>4. top = MultiplierBottom * (q * b) + MultiplierBottom * rest + more * a
    BY <1>3, <2>1, <2>2, BackoffAssumption
  <2>5. MultiplierBottom * rest \in Nat /\ more * a \in Nat /\ MultiplierBottom * (q * b) \in Nat
    BY <1>3, BackoffAssumption
  <2> HIDE DEF top, bottom
  <2>6. QED
    BY <2>3, <2>4, <2>5
<1> HIDE DEF top, bottom
<1>5. top \div bottom \in Nat /\ q <= top \div bottom
  BY <1>2, <1>3, <1>4, QuotientBound
<1>6. x[1] = a /\ x[2] = b /\ Grown(x)[1] = top /\ Grown(x)[2] = bottom
  BY <1>1, <1>2
<1>7. QED
  BY <1>3, <1>5, <1>6 DEF q

LEMMA ExponentialGrows ==
  ASSUME NEW n \in Nat
  PROVE  /\ Exponential(n) \in Nat /\ BaseDelay <= Exponential(n)
         /\ Exponential(n) <= Exponential(n + 1)
<1>1. \A k \in Nat : /\ Exponential(k) \in Nat
                     /\ Exponential(k + 1) \in Nat
                     /\ Exponential(k) <= Exponential(k + 1)
  <2> SUFFICES ASSUME NEW k \in Nat
               PROVE  /\ Exponential(k) \in Nat
                      /\ Exponential(k + 1) \in Nat
                      /\ Exponential(k) <= Exponential(k + 1)
    OBVIOUS
  <2>1. Growth[k] \in Fraction /\ Growth[k + 1] = Grown(Growth[k])
    BY GrowthIsFraction, GrowthUnfolds
  <2>2. QED
    BY <2>1, QuotientGrows DEF Exponential
<1> DEFINE S == {k \in Nat : BaseDelay <= Exponential(k)}
<1>2. 0 \in S
  <2>1. Growth[0] = <<BaseDelay, 1>>
    BY GrowthUnfolds
  <2>2. Exponential(0) = BaseDelay \div 1
    BY <2>1 DEF Exponential
  <2>3. BaseDelay <= BaseDelay \div 1
    <3>1. BaseDelay \in Nat /\ BaseDelay * 1 <= BaseDelay
      BY BackoffAssumption
    <3>2. QED
      BY <3>1, QuotientBound
  <2>4. QED
    BY <2>2, <2>3
<1>3. ASSUME NEW k \in Nat, k \in S PROVE k + 1 \in S
  BY <1>1, <1>3, BackoffAssumption
<1> HIDE DEF S
<1>4. Nat \subseteq S
  BY <1>2, <1>3, Induction
<1>5. BaseDelay <= Exponential(n)
  BY <1>4 DEF S
<1>6. QED
  BY <1>1, <1>5

-----------------------------------------------------------------------------
\* The delay in force is the base delay or what the count says.
DelayInv ==
  \/ currentDelay = BaseDelay
  \/ \E d \in ToDuration(Exponential(backoffCount)) : currentDelay = AtMost(d, MaxDelay)

LEMMA DelayInvCorrect == BackoffSpec => []DelayInv
<1>1. BackoffInit => DelayInv
  BY DEF BackoffInit, DelayInv
<1>2. DelayInv /\ [BackoffNext]_backoffVars => DelayInv'
  BY DEF DelayInv, BackoffNext, NoteActivity, calculateDelay, ResetBackoff, Tick, backoffVars
<1>3. QED
  BY <1>1, <1>2, PTL DEF BackoffSpec

\* Every delay is between those of the configuration, whatever the multiplier and
\* however long the churn lasts, until the exponential overflows (calculateDelay).
THEOREM DelayInRangeCorrect == BackoffSpec => []DelayInRange
<1>1. BackoffTypeOK /\ DelayInv => DelayInRange
  <2> SUFFICES ASSUME BackoffTypeOK, DelayInv, MaxDelay >= BaseDelay,
                      Exponential(backoffCount) <= MaxDuration
               PROVE  currentDelay \in BaseDelay .. MaxDelay
    BY DEF DelayInRange
  <2> DEFINE d == Exponential(backoffCount)
  <2>1. d \in Nat /\ BaseDelay <= d /\ d <= MaxDuration
    BY ExponentialGrows DEF BackoffTypeOK
  <2> HIDE DEF d
  <2>2. ToDuration(d) = {d}
    BY <2>1, BackoffAssumption DEF ToDuration
  <2>3. currentDelay = BaseDelay \/ currentDelay = AtMost(d, MaxDelay)
    BY <2>2 DEF DelayInv, d
  <2>4. QED
    BY <2>1, <2>3, BackoffAssumption DEF AtMost
<1>2. QED
  BY <1>1, BackoffTypeCorrect, DelayInvCorrect, PTL

\* One step of the backoff waits at least as long as the one before, as long as
\* it fits: the exponential grows and the cap keeps the order (calculateDelay).
LEMMA ChurnStep ==
  ASSUME BackoffTypeOK, DelayInv, NoteActivity, ChurnDetected, MaxDelay >= BaseDelay,
         Exponential(backoffCount') <= MaxDuration
  PROVE  currentDelay' >= currentDelay
<1> DEFINE before == Exponential(backoffCount)
           after == Exponential(backoffCount + 1)
<1>1. ~Decayed
  BY BackoffAssumption DEF Decayed, NoteActivity, recordActivity, BackoffTypeOK
<1>2. /\ backoffCount' = backoffCount + 1
      /\ \E d \in ToDuration(after) : currentDelay' = AtMost(d, MaxDelay)
  BY <1>1 DEF NoteActivity, calculateDelay
<1>3. /\ before \in Nat /\ after \in Nat
      /\ BaseDelay <= after /\ before <= after /\ after <= MaxDuration
  <2>1. backoffCount \in Nat /\ backoffCount + 1 \in Nat
    BY DEF BackoffTypeOK
  <2>2. before \in Nat /\ before <= after
    BY <2>1, ExponentialGrows
  <2>3. after \in Nat /\ BaseDelay <= after
    BY <2>1, ExponentialGrows
  <2>4. after <= MaxDuration
    BY <1>2
  <2>5. QED
    BY <2>2, <2>3, <2>4
<1> HIDE DEF before, after
<1>4. ToDuration(after) = {after} /\ ToDuration(before) = {before}
  BY <1>3, BackoffAssumption DEF ToDuration
<1>5. currentDelay = BaseDelay \/ currentDelay = AtMost(before, MaxDelay)
  BY <1>4 DEF DelayInv, before
<1>6. QED
  BY <1>2, <1>3, <1>4, <1>5, BackoffAssumption DEF AtMost

\* While the churn lasts no delay is shorter than the one before it, whatever the
\* settings and however long it lasts, until the delay overflows (calculateDelay).
THEOREM ChurnNeverShortensDelayCorrect == BackoffSpec => ChurnNeverShortensDelay
<1>1. BackoffTypeOK /\ DelayInv /\ [BackoffNext]_backoffVars =>
        [(NoteActivity /\ ChurnDetected /\ MaxDelay >= BaseDelay
            /\ Exponential(backoffCount') <= MaxDuration)
           => currentDelay' >= currentDelay]_backoffVars
  BY ChurnStep
<1>2. QED
  BY <1>1, BackoffTypeCorrect, DelayInvCorrect, PTL DEF BackoffSpec, ChurnNeverShortensDelay
=============================================================================
