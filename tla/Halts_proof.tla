---------------------------- MODULE Halts_proof ----------------------------
(***************************************************************************)
(* The two ways in which trading halts by itself, each for every value of  *)
(* its constants. The circuit breaker: the types of its life, that a       *)
(* drawdown at the limit is never left open, that the daily halt is for its*)
(* day, and that the latch is exactly what the equity curve says. And      *)
(* reconciliation: its types, that a halt whose mismatch the baseline      *)
(* absorbed survives everything but its release, and that a check reports  *)
(* exactly what the orders table does not account for.                     *)
(***************************************************************************)
EXTENDS CircuitBreaker, Reconcile, Sums, TLAPS

(* What one assess returns: again a breaker state, whose latch covers its  *)
(* drawdown if the old one's did, and whose latch opens only on recovery.  *)
Covered(b) == (b.hwm # Unknown /\ Deep(b.drawdown)) => b.drawdownHalt

LEMMA NewPeakType ==
    ASSUME NEW hwm \in (Nat \ {0}) \cup {Unknown}, NEW equity \in Int \cup {Unknown}
    PROVE  /\ NewPeak(hwm, equity) \in (Nat \ {0}) \cup {Unknown}
           /\ Measured(equity) => /\ NewPeak(hwm, equity) \in Nat \ {0}
                                  /\ equity <= NewPeak(hwm, equity)
  BY BreakerAssumption DEF NewPeak, Measured

LEMMA NewDrawdownType ==
    ASSUME NEW hwm \in (Nat \ {0}) \cup {Unknown}, NEW equity \in Int \cup {Unknown},
           NEW old \in Drawdown
    PROVE  NewDrawdown(old, NewPeak(hwm, equity), equity) \in Drawdown
  <1>1. CASE Measured(equity)
    <2>1. /\ NewPeak(hwm, equity) \in Nat \ {0}
          /\ equity <= NewPeak(hwm, equity)
          /\ equity \in Int
      BY <1>1, NewPeakType, BreakerAssumption DEF Measured
    <2>2. NewPeak(hwm, equity) - equity \in Nat
      BY <2>1
    <2>3. QED
      BY <1>1, <2>1, <2>2 DEF NewDrawdown, Drawdown
  <1>2. CASE ~Measured(equity)
    BY <1>2 DEF NewDrawdown
  <1>3. QED
    BY <1>1, <1>2

LEMMA AssessType ==
    ASSUME NEW b \in BreakerState, NEW equity \in Int \cup {Unknown},
           NEW rate \in Int \cup {Unknown}, NEW date \in Nat
    PROVE  Assess(b, equity, rate, date) \in BreakerState
  <1> DEFINE hwm == NewPeak(b.hwm, equity)
             dd  == NewDrawdown(b.drawdown, hwm, equity)
  <1>1. /\ b.hwm \in (Nat \ {0}) \cup {Unknown}
        /\ b.drawdown \in Drawdown
        /\ b.dailyHaltDate \in Nat \cup {Unknown}
        /\ b.drawdownHalt \in BOOLEAN
    BY DEF BreakerState
  <1>2. hwm \in (Nat \ {0}) \cup {Unknown}
    BY <1>1, NewPeakType
  <1>3. dd \in Drawdown
    BY <1>1, NewDrawdownType
  <1>4. HaltDateAfter(b.dailyHaltDate, rate, date) \in Nat \cup {Unknown}
    BY <1>1 DEF HaltDateAfter
  <1>5. (IF equity # Unknown /\ hwm # Unknown
         THEN HaltAfter(b.drawdownHalt, dd) ELSE b.drawdownHalt) \in BOOLEAN
    BY <1>1 DEF HaltAfter, Deep, Recovered
  <1> HIDE DEF hwm, dd
  <1>6. QED
    BY <1>2, <1>3, <1>4, <1>5 DEF Assess, BreakerState, hwm, dd

LEMMA AssessCovers ==
    ASSUME NEW b \in BreakerState, NEW equity \in Int \cup {Unknown},
           NEW rate, NEW date, Covered(b)
    PROVE  Covered(Assess(b, equity, rate, date))
  <1> DEFINE c == Assess(b, equity, rate, date)
  <1>1. CASE equity # Unknown /\ NewPeak(b.hwm, equity) # Unknown
    <2>1. c.drawdownHalt = HaltAfter(b.drawdownHalt, c.drawdown)
      BY <1>1 DEF Assess
    <2>2. QED
      BY <2>1 DEF Covered, HaltAfter
  <1>2. CASE ~(equity # Unknown /\ NewPeak(b.hwm, equity) # Unknown)
    <2>1. c.drawdownHalt = b.drawdownHalt
      BY <1>2 DEF Assess
    <2>2. c.hwm = NewPeak(b.hwm, equity)
      BY DEF Assess
    <2>3. CASE equity = Unknown
      <3>1. c.hwm = b.hwm /\ c.drawdown = b.drawdown
        BY <2>3 DEF Assess, NewPeak, NewDrawdown, Measured
      <3>2. QED
        BY <2>1, <3>1 DEF Covered
    <2>4. CASE NewPeak(b.hwm, equity) = Unknown
      BY <2>2, <2>4 DEF Covered
    <2>5. QED
      BY <1>2, <2>3, <2>4
  <1>3. QED
    BY <1>1, <1>2

LEMMA ClearedType ==
    ASSUME NEW date \in Nat \cup {Unknown}
    PROVE  Cleared(date) \in BreakerState /\ Covered(Cleared(date))
  BY DEF Cleared, BreakerState, NoDrawdown, Drawdown, Covered

LEMMA FreshBreakerType == FreshBreaker \in BreakerState /\ Covered(FreshBreaker)
  BY ClearedType DEF FreshBreaker

LEMMA ResetType ==
    ASSUME NEW b \in BreakerState
    PROVE  Reset(b) \in BreakerState /\ Covered(Reset(b))
  BY ClearedType DEF Reset, BreakerState
-----------------------------------------------------------------------------
(* Every reachable state of the breaker, of its saved copy and of the      *)
(* history is of its declared type.                                        *)
THEOREM TypeCorrect == Spec => []TypeOK
  <1>1. Init => TypeOK
    BY FreshBreakerType DEF Init, TypeOK, HistoryType, NoHistory
  <1>2. TypeOK /\ [Next]_vars => TypeOK'
    <2> SUFFICES ASSUME TypeOK, [Next]_vars PROVE TypeOK'
      OBVIOUS
    <2> USE DEF TypeOK
    <2>1. ASSUME NEW equity \in Equities \cup {Unknown},
                 NEW rate \in Rates \cup {Unknown}, TickAssess(equity, rate)
          PROVE  TypeOK'
      <3>1. equity \in Int \cup {Unknown} /\ rate \in Int \cup {Unknown}
        BY CircuitBreakerAssumption
      <3>2. breaker' \in BreakerState
        BY <2>1, <3>1, AssessType DEF TickAssess
      <3>3. history' \in HistoryType
        <4>1. Measured(equity) => equity \in Nat \ {0}
          BY <3>1, BreakerAssumption DEF Measured
        <4>2. history.curve \in Seq(Nat \ {0})
          BY DEF HistoryType
        <4>3. (IF Measured(equity) THEN Append(history.curve, equity)
               ELSE history.curve) \in Seq(Nat \ {0})
          BY <4>1, <4>2
        <4>4. (IF DailyLoss(rate) THEN history.lossDays \cup {day}
               ELSE history.lossDays) \in SUBSET Nat
          BY DEF HistoryType
        <4>5. QED
          BY <2>1, <4>3, <4>4 DEF TickAssess, HistoryType
      <3>4. QED
        BY <2>1, <3>2, <3>3 DEF TickAssess
    <2>2. ASSUME ManualReset PROVE TypeOK'
      <3>1. breaker' \in BreakerState
        BY <2>2, ResetType DEF ManualReset
      <3>2. Len(history.curve) + 1 \in Nat \ {0}
        BY DEF HistoryType
      <3>3. history' \in HistoryType
        BY <2>2, <3>2 DEF ManualReset, HistoryType
      <3>4. QED
        BY <2>2, <3>1, <3>3 DEF ManualReset
    <2>3. ASSUME Save PROVE TypeOK'
      BY <2>3 DEF Save
    <2>4. ASSUME Restart PROVE TypeOK'
      BY <2>4, FreshBreakerType DEF Restart, Restored
    <2>5. ASSUME NextDay PROVE TypeOK'
      BY <2>5 DEF NextDay
    <2>6. CASE UNCHANGED vars
      BY <2>6 DEF vars
    <2>7. QED
      BY <2>1, <2>2, <2>3, <2>4, <2>5, <2>6 DEF Next
  <1>3. QED
    BY <1>1, <1>2, PTL DEF Spec

(* The inductive form of DeepDrawdownIsHalted: the saved copy is covered   *)
(* too, or a restart would open the breaker.                               *)
CoveredInv == Covered(breaker) /\ (stored # Unknown => Covered(stored))

LEMMA CoveredInvariant == Spec => []CoveredInv
  <1>1. Init => CoveredInv
    BY FreshBreakerType DEF Init, CoveredInv
  <1>2. TypeOK /\ CoveredInv /\ [Next]_vars => CoveredInv'
    <2> SUFFICES ASSUME TypeOK, CoveredInv, [Next]_vars PROVE CoveredInv'
      OBVIOUS
    <2> USE DEF CoveredInv
    <2>1. ASSUME NEW equity \in Equities \cup {Unknown},
                 NEW rate \in Rates \cup {Unknown}, TickAssess(equity, rate)
          PROVE  CoveredInv'
      <3>1. Covered(Assess(breaker, equity, rate, day))
        BY AssessCovers, CircuitBreakerAssumption DEF TypeOK
      <3>2. QED
        BY <2>1, <3>1 DEF TickAssess
    <2>2. ASSUME ManualReset PROVE CoveredInv'
      BY <2>2, ResetType DEF ManualReset, TypeOK
    <2>3. ASSUME Save PROVE CoveredInv'
      BY <2>3 DEF Save
    <2>4. ASSUME Restart PROVE CoveredInv'
      BY <2>4, FreshBreakerType DEF Restart, Restored
    <2>5. ASSUME NextDay PROVE CoveredInv'
      BY <2>5 DEF NextDay
    <2>6. CASE UNCHANGED vars
      BY <2>6 DEF vars
    <2>7. QED
      BY <2>1, <2>2, <2>3, <2>4, <2>5, <2>6 DEF Next
  <1>3. QED
    BY <1>1, <1>2, TypeCorrect, PTL DEF Spec

(* A drawdown at the limit always holds new entries back: no order of      *)
(* assesses, missing or non-positive equities, resets, saves and restarts  *)
(* leaves a measured drawdown at the limit without the latch.              *)
THEOREM DeepDrawdownAlwaysHalted == Spec => []DeepDrawdownIsHalted
  <1>1. CoveredInv => DeepDrawdownIsHalted
    BY DEF CoveredInv, Covered, DeepDrawdownIsHalted, Tripped
  <1>2. QED
    BY <1>1, CoveredInvariant, PTL

(* Nothing but a measured recovery, a reset or the saved state opens the   *)
(* drawdown latch: a new day, an unknown or non-positive equity and a save *)
(* leave it as it was.                                                     *)
THEOREM LatchOpensOnlyOnEvidence == Spec => OpensOnlyOnEvidence
  <1>1. TypeOK /\ [Next]_vars
          => [(breaker.drawdownHalt /\ ~breaker'.drawdownHalt)
                => \/ Recovered(breaker'.drawdown)
                   \/ breaker' = Restored(stored)]_vars
    <2> SUFFICES ASSUME TypeOK, Next, breaker.drawdownHalt, ~breaker'.drawdownHalt
                 PROVE  Recovered(breaker'.drawdown) \/ breaker' = Restored(stored)
      OBVIOUS
    <2>1. ASSUME NEW equity \in Equities \cup {Unknown},
                 NEW rate \in Rates \cup {Unknown}, TickAssess(equity, rate)
          PROVE  Recovered(breaker'.drawdown)
      <3>1. breaker' = Assess(breaker, equity, rate, day)
        BY <2>1 DEF TickAssess
      <3>2. CASE equity # Unknown /\ NewPeak(breaker.hwm, equity) # Unknown
        <4>1. breaker'.drawdownHalt = HaltAfter(breaker.drawdownHalt, breaker'.drawdown)
          BY <3>1, <3>2 DEF Assess
        <4>2. QED
          BY <4>1 DEF HaltAfter
      <3>3. CASE ~(equity # Unknown /\ NewPeak(breaker.hwm, equity) # Unknown)
        <4>1. breaker'.drawdownHalt = breaker.drawdownHalt
          BY <3>1, <3>3 DEF Assess
        <4>2. QED
          BY <4>1
      <3>4. QED
        BY <3>2, <3>3
    <2>2. ASSUME ManualReset PROVE Recovered(breaker'.drawdown)
      <3>1. breaker'.drawdown = NoDrawdown
        BY <2>2 DEF ManualReset, Reset, Cleared
      <3>2. RearmDrawdown * 1 >= 0
        BY BreakerAssumption
      <3>3. QED
        BY <3>1, <3>2 DEF Recovered, NoDrawdown
    <2>3. ASSUME Save PROVE FALSE
      BY <2>3 DEF Save
    <2>4. ASSUME Restart PROVE breaker' = Restored(stored)
      BY <2>4 DEF Restart
    <2>5. ASSUME NextDay PROVE FALSE
      BY <2>5 DEF NextDay
    <2>6. QED
      BY <2>1, <2>2, <2>3, <2>4, <2>5 DEF Next
  <1>2. QED
    BY <1>1, TypeCorrect, PTL DEF Spec, OpensOnlyOnEvidence
-----------------------------------------------------------------------------
(* A daily halt against the days that showed a loss, for a breaker and the *)
(* history that goes with it: the halt date is the latest of those days,   *)
(* and none of them is after the latest assess.                            *)
DatedBy(b, h) ==
    /\ b.dailyHaltDate = Unknown => h.lossDays = {}
    /\ b.dailyHaltDate # Unknown => /\ b.dailyHaltDate \in h.lossDays
                                    /\ \A d \in h.lossDays : d <= b.dailyHaltDate
    /\ b.today = Unknown => h.lossDays = {}
    /\ b.today # Unknown => /\ b.today <= day
                            /\ \A d \in h.lossDays : d <= b.today

(* A restart falls back to the saved breaker with the history saved beside *)
(* it, or to a fresh one when nothing was saved.                           *)
DatedInv ==
    /\ DatedBy(breaker, history)
    /\ stored # Unknown => DatedBy(stored, saved)
    /\ stored = Unknown => saved = NoHistory

LEMMA FreshIsDated == DatedBy(FreshBreaker, NoHistory)
  BY BreakerAssumption DEF DatedBy, FreshBreaker, Cleared, NoHistory

LEMMA DatedInvariant == Spec => []DatedInv
  <1>1. Init => DatedInv
    BY FreshIsDated DEF Init, DatedInv
  <1>2. TypeOK /\ DatedInv /\ [Next]_vars => DatedInv'
    <2> SUFFICES ASSUME TypeOK, DatedInv, [Next]_vars PROVE DatedInv'
      OBVIOUS
    <2>0. /\ breaker \in BreakerState /\ day \in Nat
          /\ stored \in BreakerState \cup {Unknown}
          /\ history \in HistoryType /\ saved \in HistoryType
      BY DEF TypeOK
    <2>1. ASSUME NEW equity \in Equities \cup {Unknown},
                 NEW rate \in Rates \cup {Unknown}, TickAssess(equity, rate)
          PROVE  DatedInv'
      <3>1. /\ breaker'.today = day
            /\ breaker'.dailyHaltDate = HaltDateAfter(breaker.dailyHaltDate, rate, day)
            /\ history'.lossDays = IF DailyLoss(rate) THEN history.lossDays \cup {day}
                                   ELSE history.lossDays
        BY <2>0, <2>1 DEF TickAssess, Assess, HistoryType
      <3>2. \A d \in history.lossDays : d \in Nat /\ d <= day
        BY <2>0 DEF DatedInv, DatedBy, HistoryType, BreakerState
      <3>3. day # Unknown /\ UNCHANGED <<day, stored, saved>>
        BY <2>0, <2>1, BreakerAssumption DEF TickAssess
      <3>4. DatedBy(breaker, history)'
        <4>1. CASE DailyLoss(rate)
          BY <2>0, <3>1, <3>2, <3>3, <4>1 DEF DatedBy, HaltDateAfter
        <4>2. CASE ~DailyLoss(rate)
          BY <2>0, <3>1, <3>2, <3>3, <4>2 DEF DatedBy, HaltDateAfter, DatedInv
        <4>3. QED
          BY <4>1, <4>2
      <3>5. QED
        BY <3>3, <3>4 DEF DatedInv, DatedBy
    <2>2. ASSUME ManualReset PROVE DatedInv'
      <3>1. /\ breaker'.today = breaker.today
            /\ breaker'.dailyHaltDate = Unknown
            /\ history'.lossDays = {}
        BY <2>0, <2>2 DEF ManualReset, Reset, Cleared, HistoryType
      <3>2. UNCHANGED <<day, stored, saved>>
        BY <2>2 DEF ManualReset
      <3>3. QED
        BY <3>1, <3>2 DEF DatedInv, DatedBy
    <2>3. ASSUME Save PROVE DatedInv'
      BY <2>0, <2>3, NoStateAssumption DEF Save, DatedInv, DatedBy
    <2>4. ASSUME Restart PROVE DatedInv'
      BY <2>4, FreshIsDated DEF Restart, Restored, DatedInv, DatedBy
    <2>5. ASSUME NextDay PROVE DatedInv'
      <3>1. \A b \in BreakerState : \A h : DatedBy(b, h) => DatedBy(b, h)'
        BY <2>0, <2>5 DEF NextDay, DatedBy, BreakerState
      <3>2. QED
        BY <2>0, <2>5, <3>1 DEF NextDay, DatedInv
    <2>6. CASE UNCHANGED vars
      BY <2>6 DEF vars, DatedInv, DatedBy
    <2>7. QED
      BY <2>1, <2>2, <2>3, <2>4, <2>5, <2>6 DEF Next
  <1>3. QED
    BY <1>1, <1>2, TypeCorrect, PTL DEF Spec

(* Entries are closed by a daily loss on the day it was seen and on no     *)
(* other, however resets, saves and restarts fall between.                 *)
THEOREM DailyHaltOnItsDay == Spec => []DailyHaltIsForItsDay
  <1>1. TypeOK /\ DatedInv => DailyHaltIsForItsDay
    BY DEF TypeOK, DatedInv, DatedBy, DailyHaltIsForItsDay, DailyHaltActive,
           BreakerState, HistoryType
  <1>2. QED
    BY <1>1, DatedInvariant, TypeCorrect, PTL
-----------------------------------------------------------------------------
(* The highest point of a stretch of the curve.                            *)
IsPeak(p, c, from, i) == /\ \E j \in from..i : c[j] = p
                         /\ \A j \in from..i : c[j] <= p

LEMMA PeakIsUnique ==
    ASSUME NEW c \in Seq(Nat \ {0}), NEW from \in Nat \ {0}, NEW i \in from..Len(c),
           NEW p, IsPeak(p, c, from, i)
    PROVE  PeakOf(c, from, i) = p
  <1>1. \A j \in from..i : c[j] \in Nat
    OBVIOUS
  <1>2. \E q \in {c[j] : j \in from..i} : \A j \in from..i : c[j] <= q
    BY DEF IsPeak
  <1>3. IsPeak(PeakOf(c, from, i), c, from, i)
    BY <1>2 DEF PeakOf, IsPeak
  <1>4. QED
    BY <1>1, <1>3 DEF IsPeak

(* A curve and the same curve with one more point agree on the old points. *)
LEMMA OldPointsStay ==
    ASSUME NEW c \in Seq(Nat \ {0}), NEW e \in Nat \ {0}
    PROVE  LET d == Append(c, e)
           IN  /\ d \in Seq(Nat \ {0}) /\ Len(d) = Len(c) + 1 /\ d[Len(d)] = e
               /\ \A j \in 1..Len(c) : d[j] = c[j]
  OBVIOUS

Point(h, i) == DrawdownAt(h.curve, h.since, i)

(* The latch, stated on the curve.                                         *)
SankAndStayed(h) ==
    \E i \in h.since..Len(h.curve) :
        /\ Deep(Point(h, i))
        /\ \A j \in i..Len(h.curve) : Deep(Point(h, j)) \/ ~Recovered(Point(h, j))

(* A breaker carries the peak and the last drawdown of the curve since the *)
(* reset, nothing of it before a first equity was measured.                *)
Follows(b, h) ==
    LET n == Len(h.curve)
    IN  /\ h.since <= n + 1
        /\ h.since = n + 1 => b.hwm = Unknown /\ b.drawdown = NoDrawdown
        /\ h.since <= n => /\ IsPeak(b.hwm, h.curve, h.since, n)
                           /\ b.drawdown = Point(h, n)
        /\ \A i \in h.since..n : IsPeak(PeakOf(h.curve, h.since, i), h.curve, h.since, i)
        /\ b.drawdownHalt <=> SankAndStayed(h)

FollowsInv ==
    /\ Follows(breaker, history)
    /\ stored # Unknown => Follows(stored, saved)
    /\ stored = Unknown => saved = NoHistory

LEMMA FreshFollows == Follows(FreshBreaker, NoHistory)
  BY DEF Follows, FreshBreaker, Cleared, NoHistory, SankAndStayed

(* One more measured equity: the points before it keep their drawdown, the *)
(* new one has the drawdown the breaker computes.                          *)
LEMMA MeasuredPoint ==
    ASSUME NEW b \in BreakerState, NEW h \in HistoryType, NEW g \in HistoryType,
           NEW e \in Nat \ {0}, Follows(b, h),
           g.curve = Append(h.curve, e), g.since = h.since
    PROVE  LET n == Len(h.curve)
               hwm == NewPeak(b.hwm, e)
           IN  /\ IsPeak(hwm, g.curve, g.since, n + 1)
               /\ Point(g, n + 1) = [lost |-> hwm - e, of |-> hwm]
               /\ \A i \in h.since..n : /\ Point(g, i) = Point(h, i)
                                        /\ PeakOf(g.curve, g.since, i)
                                             = PeakOf(h.curve, h.since, i)
                                        /\ IsPeak(PeakOf(g.curve, g.since, i),
                                                  g.curve, g.since, i)
  <1> DEFINE c == h.curve
             d == g.curve
             s == h.since
             n == Len(c)
             hwm == NewPeak(b.hwm, e)
  <1>1. c \in Seq(Nat \ {0}) /\ s \in Nat \ {0} /\ n \in Nat /\ s <= n + 1
    BY DEF HistoryType, Follows
  <1>2. /\ d \in Seq(Nat \ {0}) /\ Len(d) = n + 1 /\ d[n + 1] = e
        /\ \A j \in 1..n : d[j] = c[j]
    BY <1>1, OldPointsStay
  <1>3. \A i \in s..n : \A p : IsPeak(p, c, s, i) => IsPeak(p, d, s, i)
    <2> SUFFICES ASSUME NEW i \in s..n, NEW p, IsPeak(p, c, s, i)
                 PROVE  IsPeak(p, d, s, i)
      OBVIOUS
    <2>1. \A j \in s..i : d[j] = c[j]
      BY <1>1, <1>2
    <2>2. QED
      BY <2>1 DEF IsPeak
  <1>4. ASSUME NEW i \in s..n
        PROVE  /\ Point(g, i) = Point(h, i)
               /\ PeakOf(d, s, i) = PeakOf(c, s, i)
               /\ IsPeak(PeakOf(d, s, i), d, s, i)
    <2>1. IsPeak(PeakOf(c, s, i), d, s, i)
      BY <1>3 DEF Follows
    <2>2. PeakOf(d, s, i) = PeakOf(c, s, i)
      <3>1. i \in s..Len(d)
        BY <1>1, <1>2
      <3>2. QED
        BY <1>1, <1>2, <2>1, <3>1, PeakIsUnique
    <2>3. d[i] = c[i]
      BY <1>1, <1>2
    <2>4. QED
      BY <2>1, <2>2, <2>3 DEF Point, DrawdownAt
  <1>5. IsPeak(hwm, d, s, n + 1)
    <2>1. Measured(e)
      BY BreakerAssumption DEF Measured
    <2>2. CASE s = n + 1
      <3>1. hwm = e
        BY <2>1, <2>2 DEF Follows, NewPeak
      <3>2. \A j \in s..(n + 1) : d[j] = e /\ e <= e
        BY <1>1, <1>2, <2>2
      <3>3. s \in s..(n + 1)
        BY <1>1, <2>2
      <3> HIDE DEF hwm
      <3>4. QED
        BY <3>1, <3>2, <3>3 DEF IsPeak
    <2>3. CASE s <= n
      <3>1. IsPeak(b.hwm, d, s, n)
        BY <1>1, <1>3, <2>3, SMTT(30) DEF Follows
      <3>2. b.hwm \in Nat \ {0}
        BY <1>1, <1>2, <3>1 DEF IsPeak
      <3>3. /\ hwm \in {b.hwm, e} /\ b.hwm <= hwm /\ e <= hwm
        BY <2>1, <3>2, BreakerAssumption DEF NewPeak
      <3> HIDE DEF hwm
      <3>4. \A j \in s..(n + 1) : d[j] <= hwm
        <4> SUFFICES ASSUME NEW j \in s..(n + 1) PROVE d[j] <= hwm
          OBVIOUS
        <4>1. CASE j \in s..n
          <5>1. d[j] <= b.hwm /\ d[j] \in Nat
            BY <1>1, <1>2, <3>1, <4>1 DEF IsPeak
          <5>2. \A x, y, z \in Nat : x <= y /\ y <= z => x <= z
            OBVIOUS
          <5>3. hwm \in Nat /\ b.hwm \in Nat
            BY <3>2, <3>3
          <5>4. QED
            BY <3>3, <5>1, <5>2, <5>3
        <4>2. CASE j = n + 1
          BY <1>2, <3>3, <4>2
        <4>3. QED
          BY <1>1, <4>1, <4>2
      <3>5. \E j \in s..(n + 1) : d[j] = hwm
        <4>1. \A j \in s..n : j \in s..(n + 1)
          BY <1>1
        <4>2. n + 1 \in s..(n + 1)
          BY <1>1
        <4>3. QED
          BY <1>2, <3>1, <3>3, <4>1, <4>2 DEF IsPeak
      <3>6. QED
        BY <3>4, <3>5 DEF IsPeak
    <2>4. QED
      BY <1>1, <2>2, <2>3
  <1>6. Point(g, n + 1) = [lost |-> hwm - e, of |-> hwm]
    <2>1. n + 1 \in s..Len(d)
      BY <1>1, <1>2
    <2>2. PeakOf(d, s, n + 1) = hwm
      BY <1>1, <1>2, <1>5, <2>1, PeakIsUnique
    <2>3. QED
      BY <1>2, <2>2 DEF Point, DrawdownAt
  <1>7. QED
    BY <1>4, <1>5, <1>6

(* One assess keeps the breaker on the curve. A measured equity moves both;*)
(* a missing or non-positive one neither, though the code then looks at the*)
(* latch again with the drawdown it has.                                   *)
LEMMA AssessFollows ==
    ASSUME NEW b \in BreakerState, NEW h \in HistoryType, NEW g \in HistoryType,
           NEW equity \in Int \cup {Unknown}, NEW rate, NEW date, Follows(b, h),
           g.curve = IF Measured(equity) THEN Append(h.curve, equity) ELSE h.curve,
           g.since = h.since
    PROVE  Follows(Assess(b, equity, rate, date), g)
  <1> DEFINE n == Len(h.curve)
             hwm == NewPeak(b.hwm, equity)
             a == Assess(b, equity, rate, date)
  <1>1. /\ h.curve \in Seq(Nat \ {0}) /\ h.since \in Nat \ {0} /\ n \in Nat
        /\ h.since <= n + 1
    BY DEF HistoryType, Follows
  <1>2. CASE Measured(equity)
    <2>1. equity \in Nat \ {0} /\ equity # Unknown
      BY <1>2, BreakerAssumption DEF Measured
    <2>2. /\ g.curve = Append(h.curve, equity) /\ Len(g.curve) = n + 1
      BY <1>1, <1>2, <2>1
    <2>3. /\ IsPeak(hwm, g.curve, g.since, n + 1)
          /\ Point(g, n + 1) = [lost |-> hwm - equity, of |-> hwm]
          /\ \A i \in h.since..n : /\ Point(g, i) = Point(h, i)
                                   /\ IsPeak(PeakOf(g.curve, g.since, i),
                                             g.curve, g.since, i)
      BY <2>1, <2>2, MeasuredPoint
    <2>4. PeakOf(g.curve, g.since, n + 1) = hwm
      <3>1. g.curve \in Seq(Nat \ {0}) /\ n + 1 \in g.since..Len(g.curve)
        BY <1>1, <2>2 DEF HistoryType
      <3>2. QED
        BY <1>1, <2>3, <3>1, PeakIsUnique
    <2>5. /\ a.hwm = hwm /\ a.drawdown = Point(g, n + 1)
      BY <1>2, <2>3 DEF Assess, NewDrawdown
    <2>6. hwm # Unknown
      <3>1. b.hwm \in (Nat \ {0}) \cup {Unknown}
        BY DEF BreakerState
      <3>2. hwm \in Nat \ {0}
        BY <1>2, <3>1, NewPeakType
      <3>3. QED
        BY <3>2, BreakerAssumption
    <2>7. a.drawdownHalt = HaltAfter(b.drawdownHalt, Point(g, n + 1))
      BY <2>1, <2>5, <2>6 DEF Assess
    <2>8. SankAndStayed(g)
            <=> \/ Deep(Point(g, n + 1))
                \/ SankAndStayed(h) /\ ~Recovered(Point(g, n + 1))
      <3> DEFINE Holds(x, j) == Deep(Point(x, j)) \/ ~Recovered(Point(x, j))
      <3>1. \A j \in h.since..n : Point(g, j) = Point(h, j)
        BY <2>3
      <3>2. ASSUME SankAndStayed(g), ~Deep(Point(g, n + 1))
            PROVE  SankAndStayed(h) /\ ~Recovered(Point(g, n + 1))
        <4>1. PICK i \in h.since..(n + 1) :
                /\ Deep(Point(g, i)) /\ \A j \in i..(n + 1) : Holds(g, j)
          BY <2>2, <3>2 DEF SankAndStayed
        <4>2. i \in h.since..n
          BY <1>1, <3>2, <4>1
        <4>3. Deep(Point(h, i)) /\ \A j \in i..n : Holds(h, j)
          BY <1>1, <3>1, <4>1, <4>2
        <4>4. Holds(g, n + 1)
          BY <1>1, <4>1, <4>2
        <4>5. QED
          BY <3>2, <4>2, <4>3, <4>4 DEF SankAndStayed
      <3>3. ASSUME Deep(Point(g, n + 1)) PROVE SankAndStayed(g)
        <4>1. n + 1 \in g.since..Len(g.curve) /\ \A j \in (n + 1)..(n + 1) : j = n + 1
          BY <1>1, <2>2
        <4>2. QED
          BY <2>2, <3>3, <4>1 DEF SankAndStayed
      <3>4. ASSUME SankAndStayed(h), ~Recovered(Point(g, n + 1)) PROVE SankAndStayed(g)
        <4>1. PICK i \in h.since..n :
                /\ Deep(Point(h, i)) /\ \A j \in i..n : Holds(h, j)
          BY <3>4 DEF SankAndStayed
        <4>2. \A j \in i..(n + 1) : j \in i..n \/ j = n + 1
          BY <1>1
        <4>3. Deep(Point(g, i)) /\ \A j \in i..(n + 1) : Holds(g, j)
          BY <1>1, <3>1, <3>4, <4>1, <4>2, SMTT(30)
        <4>4. i \in g.since..Len(g.curve)
          BY <1>1, <2>2, <4>1
        <4>5. QED
          BY <2>2, <4>3, <4>4 DEF SankAndStayed
      <3>5. QED
        BY <3>2, <3>3, <3>4
    <2>9. a.drawdownHalt <=> SankAndStayed(g)
      BY <2>7, <2>8 DEF Follows, HaltAfter
    <2>10. \A i \in g.since..(n + 1) :
              IsPeak(PeakOf(g.curve, g.since, i), g.curve, g.since, i)
      <3>1. \A i \in g.since..(n + 1) : i \in h.since..n \/ i = n + 1
        BY <1>1
      <3>2. QED
        BY <2>3, <2>4, <3>1
    <2> HIDE DEF a, hwm
    <2>11. Follows(a, g)
      BY <1>1, <2>2, <2>3, <2>5, <2>9, <2>10 DEF Follows
    <2>12. QED
      BY <2>11 DEF a
  <1>3. CASE ~Measured(equity)
    <2>1. g.curve = h.curve /\ a.hwm = b.hwm /\ a.drawdown = b.drawdown
      BY <1>3 DEF Assess, NewPeak, NewDrawdown
    <2>2. SankAndStayed(g) = SankAndStayed(h)
      BY <2>1 DEF SankAndStayed, Point
    <2>3. a.drawdownHalt <=> b.drawdownHalt
      <3>1. CASE equity # Unknown /\ b.hwm # Unknown
        <4>1. a.drawdownHalt = HaltAfter(b.drawdownHalt, b.drawdown)
          BY <1>3, <2>1, <3>1 DEF Assess
        <4>2. h.since <= n /\ b.drawdown = Point(h, n)
          BY <1>1, <3>1 DEF Follows
        <4>3. n \in h.since..n /\ \A j \in n..n : j = n
          BY <1>1, <4>2
        <4>4. Deep(Point(h, n)) => SankAndStayed(h)
          BY <4>3 DEF SankAndStayed
        <4>5. SankAndStayed(h) => Deep(Point(h, n)) \/ ~Recovered(Point(h, n))
          BY <1>1 DEF SankAndStayed
        <4>6. b.drawdownHalt <=> SankAndStayed(h)
          BY DEF Follows
        <4>7. QED
          BY <4>1, <4>2, <4>4, <4>5, <4>6 DEF HaltAfter
      <3>2. CASE ~(equity # Unknown /\ b.hwm # Unknown)
        BY <2>1, <3>2 DEF Assess
      <3>3. QED
        BY <3>1, <3>2
    <2> HIDE DEF a
    <2>4. Follows(a, g)
      BY <2>1, <2>2, <2>3 DEF Follows, Point
    <2>5. QED
      BY <2>4 DEF a
  <1>4. QED
    BY <1>2, <1>3

LEMMA FollowsInvariant == Spec => []FollowsInv
  <1>1. Init => FollowsInv
    BY FreshFollows DEF Init, FollowsInv
  <1>2. TypeOK /\ TypeOK' /\ FollowsInv /\ [Next]_vars => FollowsInv'
    <2> SUFFICES ASSUME TypeOK, TypeOK', FollowsInv, [Next]_vars PROVE FollowsInv'
      OBVIOUS
    <2>0. /\ breaker \in BreakerState
          /\ history \in HistoryType /\ history' \in HistoryType
      BY DEF TypeOK
    <2>1. ASSUME NEW equity \in Equities \cup {Unknown},
                 NEW rate \in Rates \cup {Unknown}, TickAssess(equity, rate)
          PROVE  FollowsInv'
      <3>1. /\ history'.curve = IF Measured(equity) THEN Append(history.curve, equity)
                                ELSE history.curve
            /\ history'.since = history.since
        BY <2>0, <2>1 DEF TickAssess, HistoryType
      <3>2. equity \in Int \cup {Unknown}
        BY CircuitBreakerAssumption
      <3>3. Follows(Assess(breaker, equity, rate, day), history')
        BY <2>0, <3>1, <3>2, AssessFollows DEF FollowsInv
      <3>4. QED
        BY <2>1, <3>3 DEF TickAssess, FollowsInv
    <2>2. ASSUME ManualReset PROVE FollowsInv'
      <3>1. /\ history'.curve = history.curve
            /\ history'.since = Len(history.curve) + 1
        BY <2>0, <2>2 DEF ManualReset, HistoryType
      <3>2. /\ breaker'.hwm = Unknown /\ breaker'.drawdown = NoDrawdown
            /\ breaker'.drawdownHalt = FALSE
        BY <2>2 DEF ManualReset, Reset, Cleared
      <3>3. /\ Len(history.curve) \in Nat
            /\ history'.since..Len(history'.curve) = {}
        BY <2>0, <3>1 DEF HistoryType
      <3>4. Follows(breaker', history')
        BY <3>1, <3>2, <3>3 DEF Follows, SankAndStayed
      <3>5. QED
        BY <2>2, <3>4 DEF ManualReset, FollowsInv
    <2>3. ASSUME Save PROVE FollowsInv'
      BY <2>0, <2>3, NoStateAssumption DEF Save, FollowsInv
    <2>4. ASSUME Restart PROVE FollowsInv'
      BY <2>4, FreshFollows DEF Restart, Restored, FollowsInv
    <2>5. ASSUME NextDay PROVE FollowsInv'
      BY <2>5 DEF NextDay, FollowsInv
    <2>6. CASE UNCHANGED vars
      BY <2>6 DEF vars, FollowsInv
    <2>7. QED
      BY <2>1, <2>2, <2>3, <2>4, <2>5, <2>6 DEF Next
  <1>3. QED
    BY <1>1, <1>2, TypeCorrect, PTL DEF Spec

(* Hysteresis over the whole curve since the last reset: entries are held  *)
(* back exactly when the equity once sank to the limit and has not been    *)
(* within the rearm level since, for every curve, every order of missing   *)
(* and non-positive readings, midnights, saves and restarts, and also when *)
(* the rearm level is set above the limit.                                 *)
THEOREM HaltIsTheCurve == Spec => []HaltFollowsEquityCurve
  <1>1. FollowsInv => HaltFollowsEquityCurve
    BY DEF FollowsInv, Follows, SankAndStayed, Point, HaltFollowsEquityCurve
  <1>2. QED
    BY <1>1, FollowsInvariant, PTL
-----------------------------------------------------------------------------
(* Reconciliation.                                                         *)
Steps == {"idle", "fetched", "first", "loaded", "mismatched", "halting",
          "compared", "ordering", "recording", "saving"}
Locals == [seen : Snapshot, prev : Snapshot \cup {None}, halted : BOOLEAN]

LEMMA FreshType == Fresh \in Locals
BY DEF Fresh, NoSnapshot, NoTrail, Locals, Snapshot

(* ReconcileTypeOK in two parts: what the coroutines hold, and orders and account.  *)
SystemTyped ==
    /\ mode \in {"DRY_RUN", "LIVE"} /\ killSwitch \in BOOLEAN /\ savedKill \in BOOLEAN
    /\ absorbed \in BOOLEAN
    /\ baseline \in Snapshot \cup {None}
    /\ at \in [Coroutines -> Steps]
    /\ run \in [Coroutines -> Locals]

OrdersTyped ==
    /\ sent \in Seq(Order)
    /\ recorded \subseteq DOMAIN sent
    /\ account \in [Symbols -> Nat]
    /\ executed \subseteq DOMAIN sent
    /\ byHand \in [Symbols -> Int]
    /\ trades \in Nat /\ failures \in Nat

LEMMA TypeParts == ReconcileTypeOK <=> SystemTyped /\ OrdersTyped
BY DEF ReconcileTypeOK, SystemTyped, OrdersTyped, Locals, Steps

LEMMA SystemTypes == SystemTyped /\ OrdersTyped /\ [ReconcileNext]_reconcileVars => SystemTyped'
<1> SUFFICES ASSUME SystemTyped, OrdersTyped, [ReconcileNext]_reconcileVars PROVE SystemTyped'
  OBVIOUS
<1> USE FreshType DEF SystemTyped, Move
<1>1. ASSUME NEW c \in Coroutines, Fetch(c) PROVE SystemTyped'
  <2> DEFINE seen == [qty |-> account, ts |-> Len(sent),
                      trail |-> [hand |-> byHand, done |-> executed]]
  <2>1. seen \in Snapshot
    <3>1. Len(sent) \in Nat /\ DOMAIN sent \subseteq Nat
      BY DEF OrdersTyped
    <3> QED  BY <3>1 DEF OrdersTyped, Snapshot
  <2>2. [Fresh EXCEPT !.seen = seen] \in Locals
    BY <2>1 DEF Locals
  <2>3. run' = [run EXCEPT ![c] = [Fresh EXCEPT !.seen = seen]]
    BY <1>1 DEF Fetch
  <2> QED  BY <1>1, <2>2, <2>3 DEF Fetch, Steps
<1>2. ASSUME NEW c \in Coroutines, Load(c) PROVE SystemTyped'
  <2>1. PICK now \in run[c].seen.ts..Len(sent) :
           run' = [run EXCEPT ![c].prev = baseline, ![c].seen.ts = now]
    BY <1>2 DEF Load
  <2>2. now \in Nat
    <3>1. Len(sent) \in Nat /\ run[c].seen.ts \in Nat
      BY DEF OrdersTyped, Locals, Snapshot
    <3> QED  BY <3>1
  <2>3. [run[c] EXCEPT !.prev = baseline, !.seen.ts = now] \in Locals
    BY <2>2 DEF Locals, Snapshot
  <2>4. run' \in [Coroutines -> Locals]
    BY <2>1, <2>3
  <2> QED  BY <1>2, <2>4 DEF Load, Steps
<1>3. ASSUME NEW c \in Coroutines, NEW from, NEW to \in Steps, GoesOn(c, from, to)
      PROVE  at' \in [Coroutines -> Steps] /\ run' \in [Coroutines -> Locals]
  BY <1>3 DEF GoesOn, Locals, Steps
<1>4. ASSUME NEW c \in Coroutines,
             CreateBaseline(c) \/ Consistent(c) \/ Tolerate(c) \/ Halt(c)
      PROVE  SystemTyped'
  <2>1. at' \in [Coroutines -> Steps] /\ run' \in [Coroutines -> Locals]
    BY <1>3, <1>4 DEF CreateBaseline, Consistent, Tolerate, Halt, Steps
  <2>2. run[c].seen \in Snapshot
    BY DEF Locals
  <2> QED  BY <1>4, <2>1, <2>2 DEF CreateBaseline, Consistent, Tolerate, Halt, SaveSwitch
<1>5. ASSUME NEW c \in Coroutines, Mismatched(c) \/ Engage(c) \/ StepFails(c)
      PROVE  SystemTyped'
  <2>1. /\ [run[c] EXCEPT !.prev = None] \in Locals
        /\ [run[c] EXCEPT !.halted = TRUE] \in Locals
    BY DEF Locals
  <2>2. CASE Mismatched(c)
    BY <2>1, <2>2 DEF Mismatched, Steps
  <2>3. CASE Engage(c)
    BY <2>1, <2>3 DEF Engage, Steps
  <2>4. CASE StepFails(c)
    BY <2>4 DEF StepFails, Steps
  <2> QED  BY <1>5, <2>2, <2>3, <2>4
<1>6. CASE Advance
  <2>1. run["tick"].seen \in Snapshot /\ run["tick"].halted \in BOOLEAN
    BY DEF Locals, Coroutines
  <2> QED  BY <1>6, <2>1 DEF Advance, Steps
<1>7. CASE (\E order \in Order : Send(order)) \/ OrdersMade \/ Record \/ SaveState
  BY <1>7 DEF Send, OrdersMade, Record, SaveState, Steps
<1>8. CASE CrashAndRestart
  BY <1>8 DEF CrashAndRestart, Steps
<1>9. CASE Release
  BY <1>9 DEF Release, Locals
<1>10. CASE \/ \E n \in DOMAIN sent : Execute(n)
            \/ \E s \in Symbols, qty \in {1, -1} : TradeByHand(s, qty)
  BY <1>10 DEF Execute, TradeByHand, system
<1>11. CASE UNCHANGED reconcileVars
  BY <1>11 DEF reconcileVars, system
<1> QED
  BY <1>1, <1>2, <1>4, <1>5, <1>6, <1>7, <1>8, <1>9, <1>10, <1>11 DEF ReconcileNext

LEMMA OrderTypes == SystemTyped /\ OrdersTyped /\ [ReconcileNext]_reconcileVars => OrdersTyped'
<1> SUFFICES ASSUME SystemTyped, OrdersTyped, [ReconcileNext]_reconcileVars PROVE OrdersTyped'
  OBVIOUS
<1> USE DEF OrdersTyped
<1>1. ASSUME NEW order \in Order, Send(order) PROVE OrdersTyped'
  <2>1. sent' \in Seq(Order) /\ DOMAIN sent \subseteq DOMAIN sent'
    BY <1>1 DEF Send
  <2> QED  BY <1>1, <2>1 DEF Send, broker
<1>2. CASE Record
  <2>1. run["tick"].seen.ts \in Nat
    BY DEF SystemTyped, Locals, Snapshot, Coroutines
  <2>2. MadeInThisTick \subseteq DOMAIN sent
    BY <2>1 DEF MadeInThisTick
  <2> QED  BY <1>2, <2>2 DEF Record, broker
<1>3. ASSUME NEW n \in DOMAIN sent, Execute(n) PROVE OrdersTyped'
  <2>1. sent[n].symbol \in Symbols /\ sent[n].qty \in Int
    <3>1. sent[n] \in Order
      OBVIOUS
    <3> QED  BY <3>1 DEF Order
  <2>2. account' \in [Symbols -> Nat]
    BY <1>3, <2>1 DEF Execute
  <2> QED  BY <1>3, <2>2 DEF Execute, system
<1>4. ASSUME NEW s \in Symbols, NEW qty \in {1, -1}, TradeByHand(s, qty)
      PROVE  OrdersTyped'
  BY <1>4 DEF TradeByHand, system
<1>5. ASSUME NEW c \in Coroutines,
             \/ Fetch(c) \/ Load(c) \/ CreateBaseline(c) \/ Consistent(c)
             \/ Mismatched(c) \/ Tolerate(c) \/ Engage(c) \/ Halt(c)
      PROVE  OrdersTyped'
  BY <1>5 DEF Fetch, Load, CreateBaseline, Consistent, Mismatched, Tolerate, Engage,
              Halt, broker
<1>6. CASE Advance \/ OrdersMade \/ SaveState \/ Release
  BY <1>6 DEF Advance, OrdersMade, SaveState, Release, broker
<1>7. CASE CrashAndRestart \/ \E c \in Coroutines : StepFails(c)
  BY <1>7 DEF CrashAndRestart, StepFails, Fail, broker
<1>8. CASE UNCHANGED reconcileVars
  BY <1>8 DEF reconcileVars, system, broker
<1> QED  BY <1>1, <1>2, <1>3, <1>4, <1>5, <1>6, <1>7, <1>8 DEF ReconcileNext

LEMMA InitialOrders == ReconcileInit => OrdersTyped
<1> SUFFICES ASSUME ReconcileInit PROVE OrdersTyped
  OBVIOUS
<1>1. account \in [Symbols -> Nat] /\ byHand \in [Symbols -> Int]
  <2>1. account \in [Symbols -> Held] /\ byHand = [s \in Symbols |-> 0]
    BY DEF ReconcileInit
  <2>2. \A s \in Symbols : account[s] \in Nat
    BY <2>1, ReconcileAssumption
  <2>3. account \in [Symbols -> Nat]
    BY <2>1, <2>2
  <2> QED  BY <2>1, <2>3
<1>2. sent \in Seq(Order) /\ recorded = {} /\ executed = {} /\ trades = 0 /\ failures = 0
  BY DEF ReconcileInit
<1>3. recorded \subseteq DOMAIN sent /\ executed \subseteq DOMAIN sent
  BY <1>2
<1>4. trades \in Nat /\ failures \in Nat
  BY <1>2
<1> QED  BY <1>1, <1>2, <1>3, <1>4, Zenon DEF OrdersTyped

(* What the two coroutines, the orders table and the account hold is of    *)
(* their types in every reachable state; every row is of an order made.    *)
THEOREM ReconcileTypeCorrect == ReconcileSpec => []ReconcileTypeOK
<1>1. ReconcileInit => SystemTyped /\ OrdersTyped
  <2> SUFFICES ASSUME ReconcileInit PROVE SystemTyped /\ OrdersTyped
    OBVIOUS
  <2>1. SystemTyped
    BY FreshType DEF ReconcileInit, SystemTyped, Steps
  <2>2. OrdersTyped
    BY InitialOrders
  <2> QED  BY <2>1, <2>2
<1> QED
  BY <1>1, SystemTypes, OrderTypes, TypeParts, PTL DEF ReconcileSpec
-----------------------------------------------------------------------------
(* A coroutine that halted, and the tick that absorbed a mismatch, have    *)
(* left the switch on, and once past its save also the row.                *)
HaltIsKept ==
    /\ absorbed => killSwitch /\ savedKill
    /\ \A c \in Coroutines :
          run[c].halted => killSwitch /\ (at[c] # "halting" => savedKill)

LEMMA HaltStaysKept ==
    SystemTyped /\ OrdersTyped /\ HaltIsKept /\ [ReconcileNext]_reconcileVars => HaltIsKept'
<1> SUFFICES ASSUME SystemTyped, OrdersTyped, HaltIsKept, [ReconcileNext]_reconcileVars
             PROVE  HaltIsKept'
  OBVIOUS
<1> USE DEF HaltIsKept, Move
<1>0. Fresh.halted = FALSE
  BY DEF Fresh
<1>1. ASSUME NEW c \in Coroutines, Fetch(c) PROVE HaltIsKept'
  BY <1>0, <1>1 DEF Fetch, SystemTyped, Fresh
<1>2. ASSUME NEW c \in Coroutines, Load(c) PROVE HaltIsKept'
  BY <1>2 DEF Load, SystemTyped, Locals
<1>3. ASSUME NEW c \in Coroutines, CreateBaseline(c) \/ Consistent(c) \/ Tolerate(c)
      PROVE  HaltIsKept'
  BY <1>0, <1>3 DEF CreateBaseline, Consistent, Tolerate, GoesOn, SystemTyped, Locals
<1>4. ASSUME NEW c \in Coroutines, Halt(c) PROVE HaltIsKept'
  BY <1>0, <1>4 DEF Halt, GoesOn, SaveSwitch, SystemTyped, Locals
<1>5. ASSUME NEW c \in Coroutines, Mismatched(c) \/ Engage(c) PROVE HaltIsKept'
  BY <1>5 DEF Mismatched, Engage, Engages, SystemTyped, Locals
<1>6. ASSUME NEW c \in Coroutines, StepFails(c) PROVE HaltIsKept'
  BY <1>0, <1>6 DEF StepFails, SystemTyped, Locals
<1>7. CASE Advance
  BY <1>7 DEF Advance, SystemTyped, Locals, Coroutines
<1>8. CASE (\E order \in Order : Send(order)) \/ OrdersMade \/ Record
  BY <1>8 DEF Send, OrdersMade, Record, SystemTyped
<1>9. CASE SaveState
  BY <1>0, <1>9 DEF SaveState, SystemTyped
<1>10. CASE CrashAndRestart
  BY <1>0, <1>10 DEF CrashAndRestart, SystemTyped
<1>11. CASE Release
  BY <1>11 DEF Release, SystemTyped, Locals
<1>12. CASE \/ \E n \in DOMAIN sent : Execute(n)
            \/ \E s \in Symbols, qty \in {1, -1} : TradeByHand(s, qty)
  BY <1>12 DEF Execute, TradeByHand, system
<1>13. CASE UNCHANGED reconcileVars
  BY <1>13 DEF reconcileVars, system
<1> QED
  BY <1>1, <1>2, <1>3, <1>4, <1>5, <1>6, <1>7, <1>8, <1>9, <1>10, <1>11, <1>12, <1>13
     DEF ReconcileNext

(* The halt of a mismatch that no later tick can see again stays until it  *)
(* is released, whatever crashes, fails or runs in between.                *)
THEOREM AbsorbedHaltStays == ReconcileSpec => []AbsorbedMismatchIsKept
<1>1. ReconcileInit => SystemTyped /\ OrdersTyped /\ HaltIsKept
  <2> SUFFICES ASSUME ReconcileInit PROVE SystemTyped /\ OrdersTyped /\ HaltIsKept
    OBVIOUS
  <2>1. SystemTyped
    BY FreshType DEF ReconcileInit, SystemTyped, Steps
  <2>2. OrdersTyped
    BY InitialOrders
  <2>3. HaltIsKept
    BY DEF ReconcileInit, HaltIsKept, Fresh
  <2> QED  BY <2>1, <2>2, <2>3
<1>2. HaltIsKept => AbsorbedMismatchIsKept
  BY DEF HaltIsKept, AbsorbedMismatchIsKept
<1> QED
  BY <1>1, <1>2, SystemTypes, OrderTypes, HaltStaysKept, PTL DEF ReconcileSpec
-----------------------------------------------------------------------------
(* The shares that orders make up, as sums of the library.                 *)
NetOf(q, ns, s) == MapThenSumSet(LAMBDA n : q[n].qty, {n \in ns : q[n].symbol = s})
Qty(q, ns) == [n \in ns |-> q[n].qty]
Of(q, ns, s) == {n \in ns : q[n].symbol = s}

NetSums(q, S) == CHOOSE g : g = [t \in SUBSET S |->
                                IF t = {} THEN 0 ELSE q[Any(t)].qty + g[t \ {Any(t)}]]

LEMMA NetIsOfSums ==
    ASSUME NEW q, NEW ns, NEW s
    PROVE  NetOf(q, ns, s) = NetSums(q, Of(q, ns, s))[Of(q, ns, s)]
BY DEF NetOf, Of, MapThenSumSet, MapThenFoldSet, NetSums, Any

LEMMA NetIsASum ==
    ASSUME NEW q, NEW ns, IsFiniteSet(ns), NEW s
    PROVE  /\ NetOf(q, ns, s) = SumFunctionOnSet(Qty(q, Of(q, ns, s)), Of(q, ns, s))
           /\ IsFiniteSet(Of(q, ns, s))
<1> DEFINE S == Of(q, ns, s)
           f == Qty(q, S)
           Law(g) == g = [t \in SUBSET S |->
                            IF t = {} THEN 0 ELSE q[Any(t)].qty + g[t \ {Any(t)}]]
<1>1. IsFiniteSet(S)
  BY FS_Subset DEF Of
<1>2. \A t \in SUBSET S : t # {} => Any(t) \in t /\ f[Any(t)] = q[Any(t)].qty
  BY DEF Any, Qty
<1> HIDE DEF S, f
<1>3. PICK h : AreSums(h, f, S)
  BY <1>1, SumsExist
<1>4. Law(h)
  BY <1>2, <1>3 DEF AreSums
<1> DEFINE k == NetSums(q, S)
<1>5. Law(k)
  BY <1>4 DEF NetSums
<1> HIDE DEF k
<1>6. SumLaw(f, S)
  BY <1>1, SumsObeyTheLaw
<1> DEFINE B == {t \in SUBSET S : k[t] # Sums(f, S)[t]}
<1>7. B = {}
  <2> SUFFICES ASSUME B # {} PROVE FALSE
    OBVIOUS
  <2>1. PICK t \in B : \A x \in t : t \ {x} \notin B
    BY <1>1, SmallestExists
  <2>2. k[t] = IF t = {} THEN 0 ELSE q[Any(t)].qty + k[t \ {Any(t)}]
    BY <1>5
  <2>3. CASE t = {}
    BY <1>6, <2>2, <2>3 DEF SumLaw
  <2>4. CASE t # {}
    <3>1. Any(t) \in t /\ Sums(f, S)[t] = f[Any(t)] + Sums(f, S)[t \ {Any(t)}]
      BY <1>6, <2>4 DEF SumLaw
    <3>2. k[t \ {Any(t)}] = Sums(f, S)[t \ {Any(t)}]
      BY <2>1, <3>1
    <3> QED  BY <1>2, <2>2, <2>4, <3>1, <3>2
  <2> QED  BY <2>3, <2>4
<1>8. k[S] = Sums(f, S)[S]
  BY <1>7
<1> QED  BY <1>1, <1>8, NetIsOfSums, SumIsOfSums DEF k, S, f

(* Orders that the account may hold the effect of.                         *)
LEMMA SentOrders ==
    ASSUME NEW q \in Seq(Order), NEW ns \in SUBSET DOMAIN q
    PROVE  /\ IsFiniteSet(ns)
           /\ \A n \in ns : q[n].qty \in Int
<1>1. IsFiniteSet(DOMAIN q)
  <2>1. Len(q) \in Nat /\ DOMAIN q = 1..Len(q)
    OBVIOUS
  <2> QED  BY <2>1, FS_Interval
<1>2. \A n \in DOMAIN q : q[n] \in Order
  OBVIOUS
<1> QED  BY <1>1, <1>2, FS_Subset DEF Order

LEMMA NetType ==
    ASSUME NEW q \in Seq(Order), NEW ns \in SUBSET DOMAIN q, NEW s
    PROVE  NetOf(q, ns, s) \in Int
<1>1. /\ IsFiniteSet(ns) /\ IsFiniteSet(Of(q, ns, s))
      /\ NetOf(q, ns, s) = SumFunctionOnSet(Qty(q, Of(q, ns, s)), Of(q, ns, s))
  BY SentOrders, NetIsASum
<1>2. \A n \in Of(q, ns, s) : Qty(q, Of(q, ns, s))[n] \in Int
  BY SentOrders DEF Of, Qty
<1> QED  BY <1>1, <1>2, SumType

(* One order more.                                                         *)
QtyIn(q, n, s) == IF q[n].symbol = s THEN q[n].qty ELSE 0

LEMMA NetOfOneMore ==
    ASSUME NEW q \in Seq(Order), NEW ns \in SUBSET DOMAIN q, NEW n \in DOMAIN q \ ns, NEW s
    PROVE  NetOf(q, ns \cup {n}, s) = NetOf(q, ns, s) + QtyIn(q, n, s)
<1> DEFINE S == Of(q, ns, s)
           T == Of(q, ns \cup {n}, s)
<1>1. /\ IsFiniteSet(S) /\ NetOf(q, ns, s) = SumFunctionOnSet(Qty(q, S), S)
      /\ NetOf(q, ns, s) \in Int
  BY SentOrders, NetIsASum, NetType
<1>2. ns \cup {n} \in SUBSET DOMAIN q
  OBVIOUS
<1>3. IsFiniteSet(T) /\ NetOf(q, ns \cup {n}, s) = SumFunctionOnSet(Qty(q, T), T)
  BY <1>2, SentOrders, NetIsASum
<1>4. CASE q[n].symbol # s
  <2>1. T = S
    BY <1>4 DEF Of
  <2> QED  BY <1>1, <1>3, <1>4, <2>1 DEF QtyIn
<1>5. CASE q[n].symbol = s
  <2>1. n \in T /\ T \ {n} = S
    BY <1>5 DEF Of
  <2>2. \A m \in T : Qty(q, T)[m] \in Int
    BY <1>2, SentOrders DEF Of, Qty
  <2>3. Qty(q, T)[n] = q[n].qty /\ q[n].qty \in Int
    BY <1>2, <2>1, SentOrders DEF Qty
  <2>4. \A m \in S : Qty(q, T)[m] = Qty(q, S)[m]
    BY DEF Of, Qty
  <2> HIDE DEF S, T
  <2>5. SumFunctionOnSet(Qty(q, T), T) = Qty(q, T)[n] + SumFunctionOnSet(Qty(q, T), T \ {n})
    BY <1>3, <2>1, <2>2, SumTakesAny
  <2>6. SumFunctionOnSet(Qty(q, T), S) = SumFunctionOnSet(Qty(q, S), S)
    BY <1>1, <2>4, SameSum
  <2>7. NetOf(q, ns \cup {n}, s) = q[n].qty + NetOf(q, ns, s)
    BY <1>1, <1>3, <2>1, <2>3, <2>5, <2>6
  <2> QED  BY <1>1, <1>5, <2>3, <2>7 DEF QtyIn
<1> QED  BY <1>4, <1>5

(* Later orders change nothing in what earlier ones make up.               *)
LEMMA NetOfOldOrders ==
    ASSUME NEW q \in Seq(Order), NEW order \in Order, NEW ns \in SUBSET DOMAIN q, NEW s
    PROVE  NetOf(Append(q, order), ns, s) = NetOf(q, ns, s)
<1> DEFINE r == Append(q, order)
<1>1. \A n \in ns : r[n] = q[n]
  OBVIOUS
<1> HIDE DEF r
<1>2. Of(r, ns, s) = Of(q, ns, s) /\ Of(q, ns, s) \subseteq ns
  BY <1>1 DEF Of
<1>3. Qty(r, Of(q, ns, s)) = Qty(q, Of(q, ns, s))
  BY <1>1, <1>2 DEF Qty
<1>4. IsFiniteSet(ns)
  BY SentOrders
<1>5. NetOf(q, ns, s) = SumFunctionOnSet(Qty(q, Of(q, ns, s)), Of(q, ns, s))
  BY <1>4, NetIsASum
<1>6. NetOf(r, ns, s) = SumFunctionOnSet(Qty(r, Of(r, ns, s)), Of(r, ns, s))
  BY <1>4, NetIsASum
<1> QED  BY <1>2, <1>3, <1>5, <1>6 DEF r
-----------------------------------------------------------------------------
(* A snapshot sn traces back to where the account began: what it holds less*)
(* the trades by hand and the executions behind it is what the account now *)
(* holds less those that are behind that.                                  *)
Traced(q, acc, hand, done, sn) ==
    /\ sn.trail.done \subseteq DOMAIN q
    /\ \A s \in Symbols :
          sn.qty[s] - sn.trail.hand[s] - NetOf(q, sn.trail.done, s)
              = acc[s] - hand[s] - NetOf(q, done, s)

TracedNow(sn) == Traced(sent, account, byHand, executed, sn)

TraceInv ==
    /\ baseline # None => TracedNow(baseline)
    /\ \A c \in Coroutines :
          /\ at[c] # "idle" => TracedNow(run[c].seen)
          /\ at[c] = "loaded" => run[c].prev # None /\ TracedNow(run[c].prev)

LEMMA TracedThroughSend ==
    ASSUME OrdersTyped, NEW order \in Order, NEW sn, TracedNow(sn)
    PROVE  Traced(Append(sent, order), account, byHand, executed, sn)
<1>1. sent \in Seq(Order) /\ executed \subseteq DOMAIN sent /\ sn.trail.done \subseteq DOMAIN sent
  BY DEF OrdersTyped, TracedNow, Traced
<1>2. DOMAIN sent \subseteq DOMAIN Append(sent, order)
  BY <1>1
<1>3. \A s : /\ NetOf(Append(sent, order), executed, s) = NetOf(sent, executed, s)
             /\ NetOf(Append(sent, order), sn.trail.done, s) = NetOf(sent, sn.trail.done, s)
  BY <1>1, NetOfOldOrders
<1> QED  BY <1>1, <1>2, <1>3 DEF TracedNow, Traced

LEMMA TracedThroughExecution ==
    ASSUME OrdersTyped, NEW n \in DOMAIN sent \ executed, NEW sn \in Snapshot, TracedNow(sn)
    PROVE  Traced(sent, [account EXCEPT ![sent[n].symbol] = @ + sent[n].qty], byHand,
                  executed \cup {n}, sn)
<1> DEFINE acc == [account EXCEPT ![sent[n].symbol] = @ + sent[n].qty]
<1>1. /\ sent \in Seq(Order) /\ executed \in SUBSET DOMAIN sent
      /\ account \in [Symbols -> Nat] /\ byHand \in [Symbols -> Int]
  BY DEF OrdersTyped
<1>2. sent[n] \in Order
  BY <1>1
<1>3. sent[n].symbol \in Symbols /\ sent[n].qty \in Int
  BY <1>2 DEF Order
<1>4. ASSUME NEW s \in Symbols
      PROVE  acc[s] - byHand[s] - NetOf(sent, executed \cup {n}, s)
                = account[s] - byHand[s] - NetOf(sent, executed, s)
  <2> DEFINE more == IF sent[n].symbol = s THEN sent[n].qty ELSE 0
  <2>1. acc[s] = account[s] + more
    BY <1>1, <1>3
  <2>2. NetOf(sent, executed \cup {n}, s) = NetOf(sent, executed, s) + more
    <3>1. n \in DOMAIN sent \ executed
      OBVIOUS
    <3>2. NetOf(sent, executed \cup {n}, s) = NetOf(sent, executed, s) + QtyIn(sent, n, s)
      BY ONLY <1>1, <3>1, NetOfOneMore
    <3> QED  BY ONLY <3>2 DEF more, QtyIn
  <2>3. more \in Int /\ account[s] \in Int /\ byHand[s] \in Int
    BY <1>1, <1>3
  <2>4. NetOf(sent, executed, s) \in Int
    BY <1>1, NetType
  <2> HIDE DEF more, acc
  <2> QED  BY <2>1, <2>2, <2>3, <2>4
<1> QED  BY <1>4 DEF TracedNow, Traced

LEMMA TracedThroughTrade ==
    ASSUME OrdersTyped, NEW t \in Symbols, NEW qty \in {1, -1}, NEW sn, TracedNow(sn)
    PROVE  Traced(sent, [account EXCEPT ![t] = @ + qty], [byHand EXCEPT ![t] = @ + qty],
                  executed, sn)
<1>1. account \in [Symbols -> Nat] /\ byHand \in [Symbols -> Int] /\ qty \in Int
  BY DEF OrdersTyped
<1>2. \A s \in Symbols : [account EXCEPT ![t] = @ + qty][s] - [byHand EXCEPT ![t] = @ + qty][s]
                           = account[s] - byHand[s]
  BY <1>1
<1> QED  BY <1>2 DEF TracedNow, Traced

LEMMA TraceStep ==
    SystemTyped /\ OrdersTyped /\ TraceInv /\ [ReconcileNext]_reconcileVars => TraceInv'
<1> SUFFICES ASSUME SystemTyped, OrdersTyped, TraceInv, [ReconcileNext]_reconcileVars
             PROVE  TraceInv'
  OBVIOUS
<1> USE DEF Move
<1>0. at \in [Coroutines -> Steps] /\ run \in [Coroutines -> Locals]
  BY DEF SystemTyped
(* Steps of the coroutines: orders, account and executions stay.           *)
<1> DEFINE Still == UNCHANGED <<sent, account, byHand, executed>>
<1>1. Still => \A sn : TracedNow(sn)' <=> TracedNow(sn)
  BY DEF TracedNow
<1>2. ASSUME NEW c \in Coroutines, Fetch(c) PROVE TraceInv'
  <2>1. /\ Still /\ UNCHANGED baseline /\ at' = [at EXCEPT ![c] = "fetched"]
        /\ \A d \in Coroutines \ {c} : run'[d] = run[d]
        /\ run'[c].seen.qty = account
        /\ run'[c].seen.trail = [hand |-> byHand, done |-> executed]
    BY <1>0, <1>2 DEF Fetch, broker, Fresh, NoSnapshot
  <2>2. TracedNow(run'[c].seen)
    BY <2>1 DEF TracedNow, Traced, OrdersTyped
  <2> QED  BY <1>0, <1>1, <2>1, <2>2 DEF TraceInv
<1>3. ASSUME NEW c \in Coroutines, Load(c) PROVE TraceInv'
  <2>1. /\ Still /\ UNCHANGED baseline /\ at[c] = "fetched"
        /\ at' = [at EXCEPT ![c] = IF baseline = None THEN "first" ELSE "loaded"]
        /\ \A d \in Coroutines \ {c} : run'[d] = run[d]
        /\ run'[c].prev = baseline
        /\ run'[c].seen.qty = run[c].seen.qty /\ run'[c].seen.trail = run[c].seen.trail
    BY <1>0, <1>3 DEF Load, broker, Locals, Snapshot
  <2>2. TracedNow(run'[c].seen)
    BY <2>1 DEF TracedNow, Traced, TraceInv
  <2> QED  BY <1>0, <1>1, <2>1, <2>2 DEF TraceInv
<1>4. ASSUME NEW c \in Coroutines, Still,
             \A d \in Coroutines \ {c} : at'[d] = at[d] /\ run'[d] = run[d],
             at'[c] = "idle" \/ (at[c] # "idle" /\ at'[c] # "loaded" /\ run'[c].seen = run[c].seen),
             baseline' = baseline \/ (baseline' = run[c].seen /\ at[c] # "idle")
      PROVE  TraceInv'
  BY <1>1, <1>4 DEF TraceInv
<1>5. ASSUME NEW c \in Coroutines, NEW from \in Steps \ {"idle"}, NEW to \in Steps \ {"loaded"},
             GoesOn(c, from, to)
      PROVE  /\ at[c] # "idle"
             /\ \A d \in Coroutines \ {c} : at'[d] = at[d] /\ run'[d] = run[d]
             /\ at'[c] = "idle" \/ (at'[c] # "loaded" /\ run'[c].seen = run[c].seen)
  BY <1>0, <1>5 DEF GoesOn, Locals
<1>6. ASSUME NEW c \in Coroutines,
             CreateBaseline(c) \/ Consistent(c) \/ Tolerate(c) \/ Halt(c)
      PROVE  TraceInv'
  <2>1. \E from \in Steps \ {"idle"}, to \in Steps \ {"loaded"} : GoesOn(c, from, to)
    BY <1>6 DEF CreateBaseline, Consistent, Tolerate, Halt, Steps
  <2>2. Still /\ (baseline' = baseline \/ baseline' = run[c].seen)
    BY <1>6 DEF CreateBaseline, Consistent, Tolerate, Halt, broker
  <2> QED  BY <1>4, <1>5, <2>1, <2>2
<1>7. ASSUME NEW c \in Coroutines, Mismatched(c) \/ Engage(c) \/ StepFails(c)
      PROVE  TraceInv'
  <2>1. CASE Mismatched(c)
    BY <1>0, <1>4, <2>1 DEF Mismatched, broker, Locals
  <2>2. CASE Engage(c)
    BY <1>0, <1>4, <2>2 DEF Engage, broker, Locals
  <2>3. CASE StepFails(c)
    BY <1>0, <1>4, <2>3 DEF StepFails, broker
  <2> QED  BY <1>7, <2>1, <2>2, <2>3
<1>8. CASE Advance \/ OrdersMade \/ Record \/ SaveState
  <2>1. "tick" \in Coroutines
    BY DEF Coroutines
  <2>2. CASE Advance
    BY <1>0, <1>4, <2>1, <2>2 DEF Advance, broker
  <2>3. CASE OrdersMade
    BY <1>0, <1>4, <2>1, <2>3 DEF OrdersMade, broker
  <2>4. CASE Record
    BY <1>0, <1>4, <2>1, <2>4 DEF Record, broker
  <2>5. CASE SaveState
    BY <1>0, <1>4, <2>1, <2>5 DEF SaveState, broker
  <2> QED  BY <1>8, <2>2, <2>3, <2>4, <2>5
<1>9. CASE CrashAndRestart
  BY <1>1, <1>9 DEF CrashAndRestart, broker, TraceInv
<1>10. CASE Release
  <2>1. /\ Still /\ UNCHANGED <<baseline, at>>
        /\ \A c \in Coroutines : run'[c].seen = run[c].seen /\ run'[c].prev = run[c].prev
    BY <1>0, <1>10 DEF Release, broker, Locals
  <2> QED  BY <1>1, <2>1 DEF TraceInv
(* Steps of the account, and orders: the coroutines stay.                  *)
<1>11. ASSUME UNCHANGED <<baseline, at, run>>,
              \A sn \in Snapshot :
                 TracedNow(sn) => Traced(sent', account', byHand', executed', sn)
       PROVE  TraceInv'
  <2>1. /\ baseline # None => baseline \in Snapshot
        /\ \A c \in Coroutines : /\ run[c].seen \in Snapshot
                                 /\ run[c].prev # None => run[c].prev \in Snapshot
    BY DEF SystemTyped, Locals
  <2>2. baseline' # None => TracedNow(baseline)
    BY <1>11 DEF TraceInv
  <2>3. baseline' # None => Traced(sent', account', byHand', executed', baseline')
    BY <1>11, <2>1, <2>2
  <2>4. ASSUME NEW c \in Coroutines, at'[c] # "idle"
        PROVE  Traced(sent', account', byHand', executed', run'[c].seen)
    <3>1. at[c] # "idle" /\ run' = run
      BY <1>11, <2>4
    <3>2. run[c].seen \in Snapshot
      BY <2>1
    <3>3. TracedNow(run[c].seen)
      BY <3>1 DEF TraceInv
    <3> QED  BY <1>11, <3>1, <3>2, <3>3
  <2>5. ASSUME NEW c \in Coroutines, at'[c] = "loaded"
        PROVE  run'[c].prev # None /\ Traced(sent', account', byHand', executed', run'[c].prev)
    <3>1. at[c] = "loaded" /\ run' = run
      BY <1>11, <2>5
    <3>2. run[c].prev # None /\ TracedNow(run[c].prev)
      BY <3>1 DEF TraceInv
    <3>3. run[c].prev \in Snapshot
      BY <2>1, <3>2
    <3> QED  BY <1>11, <3>1, <3>2, <3>3
  <2> QED  BY <2>3, <2>4, <2>5 DEF TraceInv, TracedNow
<1>12. ASSUME NEW order \in Order, Send(order) PROVE TraceInv'
  <2>1. \A sn : TracedNow(sn) => Traced(sent', account', byHand', executed', sn)
    BY <1>12, TracedThroughSend DEF Send, broker
  <2> QED  BY <1>11, <1>12, <2>1 DEF Send
<1>13. ASSUME NEW n \in DOMAIN sent, Execute(n) PROVE TraceInv'
  <2>1. \A sn \in Snapshot : TracedNow(sn) => Traced(sent', account', byHand', executed', sn)
    BY <1>13, TracedThroughExecution DEF Execute, system
  <2> QED  BY <1>11, <1>13, <2>1 DEF Execute, system
<1>14. ASSUME NEW s \in Symbols, NEW qty \in {1, -1}, TradeByHand(s, qty) PROVE TraceInv'
  <2>1. \A sn : TracedNow(sn) => Traced(sent', account', byHand', executed', sn)
    BY <1>14, TracedThroughTrade DEF TradeByHand, system
  <2> QED  BY <1>11, <1>14, <2>1 DEF TradeByHand, system
<1>15. CASE UNCHANGED reconcileVars
  <2>1. Still /\ UNCHANGED <<baseline, at, run>>
    BY <1>15 DEF reconcileVars, system, broker
  <2>2. \A sn : TracedNow(sn) => Traced(sent', account', byHand', executed', sn)
    BY <2>1 DEF TracedNow
  <2> QED  BY <1>11, <2>1, <2>2
<1> QED
  BY <1>2, <1>3, <1>6, <1>7, <1>8, <1>9, <1>10, <1>12, <1>13, <1>14, <1>15 DEF ReconcileNext

(* What a check compares is what the trails of both snapshots leave over.  *)
LEMMA ComparedIsSurprise ==
    ASSUME SystemTyped, OrdersTyped, TraceInv, NEW c \in Coroutines, at[c] = "loaded"
    PROVE  Mismatch(run[c].prev, run[c].seen)
              <=> \E s \in Symbols : Surprise(run[c].prev, run[c].seen, s) # 0
<1> DEFINE prev == run[c].prev
           seen == run[c].seen
           expected == {n \in DOMAIN sent : /\ n > prev.ts /\ n \in recorded
                                            /\ sent[n].status # "FAILED"}
<1>1. prev \in Snapshot /\ seen \in Snapshot /\ TracedNow(prev) /\ TracedNow(seen)
  BY DEF SystemTyped, Locals, TraceInv, Steps
<1>2. sent \in Seq(Order) /\ recorded \subseteq DOMAIN sent
  BY DEF OrdersTyped
<1>3. expected = Counted(prev.ts)
  <2>1. \A n \in DOMAIN sent : sent[n].status \in {"SUBMITTED", "FAILED"}
    <3>1. \A n \in DOMAIN sent : sent[n] \in Order
      BY <1>2
    <3> QED  BY <3>1 DEF Order
  <2> QED  BY <1>2, <2>1 DEF Counted
<1>4. ASSUME NEW s \in Symbols
      PROVE  Surprise(prev, seen, s) = seen.qty[s] - (prev.qty[s] + Net(Counted(prev.ts), s))
  <2>1. Surprise(prev, seen, s)
          = (seen.trail.hand[s] - prev.trail.hand[s])
            + NetOf(sent, seen.trail.done, s) - NetOf(sent, prev.trail.done, s)
            - NetOf(sent, expected, s)
    BY DEF Surprise, Net, NetOf
  <2>2. seen.qty[s] - seen.trail.hand[s] - NetOf(sent, seen.trail.done, s)
          = prev.qty[s] - prev.trail.hand[s] - NetOf(sent, prev.trail.done, s)
    BY <1>1 DEF TracedNow, Traced
  <2>3. /\ NetOf(sent, seen.trail.done, s) \in Int /\ NetOf(sent, prev.trail.done, s) \in Int
        /\ NetOf(sent, expected, s) \in Int
    <3>1. /\ seen.trail.done \in SUBSET DOMAIN sent /\ prev.trail.done \in SUBSET DOMAIN sent
          /\ expected \in SUBSET DOMAIN sent
      BY <1>1 DEF TracedNow, Traced
    <3> QED  BY <1>2, <3>1, NetType
  <2>4. /\ seen.qty[s] \in Int /\ prev.qty[s] \in Int
        /\ seen.trail.hand[s] \in Int /\ prev.trail.hand[s] \in Int
    BY <1>1 DEF Snapshot
  <2>5. Net(Counted(prev.ts), s) = NetOf(sent, expected, s)
    BY <1>3 DEF Net, NetOf
  <2> HIDE DEF expected, prev, seen
  <2> QED  BY <2>1, <2>2, <2>3, <2>4, <2>5
<1>5. ASSUME NEW s \in Symbols
      PROVE  Surprise(prev, seen, s) # 0 <=> seen.qty[s] # prev.qty[s] + Net(Counted(prev.ts), s)
  <2>1. Net(Counted(prev.ts), s) \in Int
    <3>1. Counted(prev.ts) \in SUBSET DOMAIN sent
      BY <1>3
    <3>2. NetOf(sent, Counted(prev.ts), s) \in Int
      BY <1>2, <3>1, NetType
    <3> QED  BY <3>2 DEF Net, NetOf
  <2>2. seen.qty[s] \in Int /\ prev.qty[s] \in Int
    BY <1>1 DEF Snapshot
  <2> HIDE DEF prev, seen
  <2> QED  BY <1>4, <2>1, <2>2
<1> QED  BY <1>5 DEF Mismatch

(* A check reports a mismatch exactly if something happened to a symbol    *)
(* that the orders table does not account for, for any number of symbols,  *)
(* orders and trades by hand, and whatever crashes, fails or overlaps.     *)
THEOREM ReportsExactlySurprises == ReconcileSpec => MismatchExactlyOnSurprise
<1>1. ReconcileInit => SystemTyped /\ OrdersTyped /\ TraceInv
  <2> SUFFICES ASSUME ReconcileInit PROVE SystemTyped /\ OrdersTyped /\ TraceInv
    OBVIOUS
  <2>1. SystemTyped
    BY FreshType DEF ReconcileInit, SystemTyped, Steps
  <2>2. TraceInv
    BY DEF ReconcileInit, TraceInv
  <2> QED  BY <2>1, <2>2, InitialOrders
<1>2. SystemTyped /\ OrdersTyped /\ TraceInv /\ [ReconcileNext]_reconcileVars
        => [ \A c \in Coroutines :
               (at[c] = "loaded" /\ at'[c] # "loaded" /\ failures' = failures)
                 => (at'[c] = "mismatched" <=>
                       \E s \in Symbols : Surprise(run[c].prev, run[c].seen, s) # 0)
           ]_reconcileVars
  <2> SUFFICES ASSUME SystemTyped, OrdersTyped, TraceInv, ReconcileNext, NEW c \in Coroutines,
                      at[c] = "loaded", at'[c] # "loaded", failures' = failures
               PROVE  at'[c] = "mismatched" <=>
                         \E s \in Symbols : Surprise(run[c].prev, run[c].seen, s) # 0
    OBVIOUS
  <2> USE DEF Move
  <2>0. at \in [Coroutines -> Steps] /\ failures \in Nat
    BY DEF SystemTyped, OrdersTyped
  <2>1. CASE Consistent(c)
    <3>1. at'[c] # "mismatched" /\ ~Mismatch(run[c].prev, run[c].seen)
      BY <2>0, <2>1 DEF Consistent, GoesOn
    <3> QED  BY <3>1, ComparedIsSurprise
  <2>2. CASE Mismatched(c)
    <3>1. at'[c] = "mismatched" /\ Mismatch(run[c].prev, run[c].seen)
      BY <2>0, <2>2 DEF Mismatched
    <3> QED  BY <3>1, ComparedIsSurprise
  <2>3. ASSUME NEW d \in Coroutines,
               \/ Fetch(d) \/ Load(d) \/ CreateBaseline(d) \/ Tolerate(d) \/ Engage(d) \/ Halt(d)
        PROVE  at'[c] = at[c]
    BY <2>0, <2>3 DEF Fetch, Load, CreateBaseline, Tolerate, Engage, Halt, GoesOn
  <2>4. ASSUME NEW d \in Coroutines \ {c}, Consistent(d) \/ Mismatched(d)
        PROVE  at'[c] = at[c]
    BY <2>0, <2>4 DEF Consistent, Mismatched, GoesOn
  <2>5. ~CrashAndRestart /\ \A d \in Coroutines : ~StepFails(d)
    BY <2>0 DEF CrashAndRestart, StepFails, Fail
  <2>6. Advance \/ OrdersMade \/ Record \/ SaveState \/ Release => at'[c] = at[c]
    BY <2>0 DEF Advance, OrdersMade, Record, SaveState, Release
  <2>7. ASSUME NEW order, Send(order) PROVE at'[c] = at[c]
    BY <2>7 DEF Send
  <2>8. ASSUME NEW n, Execute(n) PROVE at'[c] = at[c]
    BY <2>8 DEF Execute, system
  <2>9. ASSUME NEW s, NEW qty, TradeByHand(s, qty) PROVE at'[c] = at[c]
    BY <2>9 DEF TradeByHand, system
  <2> QED
    BY <2>1, <2>2, <2>3, <2>4, <2>5, <2>6, <2>7, <2>8, <2>9 DEF ReconcileNext
<1> QED
  BY <1>1, <1>2, SystemTypes, OrderTypes, TraceStep, PTL
     DEF ReconcileSpec, MismatchExactlyOnSurprise
=============================================================================
