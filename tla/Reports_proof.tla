--------------------------- MODULE Reports_proof ---------------------------
(* Proofs for Reports: its types, and that no tick falls between two       *)
(* reports.                                                                *)
EXTENDS Reports, WellFoundedInduction, TLAPS

Steps == {"idle", "period", "activity", "insert"}
Report == [end : Days, ticks : SUBSET Nat, seen : Nat]
Frame == [at : Steps, force : BOOLEAN, end : Days \cup {Never}, last : Days \cup {Never},
          ticks : SUBSET Nat, seen : Nat]

(* A set of days has a last one, so that a period ends with a day.         *)
LEMMA LatestExists ==
    ASSUME NEW S \in SUBSET Days, S # {}
    PROVE  \E x \in S : \A y \in S : x >= y
<1> USE ReportsAssumption DEF Days
<1> DEFINE T == {LastDay - x : x \in S}
           R == OpToRel(<, Nat)
<1>1. T \subseteq Nat /\ T # {}
  <2>1. \A x \in S : LastDay - x \in Nat
    OBVIOUS
  <2>2. PICK x \in S : TRUE
    OBVIOUS
  <2>3. LastDay - x \in T
    OBVIOUS
  <2> QED  BY <2>1, <2>3
<1>2. PICK t \in T : \A u \in T : ~(<<u, t>> \in R)
  <2>1. IsWellFoundedOn(R, Nat)
    BY NatLessThanWellFounded
  <2> HIDE DEF T, R
  <2> QED  BY <1>1, <2>1, WFMin
<1>3. \A u \in T : ~(u < t)
  BY <1>1, <1>2 DEF OpToRel
<1>4. PICK x \in S : t = LastDay - x
  OBVIOUS
<1>5. ASSUME NEW y \in S PROVE x >= y
  <2>1. LastDay - y \in T
    OBVIOUS
  <2> QED  BY <1>3, <1>4, <2>1
<1> QED  BY <1>5

LEMMA LatestIsIn ==
    ASSUME NEW S \in SUBSET Days, S # {}
    PROVE  Max(S) \in S
BY LatestExists DEF Max

(* What a requester has read: a day of the equity curve, and the end of a  *)
(* report; its ticks are all since that one that were recorded by then.    *)
FrameHolds(c) ==
    LET f == req[c] IN
    /\ IF f.at = "idle" THEN f = Idle ELSE f.end \in equity
    /\ f.at = "period" => f.last = Never
    /\ f.at \in {"activity", "insert"} /\ f.last # Never =>
          \E r \in DOMAIN reports : reports[r].end = f.last
    /\ f.at = "insert" => /\ f.seen <= Len(rows)
                          /\ f.ticks = {i \in 1..f.seen : rows[i] > f.last}

Typed ==
    /\ today \in Days
    /\ tick \in [date : Days \cup {Never}, recorded : BOOLEAN]
    /\ rows \in Seq(Days)
    /\ equity \in SUBSET Days
    /\ reports \in Seq(Report)
    /\ req \in [Requesters -> Frame]
    /\ forced \in 0..MaxForced /\ failures \in 0..MaxFailures

TickHolds ==
    /\ Len(rows) <= MaxTicks
    /\ tick.date # Never /\ ~tick.recorded => Len(rows) < MaxTicks
    /\ tick.recorded => \E i \in DOMAIN rows : rows[i] = tick.date
    /\ equity \subseteq {rows[i] : i \in DOMAIN rows}

ReportsHold ==
    \A r \in DOMAIN reports : /\ reports[r].end \in equity
                              /\ reports[r].seen <= Len(rows)
                              /\ reports[r].ticks \subseteq 1..reports[r].seen

IInv ==
    /\ Typed /\ TickHolds /\ ReportsHold
    /\ \A c \in Requesters : FrameHolds(c)
    /\ EveryTickIsReported

LEMMA LastIsOfAReport ==
    ASSUME Typed
    PROVE  /\ LastPeriodEnd \in Days \cup {Never}
           /\ LastPeriodEnd # Never => \E r \in DOMAIN reports : reports[r].end = LastPeriodEnd
<1>1. CASE reports = <<>>
  BY <1>1 DEF LastPeriodEnd
<1>2. CASE reports # <<>>
  <2>1. Len(reports) \in DOMAIN reports
    BY <1>2 DEF Typed
  <2>2. reports[Len(reports)] \in Report
    BY <2>1 DEF Typed
  <2> QED  BY <1>2, <2>1, <2>2 DEF LastPeriodEnd, Report
<1> QED  BY <1>1, <1>2

(* A step of requester c that leaves the rest alone.                       *)
LEMMA FrameStep ==
    ASSUME IInv, NEW c \in Requesters, NEW f \in Frame,
           req' = [req EXCEPT ![c] = f], FrameHolds(c)',
           UNCHANGED <<today, tick, rows, equity, reports>>,
           forced' \in 0..MaxForced, failures' \in 0..MaxFailures
    PROVE  IInv'
<1>1. Typed'
  BY DEF IInv, Typed
<1>2. TickHolds' /\ ReportsHold' /\ EveryTickIsReported'
  BY DEF IInv, TickHolds, ReportsHold, EveryTickIsReported
<1>3. ASSUME NEW d \in Requesters PROVE FrameHolds(d)'
  <2>1. CASE d = c
    BY <2>1
  <2>2. CASE d # c
    <3>1. req'[d] = req[d]
      BY <2>2 DEF IInv, Typed
    <3> QED  BY <3>1 DEF IInv, FrameHolds
  <2> QED  BY <2>1, <2>2
<1> QED  BY <1>1, <1>2, <1>3 DEF IInv

LEMMA IdleFrame == Idle \in Frame
BY DEF Idle, Frame, Steps, Never

LEMMA BackToIdle ==
    ASSUME IInv, NEW c \in Requesters, req' = [req EXCEPT ![c] = Idle],
           UNCHANGED <<today, tick, rows, equity, reports, forced>>,
           failures' \in 0..MaxFailures
    PROVE  IInv'
<1>1. FrameHolds(c)'
  BY DEF FrameHolds, IInv, Typed, Idle
<1>2. forced' \in 0..MaxForced
  BY DEF IInv, Typed
<1> QED  BY <1>1, <1>2, IdleFrame, FrameStep

LEMMA Requests ==
    ASSUME IInv, NEW c \in Requesters,
           \/ \E force \in BOOLEAN : LoadEquity(c, force)
           \/ LoadLast(c) \/ LoadActivity(c)
    PROVE  IInv'
<1> USE DEF IInv, Typed
<1>1. ASSUME NEW force \in BOOLEAN, LoadEquity(c, force) PROVE IInv'
  <2> DEFINE f == [Idle EXCEPT !.at = "period", !.force = force, !.end = PeriodEnd]
  <2>1. PeriodEnd \in equity
    BY <1>1, LatestIsIn DEF LoadEquity, PeriodEnd
  <2>2. f \in Frame
    BY <2>1 DEF Idle, Frame, Steps, Never
  <2>3. req' = [req EXCEPT ![c] = f]
    BY <1>1 DEF LoadEquity
  <2>4. FrameHolds(c)'
    <3>1. f.at = "period" /\ f.end = PeriodEnd /\ f.last = Never
      BY DEF Idle
    <3>2. req'[c] = f
      BY <2>3
    <3>3. PeriodEnd \in equity'
      BY <1>1, <2>1 DEF LoadEquity
    <3> HIDE DEF f, IInv, Typed
    <3> QED  BY <3>1, <3>2, <3>3 DEF FrameHolds
  <2>5. forced' \in 0..MaxForced
    <3>1. CASE force
      <4>1. forced < MaxForced /\ forced' = forced + 1
        BY <1>1, <3>1 DEF LoadEquity
      <4> QED  BY <4>1, ReportsAssumption
    <3>2. CASE ~force
      <4>1. forced' = forced
        BY <1>1, <3>2 DEF LoadEquity
      <4> QED  BY <4>1
    <3> QED  BY <3>1, <3>2
  <2>6. UNCHANGED <<today, tick, rows, equity, reports>> /\ failures' \in 0..MaxFailures
    BY <1>1 DEF LoadEquity
  <2> HIDE DEF f, IInv
  <2> QED  BY <2>2, <2>3, <2>4, <2>5, <2>6, FrameStep
<1>2. CASE LoadLast(c)
  <2>1. CASE ~req[c].force /\ AlreadyReported(c)
    <3>1. req' = [req EXCEPT ![c] = Idle]
      BY <1>2, <2>1 DEF LoadLast
    <3> QED  BY <1>2, <3>1, BackToIdle DEF LoadLast
  <2>2. CASE ~(~req[c].force /\ AlreadyReported(c))
    <3> DEFINE f == [req[c] EXCEPT !.at = "activity", !.last = LastPeriodEnd]
    <3>1. req' = [req EXCEPT ![c] = f]
      BY <1>2, <2>2 DEF LoadLast
    <3>2. f \in Frame
      BY LastIsOfAReport DEF Frame, Steps
    <3>3. FrameHolds(c)'
      <4>1. f.at = "activity" /\ f.end = req[c].end /\ f.last = LastPeriodEnd
        BY DEF Frame
      <4>2. req'[c] = f
        BY <3>1
      <4>3. req[c].end \in equity /\ UNCHANGED <<equity, reports>>
        BY <1>2 DEF LoadLast, FrameHolds
      <4>4. LastPeriodEnd # Never => \E r \in DOMAIN reports : reports[r].end = LastPeriodEnd
        BY LastIsOfAReport
      <4> HIDE DEF f, IInv, Typed
      <4> QED  BY <4>1, <4>2, <4>3, <4>4 DEF FrameHolds
    <3>4. UNCHANGED <<today, tick, rows, equity, reports>> /\ forced' \in 0..MaxForced
          /\ failures' \in 0..MaxFailures
      BY <1>2 DEF LoadLast
    <3> HIDE DEF f, IInv
    <3> QED  BY <3>1, <3>2, <3>3, <3>4, FrameStep
  <2> QED  BY <2>1, <2>2
<1>3. CASE LoadActivity(c)
  <2> DEFINE f == [req[c] EXCEPT !.at = "insert", !.ticks = Activity(c), !.seen = Len(rows)]
  <2>1. req' = [req EXCEPT ![c] = f]
    BY <1>3 DEF LoadActivity
  <2>2. Len(rows) \in Nat /\ DOMAIN rows = 1..Len(rows)
    OBVIOUS
  <2>3. Activity(c) \in SUBSET Nat
    BY <2>2 DEF Activity
  <2>4. f \in Frame
    BY <2>2, <2>3, ZenonT(60) DEF Frame, Steps
  <2>5. FrameHolds(c)'
    BY <1>3, <2>1, <2>2 DEF LoadActivity, Activity, FrameHolds, Frame
  <2>6. UNCHANGED <<today, tick, rows, equity, reports>> /\ forced' \in 0..MaxForced
        /\ failures' \in 0..MaxFailures
    BY <1>3 DEF LoadActivity
  <2> HIDE DEF f, IInv
  <2> QED  BY <2>1, <2>4, <2>5, <2>6, FrameStep
<1> QED  BY <1>1, <1>2, <1>3

(* The tick and the days leave requesters and reports alone; rows grow.    *)
RowsMayGrow ==
    \/ rows' = rows
    \/ rows' = Append(rows, tick.date) /\ tick.date \in Days

LEMMA Same ==
    ASSUME UNCHANGED <<rows, equity, reports, req>>
    PROVE  UNCHANGED <<reports, req>> /\ equity \subseteq equity' /\ RowsMayGrow
<1>1. rows' = rows /\ equity' = equity /\ reports' = reports /\ req' = req
  OBVIOUS
<1>2. RowsMayGrow
  BY <1>1, Zenon DEF RowsMayGrow
<1> QED  BY <1>1, <1>2

LEMMA RowsGrow ==
    ASSUME Typed, RowsMayGrow
    PROVE  /\ Len(rows) \in Nat /\ Len(rows') \in Nat /\ Len(rows) <= Len(rows')
           /\ DOMAIN rows = 1..Len(rows) /\ DOMAIN rows' = 1..Len(rows')
           /\ \A i \in 1..Len(rows) : rows'[i] = rows[i]
<1>1. CASE rows' = rows
  BY <1>1 DEF Typed
<1>2. CASE rows' = Append(rows, tick.date) /\ tick.date \in Days
  BY <1>2 DEF Typed
<1> QED  BY <1>1, <1>2 DEF RowsMayGrow

LEMMA TickStep ==
    ASSUME IInv, Typed', TickHolds', UNCHANGED <<reports, req>>,
           equity \subseteq equity', RowsMayGrow
    PROVE  IInv'
<1>1. /\ Len(rows) \in Nat /\ Len(rows') \in Nat /\ Len(rows) <= Len(rows')
      /\ DOMAIN rows = 1..Len(rows) /\ DOMAIN rows' = 1..Len(rows')
      /\ \A i \in 1..Len(rows) : rows'[i] = rows[i]
  BY RowsGrow DEF IInv
<1>2. ASSUME NEW r \in DOMAIN reports
      PROVE  /\ reports[r].seen \in Nat /\ reports[r].seen <= Len(rows)
             /\ reports[r].end \in equity /\ reports[r].ticks \subseteq 1..reports[r].seen
  <2>1. reports[r] \in Report
    BY DEF IInv, Typed
  <2> QED  BY <2>1 DEF IInv, ReportsHold, Report
<1>3. ReportsHold'
  <2> SUFFICES ASSUME NEW r \in DOMAIN reports
               PROVE  /\ reports[r].end \in equity' /\ reports[r].seen <= Len(rows')
                      /\ reports[r].ticks \subseteq 1..reports[r].seen
    BY DEF ReportsHold
  <2>1. reports[r].seen \in Nat /\ reports[r].seen <= Len(rows)
    BY <1>2
  <2>2. reports[r].seen <= Len(rows')
    BY <1>1, <2>1
  <2> QED  BY <1>2, <2>2
<1>4. ASSUME NEW c \in Requesters PROVE FrameHolds(c)'
  <2>1. FrameHolds(c) /\ req[c] \in Frame
    BY DEF IInv, Typed
  <2>2. ASSUME req[c].at = "insert"
        PROVE  /\ req[c].seen <= Len(rows')
               /\ req[c].ticks = {i \in 1..req[c].seen : rows'[i] > req[c].last}
    <3>1. /\ req[c].seen \in Nat /\ req[c].seen <= Len(rows)
          /\ req[c].ticks = {i \in 1..req[c].seen : rows[i] > req[c].last}
      BY <2>1, <2>2 DEF FrameHolds, Frame
    <3>2. \A i \in 1..req[c].seen : rows'[i] = rows[i]
      BY <1>1, <3>1
    <3> QED  BY <1>1, <3>1, <3>2
  <2> QED  BY <2>1, <2>2 DEF FrameHolds
<1>5. EveryTickIsReported'
  <2> SUFFICES ASSUME NEW i \in DOMAIN rows', NEW r \in DOMAIN reports,
                      reports[r].end >= rows'[i]
               PROVE  \/ \E s \in DOMAIN reports : i \in reports[s].ticks
                      \/ \E s \in DOMAIN reports : reports[s].end >= rows'[i]
                                                   /\ reports[s].seen < i
    BY DEF EveryTickIsReported
  <2>1. CASE i \in 1..Len(rows)
    BY <1>1, <2>1 DEF IInv, EveryTickIsReported
  <2>2. CASE i > Len(rows)
    <3>1. reports[r].seen \in Nat /\ reports[r].seen <= Len(rows) /\ i \in Nat
      BY <1>1, <1>2
    <3>2. reports[r].seen < i
      BY <1>1, <2>2, <3>1
    <3> QED  BY <3>2
  <2>3. i \in 1..Len(rows')
    BY <1>1
  <2> QED  BY <1>1, <2>1, <2>2, <2>3
<1> QED  BY <1>3, <1>4, <1>5 DEF IInv

LEMMA Ticks ==
    ASSUME IInv, StartTick \/ RecordTick \/ AppendEquity \/ TickFails
    PROVE  IInv'
<1>0. Len(rows) \in Nat /\ MaxTicks \in Nat /\ DOMAIN rows = 1..Len(rows) /\ Never \notin Days
  BY ReportsAssumption DEF IInv, Typed, Days, Never
<1>1. CASE StartTick
  <2>1. Typed'
    BY <1>1 DEF StartTick, IInv, Typed
  <2>2. TickHolds'
    BY <1>1 DEF StartTick, IInv, TickHolds
  <2>10. UNCHANGED <<reports, req>> /\ equity \subseteq equity' /\ RowsMayGrow
    <3>1. UNCHANGED <<rows, equity, reports, req>>
      BY <1>1 DEF StartTick
    <3> QED  BY <3>1, Same
  <2> QED  BY <2>1, <2>2, <2>10, TickStep
<1>2. CASE RecordTick
  <2>1. /\ tick.date \in Days /\ rows' = Append(rows, tick.date)
        /\ tick' = [tick EXCEPT !.recorded = TRUE] /\ UNCHANGED equity
    BY <1>2 DEF RecordTick, IInv, Typed
  <2>2. Typed'
    <3>1. rows' \in Seq(Days)
      BY <2>1 DEF IInv, Typed
    <3>2. tick' \in [date : Days \cup {Never}, recorded : BOOLEAN]
      <4>1. tick' = [tick EXCEPT !.recorded = TRUE]
        BY <2>1
      <4> QED  BY <4>1 DEF IInv, Typed
    <3> QED  BY <1>2, <3>1, <3>2 DEF RecordTick, IInv, Typed
  <2>3. /\ Len(rows') = Len(rows) + 1 /\ rows'[Len(rows')] = tick.date
        /\ DOMAIN rows' = 1..Len(rows')
        /\ \A i \in DOMAIN rows : i \in DOMAIN rows' /\ rows'[i] = rows[i]
    BY <1>0, <2>1 DEF IInv, Typed
  <2>4. tick'.date = tick.date /\ tick'.recorded
    BY <2>1 DEF IInv, Typed
  <2>5. Len(rows) < MaxTicks
    BY <1>2 DEF RecordTick, IInv, TickHolds
  <2>6. Len(rows') <= MaxTicks
    BY <1>0, <2>3, <2>5
  <2>7. Len(rows') \in DOMAIN rows'
    BY <1>0, <2>3
  <2>8. \A d \in equity : \E i \in DOMAIN rows' : d = rows'[i]
    BY <2>3 DEF IInv, TickHolds
  <2>9. TickHolds'
    BY <2>1, <2>3, <2>4, <2>6, <2>7, <2>8 DEF TickHolds
  <2>10. UNCHANGED <<reports, req>> /\ equity \subseteq equity' /\ RowsMayGrow
    BY <1>2, <2>1 DEF RecordTick, RowsMayGrow
  <2> QED  BY <2>1, <2>2, <2>9, <2>10, TickStep
<1>3. CASE AppendEquity
  <2>1. tick.date \in Days /\ equity' = equity \cup {tick.date}
    BY <1>0, <1>3 DEF AppendEquity, IInv, TickHolds, Typed
  <2>2. Typed'
    BY <1>3, <2>1 DEF AppendEquity, IInv, Typed, NoTick, Never
  <2>3. TickHolds'
    BY <1>3 DEF AppendEquity, IInv, TickHolds, NoTick, Never
  <2>10. UNCHANGED <<reports, req>> /\ equity \subseteq equity' /\ RowsMayGrow
    BY <1>3, <2>1 DEF AppendEquity, RowsMayGrow
  <2> QED  BY <2>1, <2>2, <2>3, <2>10, TickStep
<1>4. CASE TickFails
  <2>1. Typed'
    BY <1>4, ReportsAssumption DEF TickFails, IInv, Typed, NoTick, Never
  <2>2. TickHolds'
    BY <1>4 DEF TickFails, IInv, TickHolds, NoTick, Never
  <2>10. UNCHANGED <<reports, req>> /\ equity \subseteq equity' /\ RowsMayGrow
    <3>1. UNCHANGED <<rows, equity, reports, req>>
      BY <1>4 DEF TickFails
    <3> QED  BY <3>1, Same
  <2> QED  BY <2>1, <2>2, <2>10, TickStep
<1> QED  BY <1>1, <1>2, <1>3, <1>4

LEMMA DaysPass ==
    ASSUME IInv, NextDay
    PROVE  IInv'
<1>1. Typed'
  BY ReportsAssumption DEF NextDay, IInv, Typed, Days
<1>2. TickHolds'
  BY DEF NextDay, IInv, TickHolds
<1>3. UNCHANGED <<reports, req>> /\ equity \subseteq equity' /\ RowsMayGrow
  <2>1. UNCHANGED <<rows, equity, reports, req>>
    BY DEF NextDay
  <2> QED  BY <2>1, Same
<1> QED  BY <1>1, <1>2, <1>3, TickStep

(* The heart of it: a tick that an inserted report closes and does not     *)
(* tell of was recorded later, or lies before the last report it read; and *)
(* that one closes it, too.                                                *)
LEMMA Inserts ==
    ASSUME IInv, NEW c \in Requesters, Insert(c)
    PROVE  IInv'
<1> USE DEF IInv, Typed
<1> DEFINE new == [end |-> req[c].end, ticks |-> req[c].ticks, seen |-> req[c].seen]
<1>1. /\ req[c] \in Frame /\ req[c].at = "insert"
      /\ reports' = Append(reports, new)
      /\ req' = [req EXCEPT ![c] = Idle]
      /\ UNCHANGED <<today, tick, rows, equity, forced, failures>>
  BY DEF Insert
<1>2. /\ req[c].end \in equity /\ req[c].seen <= Len(rows)
      /\ req[c].ticks = {i \in 1..req[c].seen : rows[i] > req[c].last}
      /\ req[c].last # Never => \E r \in DOMAIN reports : reports[r].end = req[c].last
  BY <1>1 DEF FrameHolds
<1>3. new \in Report
  BY <1>1, <1>2 DEF Report, Frame
<1>4. /\ Len(reports) \in Nat /\ Len(reports') = Len(reports) + 1
      /\ \A r \in DOMAIN reports : r \in DOMAIN reports' /\ reports'[r] = reports[r]
      /\ Len(reports') \in DOMAIN reports' /\ reports'[Len(reports')] = new
      /\ \A r \in DOMAIN reports' : r \in DOMAIN reports \/ r = Len(reports')
  <2> HIDE DEF new
  <2> QED  BY <1>1, <1>3
<1>5. Typed' /\ TickHolds'
  <2>1. reports' \in Seq(Report)
    <3> HIDE DEF new
    <3> QED  BY <1>1, <1>3
  <2>2. req' \in [Requesters -> Frame]
    BY <1>1, IdleFrame
  <2> QED  BY <1>1, <2>1, <2>2 DEF TickHolds
<1>6. ReportsHold'
  <2>1. new.end \in equity /\ new.seen <= Len(rows) /\ new.ticks \subseteq 1..new.seen
    BY <1>2
  <2> HIDE DEF new
  <2> QED  BY <1>1, <1>4, <2>1 DEF ReportsHold
<1>7. ASSUME NEW d \in Requesters PROVE FrameHolds(d)'
  <2>1. CASE d = c
    <3>1. req'[d] = Idle
      BY <1>1, <2>1
    <3> QED  BY <3>1 DEF FrameHolds, Idle
  <2>2. CASE d # c
    <3>1. req'[d] = req[d] /\ FrameHolds(d)
      BY <1>1, <2>2
    <3> HIDE DEF new, Typed, IInv
    <3> QED  BY <1>1, <1>4, <3>1 DEF FrameHolds
  <2> QED  BY <2>1, <2>2
<1>8. EveryTickIsReported'
  <2> SUFFICES ASSUME NEW i \in DOMAIN rows, NEW r \in DOMAIN reports',
                      reports'[r].end >= rows[i]
               PROVE  \/ \E s \in DOMAIN reports' : i \in reports'[s].ticks
                      \/ \E s \in DOMAIN reports' : reports'[s].end >= rows[i]
                                                    /\ reports'[s].seen < i
    BY <1>1 DEF EveryTickIsReported
  <2>1. ASSUME NEW s \in DOMAIN reports, reports[s].end >= rows[i]
        PROVE  \/ \E t \in DOMAIN reports' : i \in reports'[t].ticks
               \/ \E t \in DOMAIN reports' : reports'[t].end >= rows[i]
                                             /\ reports'[t].seen < i
    <3>1. \/ \E t \in DOMAIN reports : i \in reports[t].ticks
          \/ \E t \in DOMAIN reports : reports[t].end >= rows[i] /\ reports[t].seen < i
      BY <2>1 DEF EveryTickIsReported
    <3> HIDE DEF new, Typed, IInv
    <3> QED  BY <1>4, <3>1
  <2>2. CASE r \in DOMAIN reports
    BY <1>4, <2>1, <2>2
  <2>3. CASE r = Len(reports')
    <3>1. new.end >= rows[i]
      BY <1>4, <2>3
    <3>2. rows[i] \in Days /\ i \in Nat /\ i >= 1 /\ req[c].seen \in Nat
          /\ req[c].last \in Days \cup {Never}
      BY <1>1 DEF Frame
    <3>3. CASE i > req[c].seen
      <4>1. new.seen < i
        BY <3>2, <3>3
      <4> HIDE DEF new
      <4> QED  BY <1>4, <3>1, <4>1
    <3>4. CASE i \in 1..req[c].seen /\ rows[i] > req[c].last
      <4>1. i \in new.ticks
        BY <1>2, <3>4
      <4> HIDE DEF new
      <4> QED  BY <1>4, <4>1
    <3>5. CASE i \in 1..req[c].seen /\ ~(rows[i] > req[c].last)
      <4>1. req[c].last >= rows[i] /\ req[c].last # Never
        BY <3>2, <3>5, ReportsAssumption DEF Days, Never
      <4>2. PICK s \in DOMAIN reports : reports[s].end = req[c].last
        BY <1>2, <4>1
      <4> QED  BY <2>1, <4>1, <4>2
    <3> QED  BY <3>2, <3>3, <3>4, <3>5
  <2> QED  BY <1>4, <2>2, <2>3
<1> QED  BY <1>5, <1>6, <1>7, <1>8

LEMMA Crashes ==
    ASSUME IInv, Crash
    PROVE  IInv'
<1>1. /\ tick' = NoTick /\ req' = [c \in Requesters |-> Idle]
      /\ UNCHANGED <<today, rows, equity, reports, forced>>
      /\ failures' \in 0..MaxFailures
  BY ReportsAssumption DEF Crash, IInv, Typed
<1>2. Typed'
  BY <1>1, IdleFrame DEF IInv, Typed, NoTick, Never
<1>3. TickHolds' /\ ReportsHold' /\ EveryTickIsReported'
  BY <1>1 DEF IInv, TickHolds, ReportsHold, EveryTickIsReported, NoTick, Never
<1>4. ASSUME NEW c \in Requesters PROVE FrameHolds(c)'
  <2>1. req'[c] = Idle
    BY <1>1
  <2> QED  BY <2>1 DEF FrameHolds, Idle
<1> QED  BY <1>2, <1>3, <1>4 DEF IInv

LEMMA Initially == Init => IInv
<1> SUFFICES ASSUME Init PROVE IInv
  OBVIOUS
<1>1. Typed
  <2>1. 1 \in Days
    BY ReportsAssumption DEF Days
  <2> QED  BY <2>1, IdleFrame, ReportsAssumption DEF Init, Typed, NoTick, Never
<1>2. TickHolds
  BY ReportsAssumption DEF Init, TickHolds, NoTick, Never
<1>3. ReportsHold /\ EveryTickIsReported
  BY DEF Init, ReportsHold, EveryTickIsReported
<1>4. ASSUME NEW c \in Requesters PROVE FrameHolds(c)
  <2>1. req[c] = Idle
    BY DEF Init
  <2> QED  BY <2>1 DEF FrameHolds, Idle
<1> QED  BY <1>1, <1>2, <1>3, <1>4 DEF IInv

LEMMA Inductive == IInv /\ [Next]_vars => IInv'
<1> SUFFICES ASSUME IInv, [Next]_vars PROVE IInv'
  OBVIOUS
<1>1. CASE StartTick \/ RecordTick \/ AppendEquity \/ TickFails
  BY <1>1, Ticks
<1>2. ASSUME NEW c \in Requesters, Request(c) PROVE IInv'
  BY <1>2, Requests, Inserts DEF Request
<1>3. ASSUME NEW c \in Requesters, RequestFails(c) PROVE IInv'
  <2>1. failures' \in 0..MaxFailures
    BY <1>3, ReportsAssumption DEF RequestFails, IInv, Typed
  <2> QED  BY <1>3, <2>1, BackToIdle DEF RequestFails
<1>4. ASSUME NEW c \in Posts, LoadEquity(c, TRUE) PROVE IInv'
  BY <1>4, Requests DEF Requesters
<1>5. CASE Crash
  BY <1>5, Crashes
<1>6. CASE NextDay
  BY <1>6, DaysPass
<1>7. CASE UNCHANGED vars
  BY <1>7 DEF vars, IInv, Typed, TickHolds, ReportsHold, FrameHolds, EveryTickIsReported
<1> QED  BY <1>1, <1>2, <1>3, <1>4, <1>5, <1>6, <1>7 DEF Next

LEMMA Implies == IInv => TypeOK
<1> SUFFICES ASSUME IInv PROVE TypeOK
  OBVIOUS
<1>1. ASSUME NEW r \in DOMAIN reports
      PROVE  /\ reports[r].end \in equity /\ reports[r].seen \in 0..Len(rows)
             /\ reports[r].ticks \subseteq 1..reports[r].seen
  <2>1. reports[r] \in Report /\ Len(rows) \in Nat
    BY DEF IInv, Typed
  <2> QED  BY <2>1 DEF IInv, ReportsHold, Report
<1>2. ASSUME NEW c \in Requesters
      PROVE  /\ req[c].at \in Steps
             /\ req[c].end \in equity \cup {Never} /\ req[c].last \in equity \cup {Never}
  <2>1. req[c] \in Frame /\ FrameHolds(c)
    BY DEF IInv, Typed
  <2>2. req[c].at \in Steps
    BY <2>1 DEF Frame
  <2>3. CASE req[c].at = "idle"
    BY <2>1, <2>2, <2>3 DEF FrameHolds, Idle
  <2>4. CASE req[c].at = "period"
    BY <2>1, <2>2, <2>4 DEF FrameHolds
  <2>5. CASE req[c].at \in {"activity", "insert"}
    <3>1. req[c].last = Never \/ \E r \in DOMAIN reports : reports[r].end = req[c].last
      BY <2>1, <2>5 DEF FrameHolds
    <3>2. req[c].end \in equity
      BY <2>1, <2>5 DEF FrameHolds
    <3> QED  BY <1>1, <2>2, <3>1, <3>2
  <2> QED  BY <2>2, <2>3, <2>4, <2>5 DEF Steps
<1> QED  BY <1>1, <1>2 DEF IInv, Typed, TickHolds, Steps, TypeOK

(* The types of the reports' state, for any calendar and any requests: in  *)
(* particular what a report says ends with a day of the equity curve.      *)
THEOREM TypeCorrect == Spec => []TypeOK
BY Initially, Inductive, Implies, PTL DEF Spec

(* repo.py:483: no tick falls between two reports, whatever requests run   *)
(* side by side, are forced, fail or die with the process.                 *)
THEOREM NoTickIsMissed == Spec => []EveryTickIsReported
<1>1. IInv => EveryTickIsReported
  BY DEF IInv
<1> QED  BY <1>1, Initially, Inductive, PTL DEF Spec
=============================================================================
