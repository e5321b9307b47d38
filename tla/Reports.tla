------------------------------ MODULE Reports ------------------------------
(***************************************************************************)
(* The reports of paper operation (app/api/report.py, app/db/repo.py):     *)
(* the tick loop and POST report make them, side by side with ticks. A     *)
(* request reads the equity curve, the last report and the activity since  *)
(* in three transactions and inserts the report in a fourth; between them  *)
(* anything may happen. The process may crash at any await.                *)
(*                                                                         *)
(* Files and notifications are best effort and change nothing; a report is *)
(* its row, whose text is reduced to the ticks it tells of. A tick is what *)
(* record_tick and append_paper_equity write, in two transactions; Tick    *)
(* has the rest.                                                           *)
(***************************************************************************)
EXTENDS Integers, FiniteSets, FiniteSetsExt, Sequences

CONSTANTS
    Loop,                \* the tick loop of the process
    Posts,               \* concurrent calls of POST report
    Holidays, LastDay,   \* days are 1..LastDay
    ListLimit,           \* of GET reports
    MaxTicks, MaxForced, MaxFailures          \* bounds

ASSUME ReportsAssumption ==
    /\ IsFiniteSet(Posts) /\ Loop \notin Posts
    /\ LastDay \in Nat \ {0} /\ Holidays \subseteq 1..LastDay /\ LastDay \in Holidays
    /\ ListLimit \in Nat \ {0} /\ MaxTicks \in Nat /\ MaxForced \in Nat /\ MaxFailures \in Nat

Requesters == {Loop} \cup Posts
Days == 1..LastDay
Never == 0              \* no day: before the first report, or no tick under way

VARIABLES
    today,
    tick,        \* the tick under way: its trade date, and is it recorded
    rows,        \* TickRow: the trade date of each
    equity,      \* PaperEquityRow: the trade dates
    reports,     \* ReportLogRow: period_end, its ticks and how many rows there
                 \* were when they were loaded (history)
    req,         \* the frame of each requester
    forced, failures      \* bounds

vars == <<today, tick, rows, equity, reports, req, forced, failures>>

NoTick == [date |-> Never, recorded |-> FALSE]
Idle == [at |-> "idle", force |-> FALSE, end |-> Never, last |-> Never, ticks |-> {}, seen |-> 0]

Init ==
    /\ today = 1
    /\ tick = NoTick /\ rows = <<>> /\ equity = {} /\ reports = <<>>
    /\ req = [c \in Requesters |-> Idle]
    /\ forced = 0 /\ failures = 0
-----------------------------------------------------------------------------
StartTick ==
    /\ tick = NoTick /\ Len(rows) < MaxTicks
    /\ tick' = [date |-> today, recorded |-> FALSE]
    /\ UNCHANGED <<today, rows, equity, reports, req, forced, failures>>

RecordTick ==
    /\ tick.date # Never /\ ~tick.recorded
    /\ rows' = Append(rows, tick.date)
    /\ tick' = [tick EXCEPT !.recorded = TRUE]
    /\ UNCHANGED <<today, equity, reports, req, forced, failures>>

AppendEquity ==
    /\ tick.recorded
    /\ equity' = equity \cup {tick.date}
    /\ tick' = NoTick
    /\ UNCHANGED <<today, rows, reports, req, forced, failures>>
-----------------------------------------------------------------------------
IsTradingDay(d) == d \notin Holidays

PeriodEndsToday == today
PeriodEnd == Max(equity)

(* generate_report to its first await; scheduled_report comes before it,   *)
(* unless a caller forces the report.                                      *)
LoadEquity(c, force) ==
    /\ req[c].at = "idle"
    /\ IF force THEN c \in Posts /\ forced < MaxForced ELSE ~IsTradingDay(today)
    /\ equity # {}
    /\ req' = [req EXCEPT ![c] = [Idle EXCEPT !.at = "period", !.force = force,
                                              !.end = PeriodEnd]]
    /\ forced' = IF force THEN forced + 1 ELSE forced
    /\ UNCHANGED <<today, tick, rows, equity, reports, failures>>

(* The newest row, not the latest period.                                  *)
LastPeriodEnd == IF reports = <<>> THEN Never ELSE reports[Len(reports)].end

ReportedBefore(c) == LastPeriodEnd # Never
AlreadyReported(c) == LastPeriodEnd # Never /\ LastPeriodEnd >= req[c].end

LoadLast(c) ==
    /\ req[c].at = "period"
    /\ req' = [req EXCEPT ![c] =
                  IF ~@.force /\ AlreadyReported(c) THEN Idle
                  ELSE [@ EXCEPT !.at = "activity", !.last = LastPeriodEnd]]
    /\ UNCHANGED <<today, tick, rows, equity, reports, forced, failures>>

SinceThisPeriod(c) == {i \in DOMAIN rows : rows[i] > req[c].end}
Activity(c) == {i \in DOMAIN rows : rows[i] > req[c].last}

LoadActivity(c) ==
    /\ req[c].at = "activity"
    /\ req' = [req EXCEPT ![c] = [@ EXCEPT !.at = "insert", !.ticks = Activity(c),
                                           !.seen = Len(rows)]]
    /\ UNCHANGED <<today, tick, rows, equity, reports, forced, failures>>

(* record_report                                                           *)
Insert(c) ==
    /\ req[c].at = "insert"
    /\ reports' = Append(reports, [end |-> req[c].end, ticks |-> req[c].ticks,
                                   seen |-> req[c].seen])
    /\ req' = [req EXCEPT ![c] = Idle]
    /\ UNCHANGED <<today, tick, rows, equity, forced, failures>>

(* GET reports: the periods of the newest rows.                            *)
Listed == {reports[i].end : i \in {n \in DOMAIN reports : n > Len(reports) - ListLimit}}

Request(c) ==
    \/ LoadEquity(c, FALSE)
    \/ LoadLast(c) \/ LoadActivity(c) \/ Insert(c)
-----------------------------------------------------------------------------
(* The database fails, the process goes on: the loop swallows it.          *)
RequestFails(c) ==
    /\ req[c].at # "idle"
    /\ failures < MaxFailures /\ failures' = failures + 1
    /\ req' = [req EXCEPT ![c] = Idle]
    /\ UNCHANGED <<today, tick, rows, equity, reports, forced>>

TickFails ==
    /\ tick # NoTick
    /\ failures < MaxFailures /\ failures' = failures + 1
    /\ tick' = NoTick
    /\ UNCHANGED <<today, rows, equity, reports, req, forced>>

Crash ==
    /\ failures < MaxFailures /\ failures' = failures + 1
    /\ tick' = NoTick /\ req' = [c \in Requesters |-> Idle]
    /\ UNCHANGED <<today, rows, equity, reports, forced>>

NextDay ==
    /\ today < LastDay /\ today' = today + 1
    /\ UNCHANGED <<tick, rows, equity, reports, req, forced, failures>>

Next ==
    \/ StartTick \/ RecordTick \/ AppendEquity \/ TickFails
    \/ \E c \in Requesters : Request(c) \/ RequestFails(c)
    \/ \E c \in Posts : LoadEquity(c, TRUE)
    \/ Crash \/ NextDay

Spec == Init /\ [][Next]_vars

(* Days pass, and the loop wakes up on each holiday and makes its steps.   *)
(* Nobody need ever call POST report, and no tick need run.                *)
FairSpec == Spec /\ WF_vars(NextDay) /\ WF_vars(Request(Loop))
-----------------------------------------------------------------------------
(* Types; and a report ends with a day of the equity curve, of which it was*)
(* rendered (report.py:36), and tells of ticks that were recorded then.    *)
TypeOK ==
    /\ today \in Days
    /\ tick \in [date : Days \cup {Never}, recorded : BOOLEAN]
    /\ rows \in Seq(Days) /\ Len(rows) <= MaxTicks
    /\ equity \subseteq {rows[i] : i \in DOMAIN rows}
    /\ \A r \in DOMAIN reports : /\ reports[r].end \in equity
                                 /\ reports[r].seen \in 0..Len(rows)
                                 /\ reports[r].ticks \subseteq 1..reports[r].seen
    /\ \A c \in Requesters :
          /\ req[c].at \in {"idle", "period", "activity", "insert"}
          /\ req[c].end \in equity \cup {Never} /\ req[c].last \in equity \cup {Never}
    /\ forced \in 0..MaxForced /\ failures \in 0..MaxFailures

(* repo.py:483, a report tells what happened since the one before: reports *)
(* of requests that overlap, are forced, fail, or find ticks under way     *)
(* leave no gap. A tick whose day is over for the reports is in one of     *)
(* them, unless it was recorded only after one that closes its day had     *)
(* loaded its ticks.                                                       *)
EveryTickIsReported ==
    \A i \in DOMAIN rows :
        LET closing == {r \in DOMAIN reports : reports[r].end >= rows[i]} IN
        closing # {} =>
            \/ \E r \in DOMAIN reports : i \in reports[r].ticks
            \/ \E r \in closing : reports[r].seen < i

(* USAGE.md:84, holidays make a report by themselves: a day of the equity  *)
(* curve is covered by a report that can be listed in the end, whatever    *)
(* requests, failures, crashes and reports of other periods come between.  *)
EveryDayIsReported ==
    \A d \in Days : d \in equity ~> \E end \in Listed : end >= d
=============================================================================
