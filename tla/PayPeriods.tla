----------------------------- MODULE PayPeriods -----------------------------
(***************************************************************************)
(* The payroll calendar and its locks: pay-period.service.ts and the       *)
(* routes under /api/v1/admin/pay-periods.                                 *)
(*                                                                         *)
(*   schedule  organizations.pay_period_type and pay_period_anchor_date;   *)
(*   periods   pay_periods, keyed by start_date as its unique index is;    *)
(*   today     the organization's local date.                              *)
(*                                                                         *)
(* A date is a day number; day 0 is a Monday.  Months are given by their   *)
(* first and last days, so a leap year is one choice of the constant.      *)
(***************************************************************************)
EXTENDS Integers

CONSTANTS
    Month,    \* the months of the calendar: [first, last]
    Date,     \* the dates in use
    Anchor    \* values of pay_period_anchor_date

\* Every date in use has its month and the month before it; the shortest month
\* has 28 days.
ASSUME PayPeriodsAssumption ==
    /\ Month \subseteq [first : Int, last : Int]
    /\ \A m \in Month : m.last - m.first >= 27
    /\ \A m, n \in Month : m.first <= n.last /\ n.first <= m.last => m = n
    /\ Date \subseteq Int
    /\ \A d \in Date : \E m, n \in Month : /\ m.first <= d /\ d <= m.last
                                            /\ n.last = m.first - 1
    /\ Anchor \subseteq Date

VARIABLES schedule, periods, today

calendarVars == <<schedule, periods, today>>

PeriodType == {"weekly", "biweekly", "semimonthly", "monthly"}

\* OrgPayPeriodContext
Schedule == [type : PeriodType, anchor : Anchor]

-----------------------------------------------------------------------------
(***************************************************************************)
(* payPeriodFor.                                                           *)
(***************************************************************************)
MonthOf(d) == CHOOSE m \in Month : m.first <= d /\ d <= m.last

FirstOfMonth(d) == MonthOf(d).first

\* Date.UTC(y, m, lastDayOfMonth(y, m))
EndOfMonth(d) == MonthOf(d).last

BlockLength(type) == IF type = "weekly" THEN 7 ELSE 14

\* Mutant of FloorDiv: division that truncates toward zero.
TruncDiv(a, b) == IF a >= 0 THEN a \div b ELSE -((-a) \div b)

\* Math.floor(a / b): a date before the anchor falls into an earlier block.
FloorDiv(a, b) == a \div b

BlockStart(d, s) ==
    s.anchor + BlockLength(s.type) * FloorDiv(d - s.anchor, BlockLength(s.type))

InFirstHalf(d) == d - FirstOfMonth(d) < 15

PeriodStart(d, s) ==
    CASE s.type = "monthly"     -> FirstOfMonth(d)
      [] s.type = "semimonthly" -> IF InFirstHalf(d) THEN FirstOfMonth(d)
                                   ELSE FirstOfMonth(d) + 15
      [] OTHER                  -> BlockStart(d, s)

PeriodEnd(d, s) ==
    CASE s.type = "monthly"     -> EndOfMonth(d)
      [] s.type = "semimonthly" -> IF InFirstHalf(d) THEN FirstOfMonth(d) + 14
                                   ELSE EndOfMonth(d)
      [] OTHER                  -> BlockStart(d, s) + BlockLength(s.type) - 1

PayPeriodFor(d, s) == [start |-> PeriodStart(d, s), end |-> PeriodEnd(d, s)]

Days(p) == p.start .. p.end

\* recentPayPeriods: the i-th most recent period, 1 being the current one.
RecentPayPeriods(count) ==
    LET recent[i \in 1..count] ==
            PayPeriodFor(IF i = 1 THEN today ELSE recent[i - 1].start - 1, schedule)
    IN  recent

-----------------------------------------------------------------------------
(***************************************************************************)
(* The locks.                                                              *)
(***************************************************************************)
Period == [end : Int, status : {"open", "locked"}]

\* Mutant of Covers: BETWEEN taken to exclude its upper end.
CoversBeforeEnd(s, d) == s <= d /\ d < periods[s].end

\* (t AT TIME ZONE $2)::date BETWEEN p.start_date AND p.end_date
Covers(s, d) == s <= d /\ d <= periods[s].end

\* Mutant of NotInLockedPeriod: the lock looked up by the first day of the
\* period that the present schedule gives.
NotInPeriodStartLocked(d) ==
    LET s == PeriodStart(d, schedule) IN
    s \in DOMAIN periods => periods[s].status # "locked"

\* assertNotInLockedPeriod lets a change of day d pass.
NotInLockedPeriod(d) ==
    \A s \in DOMAIN periods : periods[s].status = "locked" => ~Covers(s, d)

\* listPayPeriods: the status shown for period p; no row means open.
ListedStatus(p) ==
    IF p.start \in DOMAIN periods THEN periods[p.start].status ELSE "open"

CalendarInit ==
    /\ schedule \in Schedule
    /\ periods = << >>
    /\ today \in Date

\* PATCH /admin/organization with either or both of the calendar's fields.
UpdateSchedule ==
    /\ schedule' \in Schedule \ {schedule}
    /\ UNCHANGED <<periods, today>>

\* POST /lock names the period by its first day.  The upsert leaves the
\* end_date of a row that is there already as it is.
Lock(d) ==
    /\ PeriodStart(d, schedule) = d
    /\ periods' =
        [s \in DOMAIN periods \cup {d} |->
            IF s # d THEN periods[s]
            ELSE [end    |-> IF d \in DOMAIN periods THEN periods[d].end
                             ELSE PeriodEnd(d, schedule),
                  status |-> "locked"]]
    /\ UNCHANGED <<schedule, today>>

\* POST /unlock
Unlock(d) ==
    /\ d \in DOMAIN periods
    /\ periods[d].status = "locked"
    /\ periods' = [periods EXCEPT ![d].status = "open"]
    /\ UNCHANGED <<schedule, today>>

Midnight ==
    /\ today + 1 \in Date
    /\ today' = today + 1
    /\ UNCHANGED <<schedule, periods>>

CalendarNext ==
    \/ UpdateSchedule
    \/ \E d \in Date : Lock(d) \/ Unlock(d)
    \/ Midnight

CalendarSpec == CalendarInit /\ [][CalendarNext]_calendarVars

-----------------------------------------------------------------------------
\* The rows keep the shape of their columns; the table's CHECK
\* (end_date >= start_date) holds for whatever lock writes.
CalendarTypeOK ==
    /\ schedule \in Schedule
    /\ DOMAIN periods \subseteq Date
    /\ periods \in [DOMAIN periods -> Period]
    /\ \A s \in DOMAIN periods : s <= periods[s].end
    /\ today \in Date

\* The periods of a schedule tile the calendar: a date is in its own period,
\* and every date of that period is told the same period (payPeriodFor before
\* and after the anchor, around the 15th and at the ends of months).  Without
\* it a day is paid twice or not at all.
PeriodsTile ==
    LET p == PayPeriodFor(today, schedule) IN
    /\ today \in Days(p)
    /\ \A e \in Days(p) \cap Date : PayPeriodFor(e, schedule) = p

\* Every locked row is a period of the present schedule.
LocksFitSchedule ==
    \A s \in DOMAIN periods :
        periods[s].status = "locked" =>
            PayPeriodFor(s, schedule) = [start |-> s, end |-> periods[s].end]

\* As long as the locks fit the schedule, the list an owner reads and the
\* check that guards changes agree day by day: a day can be changed exactly
\* if the period it belongs to is shown as open.  (After a change of the
\* schedule they may not: lock keeps the end_date of a row that another
\* schedule made.)
ListedLocksGuardTheirDays ==
    LocksFitSchedule =>
        \A i \in 1..2 : \A d \in Days(RecentPayPeriods(2)[i]) :
            NotInLockedPeriod(d) <=> ListedStatus(RecentPayPeriods(2)[i]) = "open"
=============================================================================
