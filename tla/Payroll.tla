------------------------------ MODULE Payroll -------------------------------
(***************************************************************************)
(* From hours to payroll: the caps that gate a punch-in (caps.service.ts), *)
(* the overtime rules (overtime.service.ts), and the places that add up    *)
(* the same completed entries: the pay-period list, the admin timesheets,  *)
(* a worker's own timesheet, and the payroll export with its journal       *)
(* entries (payroll-export.service.ts), over the calendar of PayPeriods.   *)
(*                                                                         *)
(*   hours        SUM(duration_minutes) / 60 of a worker's completed       *)
(*                entries by the local date of their punch-in;             *)
(*   onClock      the date of the worker's running punch-in, or None;      *)
(*   active       users with status 'active' (and deleted_at NULL);        *)
(*   enforcement  organizations.cap_enforcement;                           *)
(*   uncapped     a history variable: the days with hours that came about  *)
(*                without the daily or the weekly cap, of workers whom the *)
(*                caps are meant for.                                      *)
(*                                                                         *)
(* No route changes what a worker's row says of type, rate and exemption:  *)
(* Staff is a constant.  Money is counted in cents.                        *)
(***************************************************************************)
EXTENDS PayPeriods, FiniteSets, Functions

CONSTANTS
    Worker,
    Staff,              \* of each users row: type, rate (cents an hour), exempt
    Shift,              \* lengths of shifts, in hours
    FirstWorkDay,       \* hours are recorded from this date
    LastWorkDay,        \* to this one
    MaxDailyHours,      \* organizations.max_daily_minutes / 60
    MaxWeeklyHours,     \* organizations.max_weekly_minutes / 60
    Enforcement,        \* the values cap_enforcement takes
    None

ASSUME PayrollAssumption ==
    /\ Staff \in [Worker -> [ type   : {"W2", "contractor_1099"},
                              rate   : Nat,
                              exempt : BOOLEAN ]]
    /\ IsFiniteSet(Worker)
    /\ Shift \subseteq Nat /\ IsFiniteSet(Shift) /\ \E h \in Shift : h > 0
    /\ FirstWorkDay \in Date /\ LastWorkDay \in Date
    /\ FirstWorkDay .. LastWorkDay \subseteq Date
    /\ MaxDailyHours \in Nat /\ MaxWeeklyHours \in Nat
    /\ Enforcement \subseteq {"off", "warn", "block"}
    /\ None \notin Date

VARIABLES hours, onClock, active, enforcement, uncapped

workVars == <<hours, onClock, active, enforcement, uncapped>>
payrollVars == <<schedule, periods, today, workVars>>

Jurisdiction == {"federal", "california"}

\* What a cap is about.
Scope == {"daily", "weekly"}

WorkDay == FirstWorkDay .. LastWorkDay

AtMost(a, b)  == IF a < b THEN a ELSE b
AtLeast(a, b) == IF a < b THEN b ELSE a
Over(a, b)    == IF a > b THEN a - b ELSE 0

\* f summed over the numbers from a to b.
SumFromTo(f, a, b) ==
    LET sum[i \in (a - 1)..b] == IF i < a THEN 0 ELSE sum[i - 1] + f[i]
    IN  IF a <= b THEN sum[b] ELSE 0

\* A range of dates, from and to included.  There are hours on the WorkDays
\* alone.
Recorded(p) == [start |-> AtLeast(p.start, FirstWorkDay), end |-> AtMost(p.end, LastWorkDay)]

\* f summed over the days of range p.
OverDays(f, p) == SumFromTo(f, Recorded(p).start, Recorded(p).end)

HoursIn(w, p) == OverDays(hours[w], p)

Day(d) == [start |-> d, end |-> d]

-----------------------------------------------------------------------------
(***************************************************************************)
(* calculateOvertime, for the days of one week or the part of it that the  *)
(* range holds.                                                            *)
(***************************************************************************)
Federal(w, days) ==
    LET total == HoursIn(w, days) IN
    [regular |-> AtMost(total, 40), overtime |-> Over(total, 40), double |-> 0]

\* Mutant of California: the hours past the twelfth of a day in no class.
CaliforniaNoDouble(w, days) ==
    LET straight == OverDays([d \in WorkDay |-> AtMost(hours[w][d], 8)], days)
        daily    == OverDays([d \in WorkDay |-> AtMost(Over(hours[w][d], 8), 4)], days)
    IN  [regular  |-> AtMost(straight, 40),
         overtime |-> daily + Over(straight, 40),
         double   |-> 0]

California(w, days) ==
    LET straight == OverDays([d \in WorkDay |-> AtMost(hours[w][d], 8)], days)
        daily    == OverDays([d \in WorkDay |-> AtMost(Over(hours[w][d], 8), 4)], days)
        double   == OverDays([d \in WorkDay |-> Over(hours[w][d], 12)], days)
    IN  [regular  |-> AtMost(straight, 40),
         overtime |-> daily + Over(straight, 40),
         double   |-> double]

CalculateOvertime(w, days, jurisdiction) ==
    IF jurisdiction = "california" THEN California(w, days) ELSE Federal(w, days)

\* Weeks run Monday to Sunday; the week of a date, by number.
WeekOf(d) == d \div 7

\* splitIntoWeeks: range p is cut before each Monday; the part of it in
\* week k.
WeekPart(p, k) ==
    [start |-> AtLeast(p.start, 7 * k), end |-> AtMost(p.end, 7 * k + 6)]

\* Mutant of Overtime: the whole range taken as one week.
OvertimeOfRange(w, p, j) == CalculateOvertime(w, p, j)

\* The reduce over the weeks that timesheets and export share.
Overtime(w, p, j) ==
    LET first   == WeekOf(Recorded(p).start)
        last    == WeekOf(Recorded(p).end)
        week(k) == CalculateOvertime(w, WeekPart(p, k), j)
    IN  [regular  |-> SumFromTo([k \in first..last |-> week(k).regular], first, last),
         overtime |-> SumFromTo([k \in first..last |-> week(k).overtime], first, last),
         double   |-> SumFromTo([k \in first..last |-> week(k).double], first, last)]

StraightTime(w, p) ==
    [regular |-> HoursIn(w, p), overtime |-> 0, double |-> 0]

Premium(split) == split.overtime + split.double

TotalOf(split) == split.regular + Premium(split)

-----------------------------------------------------------------------------
(***************************************************************************)
(* The sums.                                                               *)
(***************************************************************************)
\* listPayPeriods: totalHours, of all completed entries.
ListedHours(p) == SumFunctionOnSet([w \in Worker |-> HoursIn(w, p)], Worker)

\* GET /admin/timesheets: a row for every active user, contractors too split
\* into overtime.
TimesheetRows == active
AdminTimesheet(w, p, j) == Overtime(w, p, j)

\* GET /me/timesheet and the export: a contractor's hours are straight time.
OwnTimesheet(w, p, j) ==
    IF Staff[w].type = "contractor_1099" THEN StraightTime(w, p)
    ELSE Overtime(w, p, j)

\* Mutant of ExportedWorkers: archived workers kept in the payroll.
RatedWorkers == {w \in Worker : Staff[w].rate > 0}

\* loadWorkersForPeriod: the users it selects and what it says of each.
ExportedWorkers == {w \in active : Staff[w].rate > 0}

ExportLine(w, p, j) == OwnTimesheet(w, p, j)

\* The timesheets page adds up its rows.
SheetTotal(p, j) ==
    SumFunctionOnSet([w \in TimesheetRows |-> TotalOf(AdminTimesheet(w, p, j))],
                     TimesheetRows)

\* The reports page: the total it shows of a range, and that of the file it
\* downloads for the same range.
ReportTotals(p, j) ==
    [shown      |-> SheetTotal(p, j),
     downloaded |-> SumFunctionOnSet([w \in ExportedWorkers |-> TotalOf(ExportLine(w, p, j))],
                                     ExportedWorkers)]

\* Math.round(n / d)
Round(n, d) == (2 * n + d) \div (2 * d)

GrossPay(w, p, j) ==
    LET line == ExportLine(w, p, j) IN
    Round((2 * line.regular + 3 * line.overtime + 4 * line.double) * Staff[w].rate, 2)

\* Mutant of W2Breakdown: the net pay rounded by itself.
W2BreakdownNetRounded(gross) ==
    [federal |-> Round(gross * 10, 100), state |-> Round(gross * 5, 100),
     fica    |-> Round(gross * 765, 10000), net |-> Round(gross * 7735, 10000)]

\* computeW2Breakdown; ficaEmployee and ficaEmployer are the same number.
W2Breakdown(gross) ==
    LET federal == Round(gross * 10, 100)
        state   == Round(gross * 5, 100)
        fica    == Round(gross * 765, 10000)
    IN  [federal |-> federal, state |-> state, fica |-> fica,
         net     |-> gross - federal - state - fica]

Debit(account, amount)  == [account |-> account, amount |-> amount]
Credit(account, amount) == [account |-> account, amount |-> -amount]

\* The entry of one worker, the same lines in buildIIF (credits negative)
\* and buildQboJson (PostingType).
JournalEntry(type, gross) ==
    IF type = "W2"
    THEN LET b == W2Breakdown(gross) IN
         {Debit("laborExpense", gross),
          Debit("payrollTaxExpense", b.fica),
          Credit("wagesPayable", b.net),
          Credit("federalTaxPayable", b.federal),
          Credit("stateTaxPayable", b.state),
          Credit("ficaPayable", b.fica + b.fica)}
    ELSE {Debit("contractorExpense", gross), Credit("accountsPayable", gross)}

-----------------------------------------------------------------------------
(***************************************************************************)
(* evaluateCaps on what loadAccumulatedMinutes sums: the completed entries *)
(* of today, and those since this week's Monday.                           *)
(***************************************************************************)
Capped(w) == Staff[w].type = "W2" /\ ~Staff[w].exempt

\* Mutant of WeekHours: date_trunc taken to begin the week on Sunday.
SundayWeekHours(w) ==
    HoursIn(w, [start |-> today - ((today + 1) % 7), end |-> LastWorkDay])

WeekHours(w) == HoursIn(w, [start |-> today - (today % 7), end |-> LastWorkDay])

EvaluateCaps(w) ==
    (Capped(w) /\ enforcement = "block") =>
        /\ HoursIn(w, Day(today)) < MaxDailyHours
        /\ WeekHours(w) < MaxWeeklyHours

\* The caps that a punch-in dated d is let through without: they look at the
\* server's day, and at all hours from the Monday before it.
Unchecked(d) ==
    {scope \in Scope :
        \/ enforcement # "block"
        \/ scope = "daily" /\ d # today
        \/ scope = "weekly" /\ WeekOf(d) < WeekOf(today)}

\* The scopes of day d as marks of worker w.
Marks(w, d, scopes) == IF Capped(w) THEN {<<w, d, scope>> : scope \in scopes} ELSE {}

-----------------------------------------------------------------------------
PayrollInit ==
    /\ CalendarInit
    /\ hours = [w \in Worker |-> [d \in WorkDay |-> 0]]
    /\ onClock = [w \in Worker |-> None]
    /\ active = Worker
    /\ enforcement \in Enforcement
    /\ uncapped = {}

\* POST /punch-in, as far as hours are concerned.  The entry begins at the
\* phone's time, d, which is past when the punch waited in the phone's queue
\* and anything when its clock is wrong; the caps are those of today.  An
\* archived worker's token stays good until it expires.
PunchIn(w, d) ==
    /\ onClock[w] = None
    /\ EvaluateCaps(w)
    /\ onClock' = [onClock EXCEPT ![w] = d]
    /\ uncapped' = uncapped \cup Marks(w, d, Unchecked(d))
    /\ UNCHANGED <<calendarVars, hours, active, enforcement>>

\* POST /punch-out, perhaps after midnight and after a lock: live punches
\* are not gated.  The hours belong to the day of the punch-in.
PunchOut(w, h) ==
    /\ onClock[w] # None
    /\ hours' = [hours EXCEPT ![w][onClock[w]] = @ + h]
    /\ onClock' = [onClock EXCEPT ![w] = None]
    /\ UNCHANGED <<calendarVars, active, enforcement, uncapped>>

\* An approved correction, or a manager's edit, leaves day d with h hours.
Correct(w, d, h) ==
    /\ d \in WorkDay /\ d <= today
    /\ h # hours[w][d]
    /\ NotInLockedPeriod(d)
    /\ hours' = [hours EXCEPT ![w][d] = h]
    /\ uncapped' = uncapped \cup Marks(w, d, Scope)
    /\ UNCHANGED <<calendarVars, onClock, active, enforcement>>

\* DELETE /admin/users/:id
Archive(w) ==
    /\ w \in active
    /\ active' = active \ {w}
    /\ UNCHANGED <<calendarVars, hours, onClock, enforcement, uncapped>>

\* PATCH /admin/organization with capEnforcement.
SetEnforcement(e) ==
    /\ e # enforcement
    /\ enforcement' = e
    /\ UNCHANGED <<calendarVars, hours, onClock, active, uncapped>>

PayrollNext ==
    \/ CalendarNext /\ UNCHANGED workVars
    \/ \E w \in Worker :
        \/ \E d \in WorkDay : PunchIn(w, d)
        \/ \E h \in Shift : PunchOut(w, h)
        \/ \E d \in WorkDay, h \in Shift \cup {0} : Correct(w, d, h)
        \/ Archive(w)
    \/ \E e \in Enforcement : SetEnforcement(e)

PayrollSpec == PayrollInit /\ [][PayrollNext]_payrollVars

-----------------------------------------------------------------------------
(***************************************************************************)
(* Properties.                                                             *)
(***************************************************************************)
PayrollTypeOK ==
    /\ CalendarTypeOK
    /\ hours \in [Worker -> [WorkDay -> Nat]]
    /\ onClock \in [Worker -> WorkDay \cup {None}]
    /\ active \subseteq Worker
    /\ enforcement \in Enforcement
    /\ uncapped \subseteq Worker \X WorkDay \X Scope

LongestShift == CHOOSE h \in Shift : \A k \in Shift : k <= h

(***************************************************************************)
(* In mode 'block' the caps look only at completed shifts, so a W-2 worker *)
(* may pass a cap by the shift that crosses it and by no more, also when   *)
(* the shift runs past midnight or its punch-out falls into the next week: *)
(* over a day, as long as every shift of it was punched under the caps and *)
(* reached the server on its own date; over a Monday-to-Sunday week, as    *)
(* long as none of its shifts reached the server in a later week.  For the *)
(* hours of an entry are those of the phone's date, while the caps sum up  *)
(* the server's day and the hours since its Monday                         *)
(* (caps.service.ts:181-187): what comes late was not looked at.           *)
(***************************************************************************)
CapsBoundDayAndWeek ==
    \A w \in Worker, d \in WorkDay :
        Capped(w) =>
        LET monday == d - (d % 7)
            week == [start |-> monday, end |-> monday + 6]
        IN  /\ <<w, d, "daily">> \notin uncapped =>
                  HoursIn(w, Day(d)) < MaxDailyHours + LongestShift
            /\ (\A e \in Days(week) : <<w, e, "weekly">> \notin uncapped) =>
                  HoursIn(w, week) < MaxWeeklyHours + LongestShift

Current == PayPeriodFor(today, schedule)

\* Exporting one period after another pays every hour once: the splits of
\* two neighbouring periods add up to the hours of both, never with more
\* overtime than the two in one range, and with exactly as much when the
\* second begins on a Monday (splitIntoWeeks cuts a week that straddles two
\* semimonthly or monthly periods).
PeriodsAddUp ==
    \A d \in WorkDay : PeriodStart(d, schedule) = d =>
        \A w \in Worker, j \in Jurisdiction :
            LET before == PayPeriodFor(d - 1, schedule)
                after  == PayPeriodFor(d, schedule)
                both   == [start |-> before.start, end |-> after.end]
                first  == Overtime(w, before, j)
                second == Overtime(w, after, j)
                apart  == Premium(first) + Premium(second)
                once   == Premium(Overtime(w, both, j))
            IN  /\ TotalOf(first) + TotalOf(second) = HoursIn(w, both)
                /\ apart <= once
                /\ d % 7 = 0 => apart = once

\* An organization that goes over from federal to Californian overtime never
\* pays a worker less: the cuts at 8 and 12 hours of a day and at 40 of a week
\* neither lose an hour nor leave one cheaper than the week's forty alone
\* would, whatever the mix of long days and long weeks, to the rounded cent.
CaliforniaPaysNoLess ==
    \A w \in ExportedWorkers :
        GrossPay(w, Current, "california") >= GrossPay(w, Current, "federal")

\* The hours an owner locks against, those of the timesheets and those of
\* the export differ by the workers left out and by nothing else: the
\* archived are missing from the timesheets, and from the export also those
\* without a rate.
SumsDifferByWorkersOnly ==
    \A j \in Jurisdiction :
        LET totals == ReportTotals(Current, j)
            of(ws) == SumFunctionOnSet([w \in ws |-> HoursIn(w, Current)], ws)
        IN  /\ ListedHours(Current) = totals.shown + of(Worker \ active)
            /\ totals.shown = totals.downloaded + of({w \in active : Staff[w].rate = 0})

\* Every entry the export posts balances to the cent, whatever the rounding
\* of its parts, so that QuickBooks accepts it.
JournalsBalance ==
    \A w \in ExportedWorkers, j \in Jurisdiction :
        LET gross == GrossPay(w, Current, j)
            entry == JournalEntry(Staff[w].type, gross)
        IN  gross > 0 => SumFunctionOnSet([l \in entry |-> l.amount], entry) = 0

\* While a row of pay_periods is locked, the hours of its days move only by
\* the punch-out of a shift begun on one of them (assertNotInLockedPeriod
\* lets live punches pass), whatever happens to the schedule meanwhile.
LockedHoursMoveByPunchOnly ==
    [][\A w \in Worker, d \in WorkDay, s \in DOMAIN periods :
        (/\ periods[s].status = "locked" /\ s <= d /\ d <= periods[s].end
         /\ hours'[w][d] # hours[w][d]) =>
            onClock[w] = d /\ onClock'[w] = None]_payrollVars
=============================================================================
