SPECIFICATION MCSpec
CONSTANTS
    w1 = w1  w2 = w2  w3 = w3
    Worker = {w1, w2, w3}
    Month <- Months
    Date <- Dates
    Anchor = {14}
    Staff <- People
    Shift = {21}
    FirstWorkDay = 12
    LastWorkDay = 15
    MaxDailyHours = 9
    MaxWeeklyHours = 20
    Enforcement = {"off", "warn", "block"}
    None = None
CHECK_DEADLOCK FALSE
INVARIANTS
    PeriodsTile
    ListedLocksGuardTheirDays
    CapsBoundDayAndWeek
    PeriodsAddUp
    SumsDifferByWorkersOnly
    JournalsBalance
    CaliforniaPaysNoLess
PROPERTIES
    LockedHoursMoveByPunchOnly
