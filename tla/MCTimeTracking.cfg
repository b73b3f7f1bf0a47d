SPECIFICATION Spec
CONSTANTS
    u1 = u1  u2 = u2  e1 = e1  e2 = e2  c1 = c1  c2 = c2  c3 = c3
    User = {u1, u2}
    EntryId = {e1, e2}
    BreakId = {b1}
    ClientId = {c1, c2, c3}
    BreakType = {"lunch", "standard"}
    Stamp = {0, 2}
    MaxTime = 4
    AutoClockOutMinutes = 2
    SweepLimit = 1
    None = None
CHECK_DEADLOCK FALSE
INVARIANTS
    ProjectionMatchesLog
    MinutesMatchBreaks
    AutoClosedAtCap
PROPERTIES
    ForgottenPunchIsClosed
    ImplementsTimeClock
