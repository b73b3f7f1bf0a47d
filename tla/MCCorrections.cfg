SPECIFICATION CorrectionsSpec
CONSTANTS
    w = w  m = m  e1 = e1  e2 = e2  c1 = c1  c2 = c2  r1 = r1
    User = {w}
    Manager = {m}
    EntryId = {e1, e2}
    BreakId = {b1}
    ClientId = {c1, c2}
    RequestId = {r1}
    BreakType = {"lunch"}
    Stamp = {0, 1}
    MaxTime = 1
    AutoClockOutMinutes = 1
    SweepLimit = 1
    PeriodLength = 1
    CorrectionMaxAge = 1
    None = None
SYMMETRY Symmetry
CONSTRAINT Small
CHECK_DEADLOCK FALSE
INVARIANTS
    OneOpenEntryPerUser
    MinutesFollowTimes
PROPERTIES
    RemovedStaysRemoved
    LockedPeriodIsFrozen
