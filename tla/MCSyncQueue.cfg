\* Two punches, two overlapping flushes, a restart or a revived item, and the
\* API as it is: every answer that a punch was taken costs the item an attempt.
CONSTANTS
    Flusher = {f1, f2}
    Screen = screen
    Nobody = nobody
    MaxRetries = 2
    Field = {"timeEntry"}
    Refusal = {}
    NumPunches = 2
    MaxRevivals = 1
    MaxRestarts = 1
SYMMETRY FlusherSymmetry
SPECIFICATION Spec
ACTION_CONSTRAINT Small
INVARIANTS
    ConfirmedPunchIsKept
    OutageCostsNothing
    PunchCountsOnce
CHECK_DEADLOCK FALSE
