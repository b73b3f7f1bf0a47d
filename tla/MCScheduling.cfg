SPECIFICATION Spec
CONSTANTS
    s1 = s1  s2 = s2  u1 = u1  u2 = u2  u3 = u3  x1 = x1  x2 = x2
    Session = {s1, s2}
    User = {u1, u2, u3}
    ShiftId = {x1, x2}
    TradeId = {t1}
    LeaveId = {l1}
    MaxDate = 1
    Today = 0
    DayLength = 4
    WeekLength = 2
    Slot <- Slots
    MaxWeekly = 4
    RestWindow = 2
    NoticeWindow = 1
    None = None
SYMMETRY Symmetry
CONSTRAINT Small
CHECK_DEADLOCK FALSE
PROPERTIES
    UnforcedShiftFits
    AcceptedOnce
    ShiftsMoveByTrade
    TimeOffIsApproved
