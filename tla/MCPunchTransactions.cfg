SPECIFICATION Spec
CONSTANTS
    s1 = s1  s2 = s2  e1 = e1  e2 = e2  c1 = c1  c2 = c2  c3 = c3
    Session = {s1, s2}
    EntryId = {e1, e2}
    PunchInId = {c1, c3}
    PunchOutId = {c2}
    None = None
SYMMETRY Symmetry
CHECK_DEADLOCK FALSE
INVARIANTS
    OneOpenEntry
    EndIsLogged
    SomeStatementRuns
PROPERTIES
    ImplementsAtomicRequests
