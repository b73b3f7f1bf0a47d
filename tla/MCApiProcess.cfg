SPECIFICATION Spec
CONSTANTS
    r1 = r1  r2 = r2  p1 = p1  c1 = c1  c2 = c2
    Request = {r1, r2}
    AdminRequest = {r1}
    BatchRequest = {r2}
    Pass = {p1}
    Conn = {c1, c2}
    NumStatements = 2
    MaxFaults = 2
    Other = Other
    None = None
INVARIANTS
    SweepsAreSerial
    AnsweredMeansCommitted
    ConnectionsHaveOneOwner
    PoolClosesAfterSweeps
PROPERTIES
    SweepsKeepRunning
