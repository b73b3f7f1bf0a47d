SPECIFICATION DashboardSpec
CONSTANTS
    w = w  m1 = m1  m2 = m2  e1 = e1  r1 = r1  r2 = r2
    Session = {w, m1, m2}
    User = {w, m1, m2}
    UserOf <- UserOfSession
    Approver = {m1, m2}
    Filer = {w}
    Entry = {e1}
    OwnerOf <- OwnerOfEntry
    RequestId = {r1, r2}
    MaxLoads = 2
    None = None
    c1 = c1  c2 = c2  p1 = p1  p2 = p2  x = x  y = y  l1 = l1  l2 = l2
    Client = {c1, c2}
    Person = {p1, p2}
    Password = {x, y}
    LinkId = {l1, l2}
    MaxCalls = 4
    Missing = Missing
    o1 = o1  o2 = o2
    Owner = {o1, o2}
    Section = {"compliance", "payroll"}
    Value = {0, 1, 2}
    Stored = 0
    Blank = 1
    MaxClicks = 4
    MaxFetches = 1
    Nothing = Nothing
SYMMETRY Symmetry
CHECK_DEADLOCK FALSE
INVARIANTS
    OneAnswerStands
    PagesKnowOwnActions
    ApprovalsSeeThePast
    LinkWorksOnce
    SignInsAreCurrent
    SettingsAreAsChosen
