SPECIFICATION Spec
CONSTANTS
    Account = {a1, a2}
    Session = {s1, s2}
    Operation = {p1, p2}
    Call = {c1, c2}
    MaxCalls = 1
    MaxEvents = 2
    None = None
SYMMETRY Interchangeable
CONSTRAINT OneHalf
INVARIANTS
    TypeOK
    StoreAgrees
    LiveSessionIsKept
    QuotaHolds
    SlotsReturn
CHECK_DEADLOCK FALSE
