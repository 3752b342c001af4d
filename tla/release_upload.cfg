SPECIFICATION Spec
CONSTANTS
    Upload = {u1, u2}
    Version = {v1}
    Request = {q1, q2}
    LocalUpload = {l1}
    Slots = 1
    Ttl = 1
    MaxTime = 2
    MaxPuts = 2
    MaxCrashes = 1
    MaxDrops = 1
    None = None
SYMMETRY Interchangeable
INVARIANTS
    TypeOK
    ReleasedPackageExists
    ReservationIsExclusive
    ClaimHasOneHolder
PROPERTIES
    OnlyDeadObjectsAreDeleted
CHECK_DEADLOCK FALSE
