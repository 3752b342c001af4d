SPECIFICATION FairSpec
CONSTANTS
    Version = {v1}
    Uploaded = {}
    Content = {c1, c2}
    Old = c1
    Key = {k1}
    Request = {q1, q2}
    AppRelease = {r1, r2}
    Run = {d1}
    Cleaner = {boot, g1}
    Boot = boot
    MaxCrashes = 1
    MaxDrops = 1
    None = None
INVARIANTS
    TypeOK
    ReferencedReleaseIsActive
    ActiveReleaseHasPackage
    ReplayIsTrue
PROPERTIES
    DeletionEnds
    StartUpCompletes
CHECK_DEADLOCK FALSE
