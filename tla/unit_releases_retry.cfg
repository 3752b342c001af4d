SPECIFICATION FairSpec
CONSTANTS
    Version = {v1}
    Uploaded = {}
    Content = {c1}
    Old = c1
    Key = {k1}
    Request = {q1, q2}
    AppRelease = {r1}
    Run = {d1}
    Cleaner = {boot, g1}
    Boot = boot
    MaxCrashes = 0
    MaxDrops = 0
    None = None
PROPERTY
    RetryIsReplayed
CHECK_DEADLOCK FALSE
