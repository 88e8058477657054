CONSTANTS
    i1 = i1
    i2 = i2
    b1 = b1
    s1 = s1
    Trouble = 3
    Item = {i1, i2}
    Boundary = {b1, b2}
    WeakItem = {i2}
    NULL = NULL
    LastPage = 2
    MaxPagesPerSync = 2
    MaxMarker = 2
    MaxChanges = 2
    MaxTime = 1
    MaxConnects = 2
    Session = {s1, s2}
    Kind = {"drive", "gmail", "calendar", "fathom"}
    MaxFaults = 1
    MaxClicks = 2
SPECIFICATION MCSpec
INVARIANTS SyncTypeOK CompletedRunImportedAll WatermarkCovers RefHasSecret
PROPERTIES VanishedAreGone
CHECK_DEADLOCK FALSE
