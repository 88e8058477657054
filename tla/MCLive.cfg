CONSTANTS
    i1 = i1
    i2 = i2
    b1 = b1
    s1 = s1
    Trouble = 3
    Item = {i1, i2}
    Boundary = {b1, b2}
    WeakItem = {i2}
    NULL = NULL
    LastPage = 2
    MaxPagesPerSync = 1
    MaxMarker = 2
    MaxChanges = 1
    MaxTime = 1
    MaxConnects = 1
    Session = {s1}
    Kind = {"drive", "calendar"}
    MaxFaults = 1
    MaxClicks = 2
    ItemId = {m1, m2}
    Owner = {ana}
    ProposalId = {p1, p2}
    MaxVersionNo = 3
    Reviewer = {r1, r2}
    EvidenceLink = {l1}
    ObservedKinds = {"commitment"}
    KindsInPlay = {"commitment"}
    EditStatuses = {NULL}
    Selections = {{l1}}
    Offered = {"accept", "reject", "mark_superseded"}
SPECIFICATION LiveSpec
PROPERTIES
    EventuallyImported
    EveryPressAnswered
CHECK_DEADLOCK FALSE
