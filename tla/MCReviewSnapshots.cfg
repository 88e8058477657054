\* One tab changes an item between another tab reading it and writing it.
CONSTANTS
    ItemId = {i1, i2, i3}
    Owner = {ana}
    ProposalId = {p1, p2, p3}
    NULL = NULL
    MaxVersionNo = 3
    Session = {s1, s2}
    EvidenceLink = {l1}
    ObservedKinds = {"commitment"}
    KindsInPlay = {"commitment"}
    EditStatuses = {"active"}
    Selections = {{l1}}
    Offered = {"accept", "edit_accept"}
SPECIFICATION Spec
SYMMETRY Symmetry
INVARIANT SnapshotsHonest
CHECK_DEADLOCK FALSE
