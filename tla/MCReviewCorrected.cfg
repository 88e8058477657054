\* The reviewer changes the owner while accepting a supersession.
CONSTANTS
    ItemId = {i1, i2}
    Owner = {ana, bo}
    ProposalId = {p1, p2}
    NULL = NULL
    MaxVersionNo = 3
    Session = {s1}
    EvidenceLink = {l1}
    ObservedKinds = {"commitment"}
    KindsInPlay = {"commitment"}
    EditStatuses = {NULL}
    Selections = {{l1}}
    Offered = {"accept", "edit_accept"}
SPECIFICATION Spec
SYMMETRY Symmetry
INVARIANT CorrectionsFlagged
CHECK_DEADLOCK FALSE
