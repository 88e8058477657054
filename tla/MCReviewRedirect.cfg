\* The edit form redirects a proposal to another candidate; one tab only.
CONSTANTS
    ItemId = {i1, i2, i3}
    Owner = {ana}
    ProposalId = {p1, p2, p3}
    NULL = NULL
    MaxVersionNo = 3
    Session = {s1}
    EvidenceLink = {l1}
    ObservedKinds = {"commitment"}
    KindsInPlay = {"commitment"}
    EditStatuses = {NULL}
    Selections = {{l1}}
    Offered = {"accept", "edit_accept"}
SPECIFICATION Spec
SYMMETRY Symmetry
PROPERTY StaleOnlyIfChanged
CHECK_DEADLOCK FALSE
