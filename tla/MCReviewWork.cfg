CONSTANTS
    ItemId = {i1, i2, i3}
    Owner = {ana, bo}
    ProposalId = {p1, p2, p3}
    NULL = NULL
    MaxVersionNo = 3
    Session = {s1, s2}
    EvidenceLink = {l1}
    ObservedKinds = {"commitment"}
    KindsInPlay = {"commitment"}
    EditStatuses = {"active"}
    Selections = {{l1}}
    Offered = {"accept", "edit_accept", "reject", "mark_complete", "mark_superseded", "treat_as_new"}
    ana = eva
    bo = leo
    e1 = e1
    e2 = e2
    Nothing = Nothing
    Person = {eva, leo}
    Entry = {e1, e2}
    Day = {0, 7, 14}
SPECIFICATION MCSpec
SYMMETRY Symmetry
INVARIANTS
    TypeOK
    SupersessionPaired
    CorrectionFlagHonest
    SnapshotsHonest
    DecisionRecorded
    AppliedOnce
    EveryVersionReviewed
    NothingFromRejected
    ConfidentMeansApplicable
    OrderMattersOnlyWhenUncertain
    CorrectionsStand
    ProposalsFitReview
PROPERTIES
    TerminalStaysTerminal
    KeepsPromise
CHECK_DEADLOCK FALSE
