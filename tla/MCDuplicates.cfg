\* Two sessions reconcile one observation.
CONSTANTS
    n1 = n1
    n2 = n2
    d1 = d1
    d2 = d2
    c1 = c1
    o1 = o1
    o2 = o2
    NULL = NULL
    None = None
    Nothing = Nothing
    Project = {p1}
    Name = {n1, n2}
    Normal <- MCNormal
    Digest = {d1, d2}
    Oversized = {d2}
    Chunk = {c1}
    Chunks <- MCChunks
    Statement = {o1, o2}
    Cited = {o1}
    Session = {s1, s2}
    MaxEdits = 3
    MaxSubmits = 3
    MaxBackups = 1
    MaxCrashes = 1
    ItemId = {}
    Owner = {ana}
    ProposalId = {r1}
    MaxVersionNo = 3
    Home = p
    OtherProject = {q}
    Reader = {s, t}
    MaxBriefs = 0
    MaxComposed = 1
SPECIFICATION MCSpec
SYMMETRY MCSymmetry
INVARIANT OneProposalPerObservation
CHECK_DEADLOCK FALSE
