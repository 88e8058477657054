\* A preview taken in one project, generated in another.
CONSTANTS
    ItemId = {i1}
    Owner = {ana}
    ProposalId = {r1}
    NULL = NULL
    MaxVersionNo = 1
    Home = p
    OtherProject = {q}
    Reader = {s}
    MaxBriefs = 1
    MaxComposed = 0
SPECIFICATION BriefsSpec
INVARIANT ProjectsAreHardBoundaries
CHECK_DEADLOCK FALSE
