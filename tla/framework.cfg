SPECIFICATION Spec
CONSTANTS
    programme = programme
    country = country
    partner = partner
    r1 = r1
    r2 = r2
    i1 = i1
    p1 = p1
    p2 = p2
    w1 = w1
    w2 = w2
    NoProject = NoProject
    NoItem = NoItem
    Project = {programme, country, partner}
    Result = {r1, r2}
    Indicator = {i1}
    Period = {p1, p2}
    Owner <- OwnerOf
    Default = {p2}
    Hierarchies <- ChainsAndPairs
    Overlapping <- Pairs
    Edited <- Chains
    Authors = {programme, country}
    Worker = {w1, w2}
    MaxEdits = 1
    MaxCrashes = 1
INVARIANTS TypeOK NothingMissed ImportedStayComplete CopiesAgree RepairedHaveAllPeriods
CHECK_DEADLOCK FALSE
SYMMETRY Workers
