SPECIFICATION Spec
CONSTANTS
    programme = programme
    country = country
    partner = partner
    top = top
    middle = middle
    leaf = leaf
    u1 = u1
    u2 = u2
    w1 = w1
    w2 = w2
    NoPeriod = NoPeriod
    NoNumber = NoNumber
    Value = {1}
    ProjectOf <- ChainProjectOf
    PeriodOf <- ChainPeriodOf
    Level <- ChainLevel
    Project = {partner}
    Period = {leaf}
    Update = {u1}
    Worker = {w1, w2}
PROPERTY RecalculationKeepsStatus
