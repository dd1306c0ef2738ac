\* What the help text of aggregate_to_parent promises of the totals.
CONSTANTS
    Project = {programme, country}
    Period = {top, below}
    DimensionValue = {women, cWomen, cMen}
    Update = {u1, u2}
    Value = {1, 2}
    Amount = {1}
    programme = programme
    country = country
    top = top
    below = below
    women = women
    cWomen = cWomen
    cMen = cMen
    u1 = u1
    u2 = u2
    None = None
    MaxInterventions = 1
    ProjectOf <- PairProjectOf
    DimensionOf <- PairDimensionOf
    PeriodOf <- PairPeriodOf
    LinkedPeriod <- PairLinkedPeriod
    LinkedValue <- PairLinkedValue
SPECIFICATION Spec
INVARIANT NothingFromOthers
CHECK_DEADLOCK FALSE
