\* A country with two dimension values under a programme with one.
CONSTANTS
    Project = {programme, country}
    Period = {top, below}
    DimensionValue = {women, cWomen, cMen}
    Update = {u1, u2}
    Value = {1, 2}
    Amount = {1}
    programme = programme
    country = country
    top = top
    below = below
    women = women
    cWomen = cWomen
    cMen = cMen
    u1 = u1
    u2 = u2
    None = None
    MaxInterventions = 1
    ProjectOf <- PairProjectOf
    DimensionOf <- PairDimensionOf
    PeriodOf <- PairPeriodOf
    LinkedPeriod <- PairLinkedPeriod
    LinkedValue <- PairLinkedValue
SPECIFICATION Spec
INVARIANTS TypeOK SubtreeAddedUp IncompleteTold
CHECK_DEADLOCK FALSE
