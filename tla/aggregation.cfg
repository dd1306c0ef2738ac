SPECIFICATION Spec
CONSTANTS
    programme = programme
    country = country
    top = top
    middle = middle
    middleB = middleB
    u2 = u2
    u1 = u1
    NoPeriod = NoPeriod
    NoNumber = NoNumber
    Project = {programme, country}
    Period = {top, middle, middleB}
    Update = {u1, u2}
    Value = {1}
    ProjectOf <- WideProjectOf
    PeriodOf <- WidePeriodOf
    Level <- WideLevel
INVARIANTS AggregationInv TotalsConsistent RollUp
