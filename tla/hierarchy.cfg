SPECIFICATION Spec
CONSTANTS
    p1 = p1
    p2 = p2
    p3 = p3
    p4 = p4
    NoProject = NoProject
    Project = {p1, p2, p3, p4}
    Above <- Ordered
    MaxRows = 4
INVARIANTS TypeOK
PROPERTIES OnlyLeavingBreaksLinks RelinkedToParent LineageCarriedOver
CHECK_DEADLOCK FALSE
