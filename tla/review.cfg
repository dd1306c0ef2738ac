\* An enumerator and a manager, five requests, two at a time.
CONSTANTS
    Project = {p1, p2}
    User = {enumerator, manager}
    Manager = {manager}
    Update = {u1, u2}
    ProjectOf <- OnFirst
    Worker = {w1, w2}
    enumerator = enumerator
    manager = manager
    p1 = p1
    p2 = p2
    u1 = u1
    u2 = u2
    w1 = w1
    w2 = w2
    None = None
    MaxRequests = 5
    MaxKills = 1
SPECIFICATION Spec
INVARIANTS TypeOK ReturnedTold MailsShown ShownIsMailed
SYMMETRY Alike
CHECK_DEADLOCK FALSE
