\* Two projects, the checks of the one with the lower id raise.
CONSTANTS
    Project = {1, 2}
    Broken = {1}
    Patched = {2}
    Editor = {e1, e2}
    Command = {cron}
    View = {view}
    Reader = {reader1}
    Code = {"3", "4"}
    e1 = e1
    e2 = e2
    cron = cron
    view = view
    reader1 = reader1
    None = None
    MaxEdits = 2
    MaxKills = 1
SPECIFICATION FairSpec
INVARIANTS TypeOK  DirectoryUpToDate StatusesAgree
PROPERTY FlagIsServed
CHECK_DEADLOCK FALSE
