SPECIFICATION FairExportSpec
CONSTANTS
    org = org
    otherOrg = otherOrg
    Export = {1, 2, 3}
    Organisation = {org, otherOrg}
    OrganisationOf <- TwoOrganisations
    Run = {1}
    Overlap = FALSE
    MaxPatches = 1
    MaxKills = 1
INVARIANTS
    ExportInv
PROPERTIES
    ServedNeverOlder
    RequestsEnd
CHECK_DEADLOCK FALSE
