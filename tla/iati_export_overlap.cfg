SPECIFICATION ExportSpec
CONSTANTS
    org = org
    otherOrg = otherOrg
    Export = {1, 2}
    Organisation = {org}
    OrganisationOf <- OneOrganisation
    Run = {1, 2}
    Overlap = TRUE
    MaxPatches = 0
    MaxKills = 0
PROPERTY ServedNeverOlder
CHECK_DEADLOCK FALSE
