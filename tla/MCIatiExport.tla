---------------------------- MODULE MCIatiExport ----------------------------
(* Small instances of IatiExport.                                            *)
EXTENDS IatiExport, TLC

CONSTANTS org, otherOrg

\* The exports of one organisation, and one of another in between.
OneOrganisation == [e \in Export |-> org]
TwoOrganisations == [e \in Export |-> IF e = 2 THEN otherOrg ELSE org]

=============================================================================
