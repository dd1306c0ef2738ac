------------------------- MODULE MCProjectFollowUps -------------------------
(* Workers for ProjectFollowUps.                                             *)
EXTENDS ProjectFollowUps

CONSTANTS e1, e2, cron, view, reader1
=============================================================================
