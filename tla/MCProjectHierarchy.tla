------------------------- MODULE MCProjectHierarchy -------------------------
(* Projects for ProjectHierarchy.                                            *)
EXTENDS ProjectHierarchy, TLC

CONSTANTS p1, p2, p3, p4

\* Every hierarchy of four projects up to renaming, and moves within and between
\* hierarchies.
Ordered == p1 :> {} @@ p2 :> {p1} @@ p3 :> {p1, p2} @@ p4 :> {p1, p2, p3}
=============================================================================
