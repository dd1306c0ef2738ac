---------------------------- MODULE MCUpdateReview ----------------------------
(* Two updates of one project, another project, and two workers.             *)
EXTENDS UpdateReview, TLC

CONSTANTS enumerator, manager, p1, p2, u1, u2, w1, w2

OnFirst == u1 :> p1 @@ u2 :> p1

\* Workers are alike, and so are the updates of a period.
Alike == Permutations({w1, w2}) \cup Permutations({u1, u2})
=============================================================================
