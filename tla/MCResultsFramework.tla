------------------------- MODULE MCResultsFramework -------------------------
(* Small hierarchies and frameworks for ResultsFramework.                    *)
EXTENDS ResultsFramework, TLC

CONSTANTS programme, country, partner, r1, r2, i1, p1, p2, w1, w2

\* Three levels, where requests come one at a time, and two, where they overlap.
Chain == programme :> NoProject @@ country :> programme @@ partner :> country
Pair == programme :> NoProject @@ country :> programme @@ partner :> NoProject
Chains == {Chain}
Pairs == {Pair}
ChainsAndPairs == Chains \cup Pairs

\* One result has the indicator, the other none; p2 is a default period.
OwnerOf == i1 :> r1 @@ p1 :> i1 @@ p2 :> i1

\* Workers are alike.
Workers == Permutations({w1, w2})
=============================================================================
