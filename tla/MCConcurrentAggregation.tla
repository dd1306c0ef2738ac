----------------------- MODULE MCConcurrentAggregation -----------------------
(* Small results frameworks for ConcurrentAggregation.                       *)
EXTENDS ConcurrentAggregation

CONSTANTS programme, country, partner,  \* projects
          top, middle, leaf,            \* periods
          u1, u2,                       \* updates
          w1, w2                        \* workers

\* At most three levels with one period each, updates on the lower two.
ChainProjectOf ==
    [q \in Period |-> CASE q = top -> programme [] q = middle -> country [] q = leaf -> partner]
ChainPeriodOf == [u \in Update |-> CASE u = u1 -> leaf [] u = u2 -> middle]
ChainLevel ==
    [p \in Project |-> CASE p = programme -> 0 [] p = country -> 1 [] p = partner -> 2]
=============================================================================
