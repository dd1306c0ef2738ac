-------------------------- MODULE MCDisaggregation --------------------------
(* A programme and a country for Disaggregation: the country splits its       *)
(* values in two, the programme adds up one of them.                         *)
EXTENDS Disaggregation, TLC

CONSTANTS programme, country,       \* projects
          top, below,               \* their periods
          women, cWomen, cMen,      \* dimension values
          u1, u2                    \* updates

PairProjectOf == top :> programme @@ below :> country
PairDimensionOf == women :> programme @@ cWomen :> country @@ cMen :> country
PairPeriodOf == u1 :> below @@ u2 :> top
PairLinkedPeriod == top :> None @@ below :> top
PairLinkedValue == women :> None @@ cWomen :> women @@ cMen :> None
=============================================================================
