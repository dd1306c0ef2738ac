------------------------- MODULE MCPeriodAggregation -------------------------
(* Small results frameworks for PeriodAggregation.                           *)
EXTENDS PeriodAggregation, TLC

CONSTANTS programme, country,       \* projects
          top, middle, middleB,     \* periods
          u1, u2                    \* updates

\* Two levels; the country has two indicators, the programme updates of its own.
WideProjectOf == top :> programme @@ middle :> country @@ middleB :> country
WidePeriodOf == u1 :> middle @@ u2 :> top
WideLevel == programme :> 0 @@ country :> 1
=============================================================================
