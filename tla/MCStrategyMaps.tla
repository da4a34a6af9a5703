--------------------------- MODULE MCStrategyMaps ---------------------------
(* Two tiers, two classes, and times at the edges of the day and the week.   *)
EXTENDS StrategyMaps

MCTiers == {"production", "development"}
MCTier == "production"
MCClasses == {"small", "large"}
At(h, m) == h * Hour + m

\* An ordinary pair; a maintenance from Saturday to Sunday; windows that meet,
\* on a Sunday; windows that meet after midnight, which the code does not see.
MCFirstTimes == [backup |-> At(12, 0), day |-> 1, maint |-> At(2, 30)]
MCTimes ==
  {MCFirstTimes,
   [backup |-> At(3, 30), day |-> 6, maint |-> At(23, 30)],
   [backup |-> At(10, 30), day |-> 0, maint |-> At(10, 0)],
   [backup |-> At(23, 30), day |-> 3, maint |-> At(0, 0)]}
============================================================================
