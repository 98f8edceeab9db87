--------------------------- MODULE MCPeriodPlans ---------------------------
EXTENDS PeriodPlans, TLC

Symmetry == Permutations(Requests)

\* The first two weeks start in the first month.
Calendar == [w \in 1..NWeeks |-> IF w <= 2 THEN 1 ELSE 2]
=============================================================================
