-------------------------- MODULE MCReportVariants --------------------------
EXTENDS ReportVariants, TLC

\* The request slots are interchangeable.
Symmetry == Permutations(Requests)
=============================================================================
