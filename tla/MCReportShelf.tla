--------------------------- MODULE MCReportShelf ---------------------------
EXTENDS ReportShelf, TLC

\* A query allows neither stale finals nor legacy texts, or both.
NoneOrBoth == {[stale |-> b, legacy |-> b] : b \in BOOLEAN}
=============================================================================
