--------------------------- MODULE MCMetricsStore ---------------------------
(* Workloads that share functional units and a COPY.                       *)
EXTENDS MetricsStore

CONSTANTS A, B, x, y, c

MCElements(w) == IF w = A THEN <<x, c, y, x>> ELSE <<c, y, x>>

\* A run may be killed anywhere but while -i is deleting.
Killable == Steps \ {"off", "rmCache", "rmLocal"}

KillableAnywhere == Steps \ {"off"}
=============================================================================
