--------------------------- MODULE MCMetricsFlush ---------------------------
(* MetricsFlush on a small instance.  There are as many flush ids as       *)
(* events, so that a drain with something to record always has one.        *)
EXTENDS MetricsFlush, TLC

ASSUME EnoughIDs == Cardinality(FlushIDs) >= Cardinality(Events)

Symmetric == Permutations(Events) \cup Permutations(Workers)
               \cup Permutations(FlushIDs)
=============================================================================
