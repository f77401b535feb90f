----------------------------- MODULE MCJobQueue -----------------------------
(* The job queue on small instances: a few rows, two runner processes. *)
EXTENDS JobQueue

CONSTANTS l1, l2, o1, k1, k2

OneLoop == {l1}
TwoLoops == {l1, l2}
NoOnce == {}
OneOnce == {o1}
OneKind == {k1}

(* Bound: two reports in flight at once, the most that can be of one job when *)
(* it may be attempted twice.                                                 *)
FewReports == Cardinality(handlers) <= 2
=============================================================================
