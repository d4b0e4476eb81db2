----------------------------- MODULE MCTaskRuns -----------------------------
(***************************************************************************)
(* Instances of TaskRuns for TLC: the request bodies.                      *)
(***************************************************************************)
EXTENDS TaskRuns, TLC

CONSTANTS q1, q2, q3, t1, t2, r1

Body(kind, run, trace, status, early, summary, error, graphiti) ==
    [kind |-> kind, run |-> run, trace |-> trace, status |-> status, early |-> early,
     summary |-> summary, error |-> error, graphiti |-> graphiti]

LinkBody(run, trace) == Body("link", run, trace, "running", FALSE, FALSE, FALSE, FALSE)
SyncBody(run, trace) == Body("sync", run, trace, "running", FALSE, FALSE, FALSE, FALSE)

\* A link, a sync of the linked trace, a completion that succeeds and mirrors to
\* Graphiti, and one that fails, names another trace and ends before the start of
\* a run that was started.
RunRequests ==
    {LinkBody(r1, t2), SyncBody(r1, Null),
     Body("complete", r1, Null, "succeeded", FALSE, TRUE, FALSE, TRUE),
     Body("complete", r1, t1, "failed", TRUE, FALSE, TRUE, FALSE)}

PostSymmetry == Permutations(Posts)

=============================================================================
