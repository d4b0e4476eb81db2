----------------------------- MODULE MCPublisher -----------------------------
(***************************************************************************)
(* Instances of Publisher for TLC: the request bodies of each run.         *)
(***************************************************************************)
EXTENDS Publisher

CONSTANTS c1, c2, c3, w1, w2, t1, t2, d1, p1, b1, b2, f1, f2

Body(target, item, run, existing, project, branch, file, action) ==
    [target |-> target, item |-> item, run |-> run, existing |-> existing,
     project |-> project, branch |-> branch, file |-> file, action |-> action]

Http(target, item, run, existing) ==
    Body(target, item, run, existing, Null, b1, f1, "create")

\* The three HTTP targets: creating, updating, and naming a work item or a
\* task run the database does not know.
HttpRequests ==
    {Http("outline", w1, t1, Null), Http("outline", w1, t1, d1),
     Http("dify", w1, t1, Null), Http("n8n", w1, t1, d1),
     Http("dify", w2, t1, Null), Http("n8n", w1, t2, Null)}

\* One target, retried.
RetriedRequests == {Http("dify", w1, t1, Null), Http("outline", w1, t1, Null)}

=============================================================================
