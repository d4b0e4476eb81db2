-------------------------- MODULE MCPublisherLedger --------------------------
(***************************************************************************)
(* An instance of PublisherLedger and PublishStatus: HTTP and GitLab       *)
(* publications of one item, and a status request beside them.             *)
(***************************************************************************)
EXTENDS PublisherLedger, PublishStatus, MCPublisher

\* Creating and updating over HTTP, a work item and a task run the database does
\* not know, and both GitLab targets on one branch: updating, creating, and without
\* a project.
LedgerBodies ==
    <<Http("outline", w1, t1, Null), Http("dify", w2, t1, d1),
      Http("n8n", w1, t2, Null),
      Body("gitlab_branch", w1, t1, Null, p1, b1, f2, "update"),
      Body("gitlab_mr", w1, t1, Null, p1, b1, f2, "update"),
      Body("gitlab_mr", w1, t1, Null, p1, b1, f1, "create"),
      Body("gitlab_mr", w1, t1, Null, Null, b1, f1, "create")>>

LedgerRequests == {LedgerBodies[k] : k \in DOMAIN LedgerBodies}

\* The calls are alike: one of the two orders of a pair of bodies is enough.
OneOrder ==
    \E j, k \in DOMAIN LedgerBodies :
        j <= k /\ call[c1] = LedgerBodies[j] /\ call[c2] = LedgerBodies[k]

\* A second thread matters when both calls go to GitLab: then they are there at the
\* same time.  With one thread, a call waits while the other holds it.
SecondThread == threads = 2 => \A c \in Calls : call[c].target \in GitLabTargets

LedgerInit == StatusInit /\ OneOrder /\ SecondThread

LedgerRunSpec ==
    /\ LedgerInit /\ [][StatusNext]_statusVars
    /\ \A c \in Calls : WF_vars(TimedStep(c))

RunOwner == [run \in {t1} |-> w1]

=============================================================================
