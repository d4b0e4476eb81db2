---------------------------- MODULE MCPolicyBridge ----------------------------
(***************************************************************************)
(* Instances of PolicyBridge for TLC: request bodies and policies.         *)
(***************************************************************************)
EXTENDS PolicyGate, TLC

CONSTANTS e1, e2, e3, e4, d1, d2, d3, ws1, ws2, impl, profile

Body(workspace, agent, class, risk, units, has_run, known, room) ==
    [scope |-> [global |-> "global", workspace |-> workspace,
                work_item_kind |-> impl, agent_profile |-> agent],
     approval_policy |-> class, risk_level |-> risk, cost |-> units, tokens |-> 1,
     has_run |-> has_run, known |-> known, room |-> room]

Policy(type, id, daily, per_task, concurrency) ==
    [type |-> type, id |-> id, daily |-> daily, per_task |-> per_task,
     tokens |-> 1, concurrency |-> concurrency]

\* Work of two workspaces, one of them for an agent profile, made before or
\* after its row.
WorkspaceRequests ==
    {Body(ws1, Null, "none", "high", 1, FALSE, TRUE, FALSE),
     Body(ws1, Null, "none", "high", 1, TRUE, TRUE, FALSE),
     Body(ws2, profile, "low", "medium", 1, FALSE, TRUE, FALSE)}

\* The narrowest limit is of a scope that is not evaluated last.
WorkspacePolicies ==
    {Policy("workspace", ws1, 3, 1, 2), Policy("workspace", ws2, 3, 1, 1),
     Policy("work_item_kind", impl, 3, 1, 3),
     Policy("agent_profile", profile, 3, 1, 2)}

\* Requests that need a human, with and without a room and a work item row,
\* one that does not, and one that is over its per-task limit.
GateRequests ==
    {Body(ws1, Null, "medium", "medium", 1, FALSE, TRUE, TRUE),
     Body(ws1, Null, "low", "high", 1, FALSE, TRUE, FALSE),
     Body(ws1, Null, "high", "low", 1, FALSE, FALSE, TRUE),
     Body(ws1, Null, "medium", "low", 1, FALSE, TRUE, TRUE),
     Body(ws1, Null, "critical", "critical", 2, FALSE, TRUE, TRUE)}
GatePolicies == {Policy("global", "global", 5, 1, 5)}

EvaluationSymmetry == Permutations(Evaluations)
CallerSymmetry == Permutations(Evaluations) \cup Permutations(Decisions)

=============================================================================
