----------------------------- MODULE MCGovernance -----------------------------
(***************************************************************************)
(* An instance of Governance for TLC: runs that nobody estimated, in a     *)
(* workspace whose daily limit is used up by the first cost, one run of    *)
(* another workspace, and completions of them.                             *)
(***************************************************************************)
EXTENDS Governance, TLC

CONSTANTS e1, e2, e3, e4, e5, q1, q2, q3, q4, t1, ws1, ws2, impl

\* Runs of a limited workspace, and of one without a policy, whose row is made first.
SpendRequests ==
    {[scope |-> [global |-> "global", workspace |-> IF made THEN ws2 ELSE ws1,
                 work_item_kind |-> impl, agent_profile |-> Null],
      approval_policy |-> "none", risk_level |-> "low", cost |-> 0, tokens |-> 1,
      has_run |-> made, known |-> TRUE, room |-> FALSE] :
        made \in BOOLEAN}

\* Any cost is over the limit, and one run is active at a time: the cost of three
\* can go unseen, and it takes a fourth to pass the bound.
SpendPolicies ==
    {[type |-> "workspace", id |-> ws1, daily |-> 0, per_task |-> 1, tokens |-> 1,
      concurrency |-> 1]}

Completion(e, status, trace) ==
    [kind |-> "complete", run |-> e, trace |-> trace, status |-> status,
     early |-> FALSE, summary |-> FALSE, error |-> FALSE, graphiti |-> FALSE]

\* Completions of each run of the workspace with its trace, and of one of them
\* without a trace, as pending again.
RunCompletions ==
    {Completion(e, "succeeded", t1) : e \in {e1, e2, e3, e4}}
    \cup {Completion(e4, "pending", Null)}

\* Only e4 is reported on twice, and always so if it is called pending again.
OneRepeat ==
    \A q \in Posts :
        LET Others == {o \in Posts \ {q} : posted[o].run = posted[q].run}
        IN  IF posted[q].run = e4 THEN IsReopening(q) => Others # {} ELSE Others = {}

RepeatInit == Init /\ OneRepeat

RepeatSpec == RepeatInit /\ [][Next]_vars

RunSymmetry == Permutations({e1, e2, e3}) \cup Permutations(Posts)

=============================================================================
