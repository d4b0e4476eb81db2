----------------------------- MODULE PolicyBridge -----------------------------
(***************************************************************************)
(* The policy-bridge: POST /policy/evaluate (budgets first, then the       *)
(* approval gate), POST /policy/approve and /reject, and the tables they   *)
(* read and write.  An action is the code between two awaits of a handler. *)
(*                                                                         *)
(* The bridge reserves nothing: it reads clawcluster.task_runs, answers,   *)
(* and the Manager makes the run.  Evaluation e is for one run, known by e *)
(* too; a retry is another evaluation.  Costs are whole units.             *)
(***************************************************************************)
EXTENDS FiniteSets, FiniteSetsExt, Integers

CONSTANTS
    Evaluations,  \* the POST /policy/evaluate requests that may arrive
    Decisions,    \* the POST /policy/approve and /policy/reject requests
    ScopeIds,     \* workspace ids, kinds and agent profiles
    Requests,     \* the bodies of evaluations
    Policies,     \* the enabled rows of clawcluster.budget_policies
    Faults,       \* what the environment may do to the bridge
    RowsValidate, \* whether ApprovalRecord accepts a row the pool returns
    MaxGrants,    \* bound on the evaluations whose run may still start
    MaxUnsettled, \* bound on the ended runs whose cost is not recorded yet
    MaxReopened,  \* bound on the ended runs that an event makes active again
    MaxDay,       \* bound on the UTC days that pass
    MaxCost,      \* bound on what a run costs, whatever was estimated
    Null

ScopeTypes == {"global", "workspace", "work_item_kind", "agent_profile"}

\* _iter_scopes: the order in which the scopes are evaluated.
ScopeOrder == <<"global", "workspace", "work_item_kind", "agent_profile">>

Levels == {"low", "medium", "high", "critical"}

RequestType ==
    [scope : [ScopeTypes -> ScopeIds \cup {"global", Null}],
     approval_policy : Levels \cup {"none"}, risk_level : Levels,
     cost : Nat, tokens : Nat,
     has_run : BOOLEAN,  \* task_run_id is given: the run's row was made first
     known : BOOLEAN,    \* the work item has a row
     room : BOOLEAN]     \* matrix_room_id and an access token are set

PolicyType ==
    [type : ScopeTypes, id : ScopeIds \cup {"global"},
     daily : Nat, per_task : Nat, tokens : Nat \ {0}, concurrency : Nat \ {0}]

ASSUME RequestsAssumption == Requests \subseteq RequestType
ASSUME RunsAssumption == \A r \in Requests : r.has_run => r.known
ASSUME ScopesAssumption ==
    \A r \in Requests :
        /\ r.scope["global"] = "global"
        /\ r.scope["workspace"] # Null /\ r.scope["work_item_kind"] # Null
ASSUME PoliciesAssumption ==
    /\ Policies \subseteq PolicyType
    /\ \A p, q \in Policies : p.type = q.type /\ p.id = q.id => p = q
    /\ \A p \in Policies : p.type = "global" => p.id = "global"
ASSUME FaultsAssumption == Faults \subseteq {"refused", "unknown", "crash"}
ASSUME BoundsAssumption ==
    /\ MaxGrants \in Nat \ {0} /\ MaxUnsettled \in Nat \ {0} /\ MaxDay \in Nat \ {0}
    /\ MaxReopened \in Nat /\ MaxCost \in Nat
ASSUME NullAssumption ==
    Null \notin ScopeIds \cup Decisions \cup {"global", "pending", "approved", "rejected"}
ASSUME FiniteAssumption == IsFiniteSet(Evaluations) /\ RowsValidate \in BOOLEAN

VARIABLES
    request,   \* request[e]: the body of evaluation e
    pc,        \* pc[e]: the await at which the handler of e is suspended
    at,        \* at[e]: which of its scopes is being evaluated
    asOf,      \* asOf[e]: evaluation_date
    spend,     \* spend[e]: current_daily_spend
    violated,  \* violated[e]: the limits found exceeded so far
    answer,    \* answer[e]: what the caller of e was told
    ruling,    \* ruling[d]: the approval and the decision that d names
    told,      \* told[d]: what the caller of d was told
    approvals, \* approvals[e]: the decision of the row e inserted, or Null
    decidedBy, \* decidedBy[e]: its decided_by, the deciding request
    run,       \* run[e]: task_runs.status, "none" while there is no row; "running"
               \* is an active status of a run that was started, a terminal one
               \* is "unsettled" as long as cost_usd may still come
    created,   \* created[e]: the day of its created_at
    cost,      \* cost[e]: its cost_usd, 0 where NULL
    reopened,  \* how many ended runs were made active again (history)
    today      \* the UTC date

evaluation == <<pc, at, asOf, spend, violated, answer>>
decision == <<ruling, told>>
gates == <<approvals, decidedBy>>
runs == <<run, created, cost, reopened>>
vars == <<request, evaluation, decision, gates, runs, today>>

InFlightPoints == {"policy", "spend", "active", "create", "notify"}

Limits == {"daily", "per_task", "tokens", "concurrency"}

\* "error" is an answer 500; "unsure" is a 500 after an answer of the database
\* was lost, so that nobody knows what it did; "lost" is no answer at all.
Answers ==
    {"none", "approved", "pending_approval", "rejected", "error", "unsure", "lost"}

\* The control state; with the sums of costs it is PolicyTypeOK.
ControlTypeOK ==
    /\ request \in [Evaluations -> Requests]
    /\ pc \in [Evaluations -> InFlightPoints \cup {"idle", "done"}]
    /\ at \in [Evaluations -> 1..4]
    /\ asOf \in [Evaluations -> 1..MaxDay]
    /\ violated \in [Evaluations -> SUBSET Limits]
    /\ answer \in [Evaluations -> Answers]
    /\ ruling \in [Decisions -> [approval : Evaluations,
                                 verdict : {"approved", "rejected"}]]
    /\ told \in [Decisions -> {"none", "recorded", "not_found", "error"}]
    /\ approvals \in [Evaluations -> {Null, "pending", "approved", "rejected"}]
    /\ decidedBy \in [Evaluations -> Decisions \cup {Null}]
    /\ run \in [Evaluations -> {"none", "pending", "running", "unsettled", "ended"}]
    /\ created \in [Evaluations -> 1..MaxDay]
    /\ cost \in [Evaluations -> Nat]
    /\ reopened \in 0..MaxReopened
    /\ today \in 1..MaxDay

PolicyTypeOK == ControlTypeOK /\ spend \in [Evaluations -> Nat]

Init ==
    /\ request \in [Evaluations -> Requests]
    /\ pc = [e \in Evaluations |-> "idle"]
    /\ at = [e \in Evaluations |-> 1]
    /\ asOf = [e \in Evaluations |-> 1]
    /\ spend = [e \in Evaluations |-> 0]
    /\ violated = [e \in Evaluations |-> {}]
    /\ answer = [e \in Evaluations |-> "none"]
    /\ ruling \in [Decisions -> [approval : Evaluations,
                                 verdict : {"approved", "rejected"}]]
    /\ told = [d \in Decisions |-> "none"]
    /\ approvals = [e \in Evaluations |-> Null]
    /\ decidedBy = [e \in Evaluations |-> Null]
    /\ run = [e \in Evaluations |-> "none"]
    /\ created = [e \in Evaluations |-> 1]
    /\ cost = [e \in Evaluations |-> 0]
    /\ reopened = 0
    /\ today = 1

-----------------------------------------------------------------------------
(* The queries, and what the handler computes.                              *)

Outcomes == {"ok"} \cup (Faults \cap {"refused", "unknown"})

Takes(outcome) == outcome # "refused"

\* The scope condition of both queries: run e counts for policy p.
InScope(p, e) == p.type = "global" \/ request[e].scope[p.type] = p.id

\* get_active_task_count.
Active(p) == {e \in Evaluations : run[e] \in {"pending", "running"} /\ InScope(p, e)}

\* Mutant of SpentOn: only runs that have ended are added up.
SpentOnEnded(p, day) ==
    MapThenSumSet(LAMBDA e : cost[e],
                  {e \in Evaluations : /\ run[e] \in {"unsettled", "ended"}
                                       /\ created[e] = day /\ InScope(p, e)})

\* The rows that the query of get_daily_spend selects.
CountedOn(p, day) ==
    {e \in Evaluations : run[e] # "none" /\ created[e] = day /\ InScope(p, e)}

\* get_daily_spend.
SpentOn(p, day) == MapThenSumSet(LAMBDA e : cost[e], CountedOn(p, day))

\* _iter_scopes: agent_profile, the last, only when the request has one.
LastScope(e) == IF request[e].scope["agent_profile"] = Null THEN 3 ELSE 4

\* The policies that apply to the scope e is at: none or one.
Applicable(e) ==
    LET t == ScopeOrder[at[e]]
    IN {p \in Policies : p.type = t /\ p.id = request[e].scope[t]}

\* Mutant of IsAutoApproved: class low lets a high risk pass.
IsAutoApprovedLoosely(class, risk) ==
    \/ class = "none"
    \/ class = "low" /\ risk # "critical"
    \/ class = "medium" /\ risk = "low"

IsAutoApproved(class, risk) ==
    \/ class = "none"
    \/ class = "low" /\ risk \in {"low", "medium"}
    \/ class = "medium" /\ risk = "low"

AutoApproved(e) == IsAutoApproved(request[e].approval_policy, request[e].risk_level)

\* Mutant of LimitsExceeded: a scope that is exactly full admits one more.
LimitsExceededOffByOne(p, e, spent, active) ==
    {l \in Limits :
        \/ l = "daily" /\ spent + request[e].cost > p.daily
        \/ l = "per_task" /\ request[e].cost > p.per_task
        \/ l = "tokens" /\ request[e].tokens > p.tokens
        \/ l = "concurrency" /\ active > p.concurrency}

\* Mutant of LimitsExceeded: the daily limit does not hold for a run without an
\* estimate.
LimitsExceededEstimated(p, e, spent, active) ==
    {l \in Limits :
        \/ l = "daily" /\ request[e].cost > 0 /\ spent + request[e].cost > p.daily
        \/ l = "per_task" /\ request[e].cost > p.per_task
        \/ l = "tokens" /\ request[e].tokens > p.tokens
        \/ l = "concurrency" /\ active >= p.concurrency}

LimitsExceeded(p, e, spent, active) ==
    {l \in Limits :
        \/ l = "daily" /\ spent + request[e].cost > p.daily
        \/ l = "per_task" /\ request[e].cost > p.per_task
        \/ l = "tokens" /\ request[e].tokens > p.tokens
        \/ l = "concurrency" /\ active >= p.concurrency}

\* Evaluations whose run has not started and may still: those in flight, those
\* told to go on, and those with an approval row, whatever was decided, because
\* a decision may be changed.
Granting ==
    {e \in Evaluations : /\ run[e] \in {"none", "pending"}
                         /\ \/ pc[e] \in InFlightPoints
                            \/ answer[e] = "approved"
                            \/ approvals[e] # Null}

Goto(e, point) == pc' = [pc EXCEPT ![e] = point] /\ UNCHANGED answer

Reply(e, what) ==
    /\ pc' = [pc EXCEPT ![e] = "done"]
    /\ answer' = [answer EXCEPT ![e] = what]

\* Mutant of AfterScope: the approval gate is asked before the budget is looked at.
AfterScopeGateFirst(e, exceeded) ==
    /\ violated' = [violated EXCEPT ![e] = exceeded]
    /\ IF at[e] < LastScope(e)
       THEN at' = [at EXCEPT ![e] = @ + 1] /\ Goto(e, "policy")
       ELSE /\ UNCHANGED at
            /\ IF ~AutoApproved(e) THEN Goto(e, "create")
               ELSE Reply(e, IF exceeded # {} THEN "rejected" ELSE "approved")

\* The end of one turn of the loop over scopes; after the last turn
\* PolicyEvaluator.evaluate rejects, lets pass, or asks for a human.
AfterScope(e, exceeded) ==
    /\ violated' = [violated EXCEPT ![e] = exceeded]
    /\ IF at[e] < LastScope(e)
       THEN at' = [at EXCEPT ![e] = @ + 1] /\ Goto(e, "policy")
       ELSE /\ UNCHANGED at
            /\ IF exceeded # {} THEN Reply(e, "rejected")
               ELSE IF AutoApproved(e) THEN Reply(e, "approved")
               ELSE Goto(e, "create")

-----------------------------------------------------------------------------
(* POST /policy/evaluate                                                    *)

\* A caller that sends task_run_id has made the row before.
Receive(e) ==
    /\ pc[e] = "idle"
    /\ request[e].has_run => run[e] = "pending"
    /\ Cardinality(Granting) < MaxGrants
    /\ Goto(e, "policy")
    /\ UNCHANGED <<request, at, asOf, spend, violated, decision, gates, runs, today>>

\* fetch_budget_policy; evaluation_date is read before the next query is sent.
FetchPolicy(e) ==
    /\ pc[e] = "policy"
    /\ \/ Applicable(e) = {} /\ AfterScope(e, violated[e]) /\ UNCHANGED asOf
       \/ /\ Applicable(e) # {}
          /\ Goto(e, "spend")
          /\ asOf' = [asOf EXCEPT ![e] = today]
          /\ UNCHANGED <<at, violated>>
    /\ UNCHANGED <<request, spend, decision, gates, runs, today>>

ReadSpend(e) ==
    /\ pc[e] = "spend"
    /\ \E p \in Applicable(e) : spend' = [spend EXCEPT ![e] = SpentOn(p, asOf[e])]
    /\ Goto(e, "active")
    /\ UNCHANGED <<request, at, asOf, violated, decision, gates, runs, today>>

\* Mutant of ReadActive: the flags of a scope replace those of the ones before.
ReadActiveForgetting(e) ==
    /\ pc[e] = "active"
    /\ \E p \in Applicable(e) :
        AfterScope(e, LimitsExceeded(p, e, spend[e], Cardinality(Active(p))))
    /\ UNCHANGED <<request, asOf, spend, decision, gates, runs, today>>

\* get_active_task_count, after other runs have started and ended since the
\* spend was read.
ReadActive(e) ==
    /\ pc[e] = "active"
    /\ \E p \in Applicable(e) :
        AfterScope(e, violated[e] \cup
                      LimitsExceeded(p, e, spend[e], Cardinality(Active(p))))
    /\ UNCHANGED <<request, asOf, spend, decision, gates, runs, today>>

\* A query fails: nothing catches it.
QueryFails(e) ==
    /\ pc[e] \in {"policy", "spend", "active"}
    /\ Faults \cap {"refused", "unknown"} # {}
    /\ Reply(e, "error")
    /\ UNCHANGED <<request, at, asOf, spend, violated, decision, gates, runs, today>>

\* Mutant of Create: the row is inserted with the status of automatic approvals.
CreateAutoApproved(e) ==
    /\ pc[e] = "create"
    /\ approvals' = [approvals EXCEPT ![e] = "auto_approved"]
    /\ Reply(e, "pending_approval")
    /\ UNCHANGED <<request, at, asOf, spend, violated, decision, decidedBy, runs, today>>

\* create_approval_request, always a new row, committed before the record is
\* built from it.
Create(e) ==
    /\ pc[e] = "create"
    /\ \E outcome \in Outcomes :
        /\ approvals' = IF request[e].known /\ Takes(outcome)
                        THEN [approvals EXCEPT ![e] = "pending"] ELSE approvals
        /\ IF ~request[e].known \/ outcome # "ok" \/ ~RowsValidate
           THEN Reply(e, IF outcome = "unknown" THEN "unsure" ELSE "error")
           ELSE IF request[e].room THEN Goto(e, "notify")
           ELSE Reply(e, "pending_approval")
    /\ UNCHANGED <<request, at, asOf, spend, violated, decision, decidedBy, runs, today>>

\* post_approval_request: whatever Matrix does, the answer is the same.
Notify(e) ==
    /\ pc[e] = "notify"
    /\ Reply(e, "pending_approval")
    /\ UNCHANGED <<request, at, asOf, spend, violated, decision, gates, runs, today>>

Crash(e) ==
    /\ "crash" \in Faults
    /\ pc[e] \in InFlightPoints
    /\ Reply(e, "lost")
    /\ UNCHANGED <<request, at, asOf, spend, violated, decision, gates, runs, today>>

-----------------------------------------------------------------------------
(* POST /policy/approve and POST /policy/reject                             *)

\* Mutant of Decide: the answer is sent although the row was not updated.
DecideNothing(d) ==
    LET e == ruling[d].approval IN
    /\ told[d] = "none"
    /\ told' = [told EXCEPT ![d] = IF approvals[e] = Null THEN "not_found"
                                   ELSE "recorded"]
    /\ UNCHANGED <<request, evaluation, ruling, gates, runs, today>>

\* Mutant of Decide: a second decision puts the row back to pending.
DecideToggling(d) ==
    LET e == ruling[d].approval IN
    /\ told[d] = "none"
    /\ approvals[e] # Null
    /\ approvals' = [approvals EXCEPT ![e] =
                        IF @ = "pending" THEN ruling[d].verdict ELSE "pending"]
    /\ decidedBy' = [decidedBy EXCEPT ![e] = d]
    /\ told' = [told EXCEPT ![d] = "recorded"]
    /\ UNCHANGED <<request, evaluation, ruling, runs, today>>

\* record_approval_decision: one UPDATE by id, whatever the row says already.
Decide(d) ==
    LET e == ruling[d].approval IN
    /\ told[d] = "none"
    /\ \E outcome \in Outcomes :
        LET updated == approvals[e] # Null /\ Takes(outcome) IN
        /\ approvals' = IF updated THEN [approvals EXCEPT ![e] = ruling[d].verdict]
                        ELSE approvals
        /\ decidedBy' = IF updated THEN [decidedBy EXCEPT ![e] = d] ELSE decidedBy
        /\ told' = [told EXCEPT ![d] = IF outcome # "ok" THEN "error"
                                       ELSE IF approvals[e] = Null THEN "not_found"
                                       ELSE IF RowsValidate THEN "recorded"
                                       ELSE "error"]
    /\ UNCHANGED <<request, evaluation, ruling, runs, today>>

-----------------------------------------------------------------------------
(* The Manager and the workers, outside the bridge.                         *)

\* The Manager inserts the row of a run before it asks.
MakeRow(e) ==
    /\ pc[e] = "idle" /\ run[e] = "none"
    /\ request[e].has_run
    /\ run' = [run EXCEPT ![e] = "pending"]
    /\ created' = [created EXCEPT ![e] = today]
    /\ UNCHANGED <<request, evaluation, decision, gates, cost, reopened, today>>

\* A run starts once its evaluation, or a human, let it.
StartRun(e) ==
    /\ run[e] \in {"none", "pending"}
    /\ request[e].known
    /\ answer[e] = "approved" \/ approvals[e] = "approved"
    /\ run' = [run EXCEPT ![e] = "running"]
    /\ created' = [created EXCEPT ![e] = IF run[e] = "none" THEN today ELSE @]
    /\ UNCHANGED <<request, evaluation, decision, gates, cost, reopened, today>>

\* The observability-bridge stores the terminal status of a run, before its cost
\* or, when no trace of it is known, without one ...
EndRun(e) ==
    /\ run[e] = "running"
    /\ \/ /\ Cardinality({o \in Evaluations : run[o] = "unsettled"}) < MaxUnsettled
          /\ run' = [run EXCEPT ![e] = "unsettled"]
       \/ run' = [run EXCEPT ![e] = "ended"]
    /\ UNCHANGED <<request, evaluation, decision, gates, created, cost, reopened, today>>

\* ... and its cost, whatever was estimated, whenever it has read one of Langfuse, an
\* old number after a newer one too.
RecordCost(e) ==
    /\ run[e] \in {"running", "unsettled"}
    /\ \E settles \in BOOLEAN :
        run' = [run EXCEPT ![e] = IF settles /\ @ = "unsettled" THEN "ended" ELSE @]
    /\ \E c \in 0..MaxCost : cost' = [cost EXCEPT ![e] = c]
    /\ UNCHANGED <<request, evaluation, decision, gates, created, reopened, today>>

\* An event of completion carries any status, "running" and "pending" too, and both
\* queries take the one for the other.
Reopen(e) ==
    /\ run[e] \in {"unsettled", "ended"}
    /\ reopened < MaxReopened
    /\ reopened' = reopened + 1
    /\ run' = [run EXCEPT ![e] = "running"]
    /\ UNCHANGED <<request, evaluation, decision, gates, created, cost, today>>

Midnight ==
    /\ today < MaxDay
    /\ today' = today + 1
    /\ UNCHANGED <<request, evaluation, decision, gates, runs>>

\* No caller sends another request and no one is obliged to go on.
Quiescent ==
    /\ \A e \in Evaluations : pc[e] \in {"idle", "done"}
    /\ UNCHANGED vars

Evaluate(e) ==
    \/ Receive(e) \/ FetchPolicy(e) \/ ReadSpend(e) \/ ReadActive(e)
    \/ QueryFails(e) \/ Create(e) \/ Notify(e) \/ Crash(e)

Next ==
    \/ \E e \in Evaluations : Evaluate(e) \/ MakeRow(e) \/ StartRun(e)
                              \/ EndRun(e) \/ RecordCost(e) \/ Reopen(e)
    \/ \E d \in Decisions : Decide(d)
    \/ Midnight
    \/ Quiescent

Spec == Init /\ [][Next]_vars

-----------------------------------------------------------------------------
(* Safety.                                                                  *)

Running(p) == {e \in Evaluations : run[e] = "running" /\ InScope(p, e)}

\* The bridge checks the number of active runs and reserves nothing, so the
\* limit of a scope can be overrun; by one less than the number of evaluations
\* that are between the check and the start of their run, and not by more,
\* however long approvals take and however they are decided.  With one at a
\* time the limit is never overrun, except by ended runs that an event of
\* completion made active again.
OverrunIsBounded ==
    \A p \in Policies :
        Cardinality(Running(p)) <= p.concurrency + MaxGrants - 1 + reopened

\* A run whose row is made first counts against itself, and against every other
\* evaluation.  In a scope where every row is made first the race is closed, and
\* the limit is not even reached: under a limit of 1 nothing is ever let through,
\* except again by what an event reopened.
RowsFirstNeverFillAScope ==
    \A p \in Policies :
        (\A e \in Evaluations : InScope(p, e) => request[e].has_run)
        => Cardinality(Running(p)) <= p.concurrency - 1 + reopened

\* How many runs of a day can be let through before what they cost is seen.
Unseen(p) == 2 * p.concurrency + 2 * MaxGrants - 2 + MaxUnsettled + reopened

\* What a run will cost is not known, and nothing holds it to its estimate, so what
\* is recorded of a day may pass the daily limit by any amount, but only through
\* so many runs: all the others together keep within it.  The late ones are those
\* whose cost no evaluation could have seen: active runs and ended ones whose cost
\* had not come, runs that ended between the two queries or ran again, and rows
\* made before midnight, which are checked against the next day.
SpendOverrunIsBounded ==
    \A p \in Policies, day \in 1..MaxDay :
        \E late \in SUBSET CountedOn(p, day) :
            /\ Cardinality(late) <= Unseen(p)
            /\ MapThenSumSet(LAMBDA e : cost[e], CountedOn(p, day) \ late) <= p.daily

\* Budgets come first: an approval is asked for only on behalf of an evaluation
\* that no limit in any scope stopped and that is not approved automatically, and
\* one that was rejected leaves no row behind.
GatesFollowBudgets ==
    \A e \in Evaluations :
        /\ approvals[e] # Null => violated[e] = {} /\ ~AutoApproved(e)
        /\ answer[e] = "rejected" => approvals[e] = Null

\* The documented approval matrix: the cells marked "human".
HumanCells ==
    ({"low"} \X {"high", "critical"}) \cup ({"medium"} \X {"medium", "high", "critical"})
    \cup ({"high", "critical"} \X Levels)

Started == {"running", "unsettled", "ended"}

\* A run that has started passed every budget and was let through by the
\* documented matrix or by a human's approval that took effect; a rejection that
\* comes later, or before, does not clear it.
StartedRunsWereCleared ==
    \A e \in Evaluations : run[e] \in Started =>
        /\ violated[e] = {}
        /\ <<request[e].approval_policy, request[e].risk_level>> \in HumanCells =>
               \E d \in Decisions : /\ ruling[d] = [approval |-> e, verdict |-> "approved"]
                                    /\ told[d] \in {"recorded", "error"}

\* A caller who was told of a pending approval, or that its decision was
\* recorded, can find the row, and a row that is not pending names a request
\* that decided just that.
AnsweredGatesAreDurable ==
    /\ \A e \in Evaluations :
        answer[e] = "pending_approval" => approvals[e] # Null
    /\ \A d \in Decisions :
        told[d] = "recorded" => approvals[ruling[d].approval] \in {"approved", "rejected"}
    /\ \A e \in Evaluations :
        approvals[e] \in {"approved", "rejected"} =>
            /\ decidedBy[e] # Null
            /\ ruling[decidedBy[e]] = [approval |-> e, verdict |-> approvals[e]]

\* A decided row never becomes pending again, and changes only by a request
\* that names it.
DecidedStaysDecided ==
    [][\A e \in Evaluations :
        approvals[e] \in {"approved", "rejected"} /\ approvals'[e] # approvals[e] =>
            /\ approvals'[e] \in {"approved", "rejected"}
            /\ \E d \in Decisions : ruling[d].approval = e /\ told'[d] # told[d]]_vars

(* The inductive strengthening, proved in PolicyProofs.                      *)

LoopPoints == {"policy", "spend", "active"}

\* What each point of the handler implies.
EvaluationInv(e) ==
    /\ answer[e] = "none" <=> pc[e] # "done"
    /\ pc[e] = "idle" => at[e] = 1
    /\ at[e] <= LastScope(e)
    /\ pc[e] \in {"create", "notify"} => violated[e] = {} /\ ~AutoApproved(e)
    /\ pc[e] = "notify" => approvals[e] # Null /\ RowsValidate
    /\ approvals[e] # Null => pc[e] \in {"notify", "done"}
    /\ approvals[e] # Null => violated[e] = {} /\ ~AutoApproved(e)
    /\ answer[e] = "approved" => violated[e] = {} /\ AutoApproved(e)
    /\ answer[e] = "rejected" => approvals[e] = Null
    /\ request[e].has_run /\ pc[e] # "idle" => run[e] # "none"
    /\ run[e] \in Started => pc[e] \in {"notify", "done"}

Position == [global |-> 1, workspace |-> 2, work_item_kind |-> 3, agent_profile |-> 4]

\* The active runs of p have been counted for e.
Counted(p, e) == at[e] > Position[p.type] \/ pc[e] \notin LoopPoints \cup {"idle"}

\* The places of p that are taken: by a run, or by an evaluation that was let
\* past p and whose run may start.
Held(p) ==
    {e \in Evaluations :
        /\ InScope(p, e)
        /\ \/ run[e] = "running"
           \/ e \in Granting /\ Counted(p, e) /\ violated[e] = {}}

HeldIsBounded ==
    \A p \in Policies :
        /\ Cardinality(Held(p)) <= p.concurrency + MaxGrants - 1 + reopened
        /\ (\A e \in Evaluations : InScope(p, e) => request[e].has_run)
               => Cardinality(Held(p)) <= p.concurrency - 1 + reopened

PolicyInv ==
    /\ ControlTypeOK
    /\ \A e \in Evaluations : EvaluationInv(e)
    /\ Cardinality(Granting) <= MaxGrants
    /\ HeldIsBounded

(* What a document says; the code does it only when RowsValidate.            *)

\* "human means the Policy Bridge creates a row in clawcluster.approvals and
\* returns decision=pending_approval": unless an answer of the database was lost,
\* or the process stopped, a row is never left behind an error, whatever Matrix
\* does.
HumanGateIsAnswered ==
    \A e \in Evaluations :
        pc[e] = "done" /\ approvals[e] # Null =>
            answer[e] \in {"pending_approval", "unsure", "lost"}

=============================================================================
