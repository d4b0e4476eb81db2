------------------------------ MODULE Governance ------------------------------
(***************************************************************************)
(* The policy-bridge and the observability-bridge over the one table they  *)
(* share.  The policy-bridge counts rows of clawcluster.task_runs and sums *)
(* their cost_usd; the observability-bridge stores in them how runs ended  *)
(* and what they cost.  Neither calls the other or locks anything.         *)
(*                                                                         *)
(* PolicyBridge lets the status and the cost of a run change as its        *)
(* environment likes, within limits.  Here both are columns of the rows    *)
(* that TaskRuns writes, and PolicySpec says that the limits are kept.     *)
(***************************************************************************)
EXTENDS FiniteSets, FiniteSetsExt, Integers

CONSTANTS
    Evaluations,     \* evaluations, and the runs they are for
    RowsFirst,       \* the runs whose row is made before they are asked for
    Decisions, ScopeIds, Requests, Policies, RowsValidate,
    PolicyFaults,    \* what may happen to the policy-bridge
    Posts, Traces, Completions, GraphitiEnabled, MaxInFlight,
    LinkFaults,      \* what may happen to the observability-bridge
    MaxGrants, MaxUnsettled, MaxReopened, MaxDay,
    MaxRepeats,      \* bound on the requests about a run that is reported on already
    MaxCost,         \* bound on what Langfuse ingests of a run, and on what runs cost
    Null

VARIABLES
    \* of the policy-bridge
    asked, stage, at, asOf, spend, violated, answer, ruling, told, approvals, decidedBy,
    \* of clawcluster.task_runs
    row, created, reopened, today,
    \* of the observability-bridge
    posted, point, target, reading, flags, reported, ingested, episodes, before, known

policy == <<asked, stage, at, asOf, spend, violated, answer, ruling, told, approvals,
            decidedBy>>
observer == <<posted, point, target, reading, flags, reported, ingested, episodes,
              before, known>>
vars == <<policy, row, created, reopened, today, observer>>

\* Some request about run e has not been answered yet.
IsAwaited(e) == \E q \in Posts : posted[q].run = e /\ point[q] # "done"

\* The statuses that both queries of the policy-bridge take for an active run.
ActiveStatuses == {"pending", "running"}

\* The status by which the policy-bridge counts run e; a completion that says
\* "pending" leaves a run active that was started.
RunOf ==
    [e \in Evaluations |->
        IF row[e] = Null THEN "none"
        ELSE IF row[e].status = "pending" /\ ~row[e].ended THEN "pending"
        ELSE IF row[e].status \in ActiveStatuses THEN "running"
        ELSE IF IsAwaited(e) THEN "unsettled" ELSE "ended"]

\* The cost that it adds up.
CostOf ==
    [e \in Evaluations |-> IF row[e] = Null \/ row[e].cost = Null THEN 0 ELSE row[e].cost]

Policy == INSTANCE PolicyBridge WITH
    Faults <- PolicyFaults, request <- asked, pc <- stage, run <- RunOf, cost <- CostOf

Obs == INSTANCE TaskRuns WITH
    Runs <- Evaluations, Requests <- Completions, Faults <- LinkFaults,
    request <- posted, pc <- point, answer <- reported, cost <- ingested

ASSUME RowsAssumption == RowsFirst \subseteq Evaluations

\* The constants are such as the observability-bridge assumes, and there are finitely
\* many requests.
ASSUME PartsAssumption ==
    /\ Obs!RequestsAssumption /\ Obs!FaultsAssumption /\ Obs!ConstantsAssumption
    /\ IsFiniteSet(Posts)

\* The constants are such as the policy-bridge assumes.
ASSUME PolicyAssumption ==
    /\ Policy!RequestsAssumption /\ Policy!RunsAssumption /\ Policy!ScopesAssumption
    /\ Policy!PoliciesAssumption /\ Policy!FaultsAssumption /\ Policy!BoundsAssumption
    /\ Policy!NullAssumption /\ Policy!FiniteAssumption

IsReopening(q) == posted[q].kind = "complete" /\ posted[q].status \in ActiveStatuses

Init ==
    /\ Obs!Init /\ Policy!Init
    /\ \A e \in Evaluations : asked[e].has_run = (e \in RowsFirst)
    /\ Cardinality(Posts) - Cardinality({posted[q].run : q \in Posts}) <= MaxRepeats
    /\ Cardinality({q \in Posts : IsReopening(q)}) <= MaxReopened

-----------------------------------------------------------------------------

\* A step of a handler of the policy-bridge, or midnight.
PolicyStep ==
    /\ UNCHANGED <<row, created, reopened, observer>>
    /\ \/ \E e \in Evaluations : Policy!Evaluate(e)
       \/ \E d \in Decisions : Policy!Decide(d)
       \/ Policy!Midnight

\* The Manager inserts the row of a run before it asks ...
MakeRow(e) == Obs!Insert(e, FALSE) /\ Policy!MakeRow(e)

\* ... and starts it, or inserts a row that is started, when it was let to.
StartRun(e) == (Obs!Start(e) \/ Obs!Insert(e, TRUE)) /\ Policy!StartRun(e)

\* The runs whose completion is on its way, or whose cost is.
Ending ==
    {e \in Evaluations :
        \/ RunOf[e] = "unsettled"
        \/ \E q \in Posts : /\ posted[q].run = e /\ posted[q].kind = "complete"
                            /\ point[q] \in Obs!InFlightPoints}

\* Only a run that was started is reported on.
MayArrive(q) ==
    /\ RunOf[posted[q].run] \in Policy!Started
    /\ posted[q].kind = "complete" => Cardinality(Ending \cup {posted[q].run}) <= MaxUnsettled

\* A step of a handler of the observability-bridge.
ObsStep(q) ==
    /\ point[q] = "idle" => MayArrive(q)
    /\ Obs!Step(q)
    /\ UNCHANGED <<policy, created, today>>
    /\ LET revived == {e \in Evaluations : /\ RunOf[e] \in {"unsettled", "ended"}
                                           /\ RunOf'[e] = "running"}
       IN  reopened' = reopened + Cardinality(revived)

Ingest == Obs!Ingest /\ UNCHANGED <<policy, created, reopened, today>>

\* Nobody has anything left to do that it must.
Quiescent ==
    /\ \A e \in Evaluations : stage[e] \in {"idle", "done"}
    /\ \A q \in Posts : point[q] \in {"idle", "done"}
    /\ UNCHANGED vars

Next ==
    \/ PolicyStep
    \/ \E e \in Evaluations : MakeRow(e) \/ StartRun(e)
    \/ \E q \in Posts : ObsStep(q)
    \/ Ingest
    \/ Quiescent

Spec == Init /\ [][Next]_vars

-----------------------------------------------------------------------------
(* What the two promise together.                                           *)

\* The policy-bridge over the rows the observability-bridge writes behaves as
\* PolicyBridge says of any environment: whatever is linked, synchronized or
\* completed, in any order, a run ends at most once for each time it was started
\* or called running, only the run that a request names changes, and its cost is
\* one that Langfuse knew of.
PolicySpec == Policy!Spec

\* So what is reported of a day passes the daily limit, by whatever amount, only
\* through the runs that were not reported yet when the last one was let through.
SpendOverrunIsBounded == Policy!SpendOverrunIsBounded

\* The requests about run e whose caller was told that its cost is stored, and
\* that no other request about e overlapped.
ToldOf(e) ==
    {q \in Posts :
        /\ posted[q].run = e /\ reported[q] = "200"
        /\ "trace_synced" \in flags[q] /\ reading[q] # Null
        /\ \A o \in Posts \ {q} : posted[o].run = e => ~Obs!Overlap(q, o)}

\* What the callers of /trace/sync and /event/complete were told is stored of a run.
ReportedCost == [e \in Evaluations |-> Max({0} \cup {reading[q] : q \in ToldOf(e)})]

\* A cost that was reported as stored is in the sum of every evaluation of that
\* day that reads it afterwards, whether the run has ended, runs again or was
\* synchronized while running; only a request that overlapped may hide it.
ReportedCostsAreSpent ==
    [][\A e \in Evaluations : stage[e] = "spend" /\ stage'[e] = "active" =>
          \A p \in Policy!Applicable(e) :
              spend'[e] >= MapThenSumSet(LAMBDA r : ReportedCost[r],
                              {r \in Evaluations : /\ row[r] # Null /\ created[r] = asOf[e]
                                                   /\ Policy!InScope(p, r)})]_vars

=============================================================================
