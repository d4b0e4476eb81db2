--------------------------- MODULE GovernanceProofs ---------------------------
(***************************************************************************)
(* The rows that the observability-bridge writes are an environment of the *)
(* policy-bridge such as PolicyBridge assumes, for every number of runs    *)
(* and requests: Governance implements PolicyBridge, so its limits are     *)
(* kept.  And what their callers are told of costs is in its sums.  It     *)
(* implements TaskRuns, too, so what that promises of rows is kept.        *)
(***************************************************************************)
EXTENDS Governance, SumProofs, FiniteSetTheorems, TLAPS

Costs == 0..MaxCost

\* Where the handlers of the observability-bridge are, and what the rows hold.
ObsTypeOK ==
    /\ posted \in [Posts -> Completions]
    /\ point \in [Posts -> Obs!InFlightPoints \cup {"idle", "done"}]
    /\ target \in [Posts -> Traces \cup {Null}]
    /\ reading \in [Posts -> Costs \cup {Null}]
    /\ ingested \in Costs
    /\ row \in [Evaluations -> Obs!RowType \cup {Null}]
    /\ \A e \in Evaluations : row[e] # Null => row[e].cost \in Costs \cup {Null}
    /\ asked \in [Evaluations -> Requests]
    /\ reopened \in Nat

\* The row of r is not one that waits to be started, and it counts as active.
WasStarted(r) == row[r] # Null /\ ~(row[r].status = "pending" /\ ~row[r].ended)
IsActive(r) == row[r].status \in ActiveStatuses

\* Only what was started is reported on, and only completions are stored as such.
ReportInv ==
    \A q \in Posts :
        /\ point[q] # "idle" => WasStarted(posted[q].run)
        /\ point[q] = "complete" => posted[q].kind = "complete"

Reopening == {q \in Posts : IsReopening(q)}

\* Those that were stored, or will not be.
Reopened == {q \in Reopening : point[q] \notin {"idle", "complete"}}

BoundsInv ==
    /\ Cardinality(Ending) <= MaxUnsettled
    /\ Cardinality(Reopening) <= MaxReopened
    /\ reopened <= Cardinality(Reopened)

GovInv == ObsTypeOK /\ ReportInv /\ BoundsInv

\* What the proofs need of the constants of the policy-bridge.
LEMMA PolicyConstants ==
    /\ Requests \subseteq Policy!RequestType /\ IsFiniteSet(Evaluations)
    /\ MaxUnsettled \in Nat /\ MaxReopened \in Nat
    /\ \A p, q \in Policies : p.type = q.type /\ p.id = q.id => p = q
  BY PolicyAssumption DEF IsFiniteSet, Policy!IsFiniteSet

-----------------------------------------------------------------------------
(* What a step of the observability-bridge changes.                         *)

LEMMA BodyFields ==
    ASSUME ObsTypeOK, NEW q \in Posts
    PROVE  /\ posted[q].run \in Evaluations
           /\ posted[q].trace \in Traces \cup {Null}
           /\ posted[q].status \in Obs!RunStatuses
           /\ posted[q].kind \in {"link", "sync", "complete"}
  <1>1. posted[q] \in Completions /\ posted[q] \in Obs!RequestType
    BY PartsAssumption DEF ObsTypeOK
  <1> QED
    BY <1>1 DEF Obs!RequestType

Linked(q) == [Obs!OldRow(q) EXCEPT !.trace = posted[q].trace]
Synced(q) == [Obs!OldRow(q) EXCEPT !.trace = target[q], !.cost = Obs!Coalesce(reading[q], @)]
Completed(q) ==
    [Obs!OldRow(q) EXCEPT !.status = posted[q].status, !.ended = TRUE,
                          !.summary = IF posted[q].summary THEN q ELSE @,
                          !.error = IF posted[q].error THEN q ELSE @,
                          !.trace = Obs!Coalesce(posted[q].trace, @)]

LEMMA OldColumns ==
    ASSUME ObsTypeOK, NEW q \in Posts, Obs!Exists(q)
    PROVE  Obs!OldRow(q) \in Obs!RowType /\ Obs!OldRow(q).cost \in Costs \cup {Null}
  BY BodyFields DEF Obs!OldRow, Obs!Exists, ObsTypeOK

\* A link and a synchronization leave the status, a completion leaves the cost.
LEMMA LinkedColumns ==
    ASSUME ObsTypeOK, NEW q \in Posts, Obs!Exists(q)
    PROVE  /\ Linked(q) \in Obs!RowType
           /\ Linked(q).status = Obs!OldRow(q).status
           /\ Linked(q).ended = Obs!OldRow(q).ended
           /\ Linked(q).cost = Obs!OldRow(q).cost
  BY OldColumns, BodyFields DEF Linked, Obs!RowType

LEMMA SyncedColumns ==
    ASSUME ObsTypeOK, NEW q \in Posts, Obs!Exists(q)
    PROVE  /\ Synced(q) \in Obs!RowType
           /\ Synced(q).status = Obs!OldRow(q).status
           /\ Synced(q).ended = Obs!OldRow(q).ended
           /\ Synced(q).cost \in Costs \cup {Null}
  <1>1. target[q] \in Traces \cup {Null} /\ reading[q] \in Costs \cup {Null}
    BY DEF ObsTypeOK
  <1>2. \A c \in Costs : c \in Nat
    BY PartsAssumption DEF Costs
  <1> QED
    BY <1>1, <1>2, OldColumns DEF Synced, Obs!RowType, Obs!Coalesce

LEMMA CompletedColumns ==
    ASSUME ObsTypeOK, NEW q \in Posts, Obs!Exists(q)
    PROVE  /\ Completed(q) \in Obs!RowType
           /\ Completed(q).status = posted[q].status /\ Completed(q).ended
           /\ Completed(q).cost = Obs!OldRow(q).cost
  <1>1. Obs!OldRow(q) \in Obs!RowType
    BY OldColumns
  <1>2. posted[q].status \in Obs!RunStatuses /\ posted[q].trace \in Traces \cup {Null}
    BY BodyFields
  <1>3. Completed(q).trace = Obs!Coalesce(posted[q].trace, Obs!OldRow(q).trace)
    BY <1>1 DEF Completed, Obs!RowType
  <1>4. Obs!Coalesce(posted[q].trace, Obs!OldRow(q).trace) \in Traces \cup {Null}
    BY <1>1, <1>2 DEF Obs!Coalesce, Obs!RowType
  <1>5. /\ Completed(q).cost = Obs!OldRow(q).cost
        /\ Completed(q).status = posted[q].status /\ Completed(q).ended
    BY <1>1 DEF Completed, Obs!RowType
  <1> QED
    BY <1>1, <1>2, <1>3, <1>4, <1>5, ZenonT(60) DEF Completed, Obs!RowType

\* An UPDATE changes one row, if there is one.
LEMMA RowStep ==
    ASSUME ObsTypeOK, NEW q \in Posts, Obs!Step(q)
    PROVE  \/ row' = row
           \/ /\ Obs!Exists(q) /\ point[q] = "link"
              /\ row' = [row EXCEPT ![posted[q].run] = Linked(q)]
           \/ /\ Obs!Exists(q) /\ point[q] = "store"
              /\ row' = [row EXCEPT ![posted[q].run] = Synced(q)]
           \/ /\ Obs!Exists(q) /\ point[q] = "complete"
              /\ row' = [row EXCEPT ![posted[q].run] = Completed(q)]
  <1>1. CASE Obs!Link(q)
    BY <1>1 DEF Obs!Link, Obs!Update, Linked
  <1>2. CASE Obs!Store(q)
    BY <1>2 DEF Obs!Store, Obs!Update, Synced
  <1>3. CASE Obs!Complete(q)
    BY <1>3 DEF Obs!Complete, Obs!Update, Completed
  <1>4. CASE Obs!Receive(q) \/ Obs!ReadTrace(q) \/ Obs!Fetch(q) \/ Obs!Graphiti(q) \/ Obs!Crash(q)
    BY <1>4 DEF Obs!Receive, Obs!ReadTrace, Obs!Fetch, Obs!Graphiti, Obs!Crash
  <1> QED
    BY <1>1, <1>2, <1>3, <1>4 DEF Obs!Step

\* The rest of what the step of a handler changes.
LEMMA HandlerStep ==
    ASSUME ObsTypeOK, NEW q \in Posts, Obs!Step(q)
    PROVE  /\ posted' = posted /\ ingested' = ingested
           /\ target' \in [Posts -> Traces \cup {Null}]
           /\ reading' \in [Posts -> Costs \cup {Null}]
           /\ point[q] # "done" /\ point'[q] # "idle"
           /\ point' \in [Posts -> Obs!InFlightPoints \cup {"idle", "done"}]
           /\ \A o \in Posts \ {q} : point'[o] = point[o]
           /\ point[q] = "idle" => row' = row /\ point'[q] # "done"
           /\ point'[q] = "complete" => point[q] = "idle" /\ posted[q].kind = "complete"
  <1> USE DEF ObsTypeOK, Obs!InFlightPoints, Obs!Goto, Obs!Reply, Obs!AfterSync
  <1>0. posted[q].trace \in Traces \cup {Null}
        /\ posted[q].kind \in {"link", "sync", "complete"}
    BY BodyFields
  <1>1. CASE Obs!Receive(q)
    <2>1. PICK x \in {"link", "complete", "fetch", "read_trace"} :
              /\ point' = [point EXCEPT ![q] = x]
              /\ x = "complete" => posted[q].kind = "complete"
      <3>1. CASE posted[q].kind = "link"
        BY <1>1, <3>1 DEF Obs!Receive
      <3>2. CASE posted[q].kind = "complete"
        BY <1>1, <3>2 DEF Obs!Receive
      <3>3. CASE posted[q].kind = "sync"
        BY <1>1, <3>3 DEF Obs!Receive
      <3> QED
        BY <1>0, <3>1, <3>2, <3>3
    <2> QED
      BY <1>0, <1>1, <2>1 DEF Obs!Receive, Obs!world
  <1>2. CASE Obs!Link(q)
    BY <1>2 DEF Obs!Link, Obs!handler, Obs!world
  <1>3. CASE Obs!ReadTrace(q)
    <2>1. Obs!IsLinked(q) => Obs!OldRow(q).trace \in Traces \cup {Null}
      BY OldColumns DEF Obs!IsLinked, Obs!RowType
    <2> QED
      BY <1>3, <2>1 DEF Obs!ReadTrace, Obs!world
  <1>4. CASE Obs!Fetch(q)
    BY <1>4 DEF Obs!Fetch, Obs!world
  <1>5. CASE Obs!Store(q)
    BY <1>5 DEF Obs!Store, Obs!world
  <1>6. CASE Obs!Complete(q)
    <2>1. target' \in [Posts -> Traces \cup {Null}]
      <3>1. CASE target' = target
        BY <3>1
      <3>2. CASE target' # target
        <4>1. Obs!Exists(q) /\ target' = [target EXCEPT ![q] = Completed(q).trace]
          BY <1>6, <3>2 DEF Obs!Complete, Completed
        <4>2. Completed(q).trace \in Traces \cup {Null}
          BY <4>1, CompletedColumns DEF Obs!RowType
        <4> QED
          BY <4>1, <4>2
      <3> QED
        BY <3>1, <3>2
    <2>2. /\ posted' = posted /\ ingested' = ingested /\ reading' = reading
          /\ point[q] = "complete"
      BY <1>6 DEF Obs!Complete, Obs!world
    <2>3. \E x \in {"fetch", "graphiti", "done"} : point' = [point EXCEPT ![q] = x]
      BY <1>6 DEF Obs!Complete
    <2> QED
      BY <2>1, <2>2, <2>3
  <1>7. CASE Obs!Graphiti(q)
    BY <1>7 DEF Obs!Graphiti
  <1>8. CASE Obs!Crash(q)
    BY <1>8 DEF Obs!Crash, Obs!handler, Obs!world
  <1> QED
    BY <1>1, <1>2, <1>3, <1>4, <1>5, <1>6, <1>7, <1>8 DEF Obs!Step

-----------------------------------------------------------------------------
(* How the policy-bridge sees it.                                           *)

\* The row of the run a request is about.
LEMMA RunRow ==
    ASSUME ObsTypeOK, ReportInv, NEW q \in Posts, Obs!Step(q), NEW r, r = posted[q].run
    PROVE  /\ r \in Evaluations
           /\ row' \in [Evaluations -> Obs!RowType \cup {Null}]
           /\ \A e \in Evaluations \ {r} : row'[e] = row[e]
           /\ \A e \in Evaluations : row'[e] # Null => row'[e].cost \in Costs \cup {Null}
           /\ row[r] = Null <=> row'[r] = Null
           /\ row[r] # Null =>
                \/ row'[r] = row[r]
                \/ /\ row'[r].status = row[r].status /\ row'[r].ended = row[r].ended
                   /\ point[q] \in {"link", "store"}
                \/ /\ row'[r].status = posted[q].status /\ row'[r].ended
                   /\ point[q] = "complete" /\ row'[r].cost = row[r].cost
  <1>1. r \in Evaluations /\ row \in [Evaluations -> Obs!RowType \cup {Null}]
        /\ \A e \in Evaluations : row[e] # Null => row[e].cost \in Costs \cup {Null}
    BY BodyFields DEF ObsTypeOK
  <1>2. Null \notin Obs!RowType
    BY PartsAssumption
  <1>3. CASE row' = row
    BY <1>1, <1>3
  <1>4. ASSUME NEW new, Obs!Exists(q), row' = [row EXCEPT ![r] = new],
               new \in Obs!RowType, new.cost \in Costs \cup {Null}
        PROVE  /\ row' \in [Evaluations -> Obs!RowType \cup {Null}]
               /\ \A e \in Evaluations \ {r} : row'[e] = row[e]
               /\ \A e \in Evaluations : row'[e] # Null => row'[e].cost \in Costs \cup {Null}
               /\ row[r] # Null /\ row'[r] # Null /\ row'[r] = new
    BY <1>1, <1>2, <1>4 DEF Obs!Exists
  <1>5. row[r] = Obs!OldRow(q)
    BY DEF Obs!OldRow
  <1>6. CASE /\ Obs!Exists(q) /\ point[q] = "link"
             /\ row' = [row EXCEPT ![posted[q].run] = Linked(q)]
    <2>1. /\ Linked(q) \in Obs!RowType /\ Linked(q).cost \in Costs \cup {Null}
          /\ Linked(q).status = row[r].status /\ Linked(q).ended = row[r].ended
      BY <1>5, <1>6, LinkedColumns, OldColumns
    <2> QED
      BY <1>1, <1>4, <1>6, <2>1
  <1>7. CASE /\ Obs!Exists(q) /\ point[q] = "store"
             /\ row' = [row EXCEPT ![posted[q].run] = Synced(q)]
    <2>1. /\ Synced(q) \in Obs!RowType /\ Synced(q).cost \in Costs \cup {Null}
          /\ Synced(q).status = row[r].status /\ Synced(q).ended = row[r].ended
      BY <1>5, <1>7, SyncedColumns
    <2> QED
      BY <1>1, <1>4, <1>7, <2>1
  <1>8. CASE /\ Obs!Exists(q) /\ point[q] = "complete"
             /\ row' = [row EXCEPT ![posted[q].run] = Completed(q)]
    <2>1. /\ Completed(q) \in Obs!RowType /\ Completed(q).cost \in Costs \cup {Null}
          /\ Completed(q).status = posted[q].status /\ Completed(q).ended
          /\ Completed(q).cost = row[r].cost
      BY <1>5, <1>8, CompletedColumns, OldColumns
    <2> QED
      BY <1>1, <1>4, <1>8, <2>1
  <1> QED
    BY <1>3, <1>6, <1>7, <1>8, RowStep

\* A request that arrived is about a run that was started, and awaited.
LEMMA ArrivedRun ==
    ASSUME ObsTypeOK, ReportInv, NEW q \in Posts, Obs!Step(q), point[q] # "idle",
           NEW r, r = posted[q].run
    PROVE  /\ r \in Evaluations
           /\ row'[r] # Null /\ WasStarted(r)'
           /\ RunOf[r] = IF IsActive(r) THEN "running" ELSE "unsettled"
           /\ IsActive(r)' => RunOf'[r] = "running"
           /\ ~IsActive(r)' => RunOf'[r] \in {"unsettled", "ended"}
           /\ \A e \in Evaluations \ {r} : RunOf'[e] = RunOf[e] /\ CostOf'[e] = CostOf[e]
           /\ row'[r].cost = row[r].cost => CostOf'[r] = CostOf[r]
           /\ CostOf'[r] \in Costs
  <1>1. r \in Evaluations /\ row[r] # Null /\ WasStarted(r)
    BY BodyFields DEF ReportInv, WasStarted
  <1>2. row'[r] # Null /\ WasStarted(r)'
    BY <1>1, RunRow DEF WasStarted
  <1>3. IsAwaited(r)
    BY HandlerStep DEF IsAwaited
  <1>4. \A e \in Evaluations \ {r} : row'[e] = row[e]
    BY RunRow
  <1>5. \A e \in Evaluations \ {r} : IsAwaited(e)' <=> IsAwaited(e)
    BY HandlerStep DEF IsAwaited
  <1>6. \A e \in Evaluations \ {r} : RunOf'[e] = RunOf[e] /\ CostOf'[e] = CostOf[e]
    BY <1>4, <1>5 DEF RunOf, CostOf
  <1>7. RunOf[r] = IF IsActive(r) THEN "running" ELSE "unsettled"
    BY <1>1, <1>3 DEF RunOf, WasStarted, IsActive
  <1>8. /\ IsActive(r)' => RunOf'[r] = "running"
        /\ ~IsActive(r)' => RunOf'[r] \in {"unsettled", "ended"}
    BY <1>1, <1>2 DEF RunOf, WasStarted, IsActive
  <1>9. row'[r].cost = row[r].cost => CostOf'[r] = CostOf[r]
    BY <1>1, <1>2 DEF CostOf
  <1>10. CostOf'[r] \in Costs
    <2>1. row'[r].cost \in Costs \cup {Null} /\ 0 \in Costs
      BY <1>1, <1>2, RunRow, PartsAssumption DEF Costs
    <2> QED
      BY <1>1, <2>1 DEF CostOf
  <1> QED
    BY <1>1, <1>2, <1>6, <1>7, <1>8, <1>9, <1>10

\* A request that arrives changes nothing for the policy-bridge.
LEMMA ArrivalIsUnseen ==
    ASSUME ObsTypeOK, NEW q \in Posts, Obs!Step(q), point[q] = "idle"
    PROVE  RunOf' = RunOf /\ CostOf' = CostOf
  <1>1. row' = row /\ posted' = posted /\ point'[q] # "done"
        /\ \A o \in Posts \ {q} : point'[o] = point[o]
    BY HandlerStep
  <1>2. \A e \in Evaluations : IsAwaited(e)' <=> IsAwaited(e)
    BY <1>1 DEF IsAwaited
  <1>3. RunOf' = RunOf
    BY <1>1, <1>2 DEF RunOf
  <1> QED
    BY <1>1, <1>3 DEF CostOf

-----------------------------------------------------------------------------
(* The bounds of the environment.                                           *)

LEMMA Counts ==
    ASSUME NEW S \in SUBSET Evaluations, NEW T \in SUBSET S
    PROVE  Cardinality(T) <= Cardinality(S) /\ Cardinality(T) \in Nat /\ Cardinality(S) \in Nat
  <1>1. IsFiniteSet(S)
    BY PolicyConstants, FS_Subset
  <1> QED
    BY <1>1, FS_Subset, FS_CardinalityType

LEMMA PostCounts ==
    ASSUME NEW S \in SUBSET Posts, NEW T \in SUBSET S
    PROVE  Cardinality(T) <= Cardinality(S) /\ Cardinality(T) \in Nat /\ Cardinality(S) \in Nat
  <1>1. IsFiniteSet(S)
    BY PolicyConstants, PartsAssumption, FS_Subset
  <1> QED
    BY <1>1, FS_Subset, FS_CardinalityType

Unsettled == {e \in Evaluations : RunOf[e] = "unsettled"}

\* A run that is about to end without its cost has a place among those that may.
LEMMA PlaceToEnd ==
    ASSUME GovInv, NEW q \in Posts, point[q] = "complete", NEW r, r = posted[q].run,
           RunOf[r] # "unsettled"
    PROVE  Cardinality(Unsettled) < MaxUnsettled
  <1>1. r \in Evaluations /\ posted[q].kind = "complete"
    BY BodyFields DEF GovInv, ReportInv
  <1>2. r \in Ending
    BY <1>1 DEF Ending, Obs!InFlightPoints
  <1>3. Unsettled \cup {r} \subseteq Ending /\ Ending \subseteq Evaluations
    BY <1>1, <1>2 DEF Unsettled, Ending
  <1>4. Cardinality(Unsettled \cup {r}) <= Cardinality(Ending)
        /\ Cardinality(Ending) \in Nat
    BY <1>3, Counts
  <1>5. IsFiniteSet(Unsettled) /\ r \notin Unsettled
    BY PolicyConstants, FS_Subset DEF Unsettled
  <1>6. Cardinality(Unsettled \cup {r}) = Cardinality(Unsettled) + 1
        /\ Cardinality(Unsettled) \in Nat
    BY <1>5, FS_AddElement, FS_CardinalityType
  <1> QED
    BY <1>4, <1>6, PartsAssumption, PolicyConstants DEF GovInv, BoundsInv

\* A run that is about to be called running again has a place among those that may.
LEMMA PlaceToReopen ==
    ASSUME GovInv, NEW q \in Posts, point[q] = "complete", posted[q].status \in ActiveStatuses
    PROVE  /\ reopened < MaxReopened
           /\ q \in Reopening /\ q \notin Reopened
           /\ Cardinality(Reopened \cup {q}) = Cardinality(Reopened) + 1
           /\ reopened + 1 <= Cardinality(Reopened \cup {q})
  <1>1. q \in Reopening /\ q \notin Reopened
    BY DEF GovInv, ReportInv, Reopening, Reopened, IsReopening
  <1>2. Reopened \cup {q} \subseteq Reopening /\ Reopening \subseteq Posts
    BY <1>1 DEF Reopened, Reopening
  <1>3. Cardinality(Reopened \cup {q}) <= Cardinality(Reopening)
        /\ Cardinality(Reopening) \in Nat
    BY <1>2, PostCounts
  <1>4. IsFiniteSet(Reopened)
    BY <1>2, PolicyConstants, PartsAssumption, FS_Subset
  <1>5. Cardinality(Reopened \cup {q}) = Cardinality(Reopened) + 1
        /\ Cardinality(Reopened) \in Nat
    BY <1>1, <1>4, FS_AddElement, FS_CardinalityType
  <1>6. /\ reopened \in Nat /\ reopened <= Cardinality(Reopened)
        /\ Cardinality(Reopening) <= MaxReopened /\ MaxReopened \in Nat
    BY PartsAssumption, PolicyConstants DEF GovInv, ObsTypeOK, BoundsInv
  <1> QED
    BY <1>1, <1>3, <1>5, <1>6

\* The runs that a step calls running again.
Revived ==
    {e \in Evaluations : RunOf[e] \in {"unsettled", "ended"} /\ RunOf'[e] = "running"}

LEMMA ReopenedStep ==
    ASSUME GovInv, NEW q \in Posts, ObsStep(q)
    PROVE  /\ Obs!Step(q) /\ UNCHANGED <<policy, created, today>>
           /\ Revived = {} => reopened' = reopened
           /\ \A r : Revived = {r} => reopened' = reopened + 1
  <1>1. reopened' = reopened + Cardinality(Revived)
    BY DEF ObsStep, Revived
  <1>2. Cardinality({}) = 0 /\ \A r : Cardinality({r}) = 1
    BY FS_EmptySet, FS_Singleton
  <1>3. reopened \in Nat
    BY DEF GovInv, ObsTypeOK
  <1>4. Obs!Step(q) /\ UNCHANGED <<policy, created, today>>
    BY DEF ObsStep
  <1>5. Revived = {} => reopened' = reopened
    BY <1>1, <1>2, <1>3
  <1>6. \A r : Revived = {r} => reopened' = reopened + 1
    BY <1>1, <1>2
  <1> QED
    BY <1>4, <1>5, <1>6

\* One run changes, and its cost.
LEMMA RunChange ==
    ASSUME NEW r \in Evaluations,
           \A e \in Evaluations \ {r} : RunOf'[e] = RunOf[e] /\ CostOf'[e] = CostOf[e]
    PROVE  /\ RunOf' = [RunOf EXCEPT ![r] = RunOf'[r]]
           /\ CostOf' = [CostOf EXCEPT ![r] = CostOf'[r]]
           /\ RunOf'[r] # "running" \/ RunOf[r] = "running" => Revived = {}
           /\ RunOf'[r] = "running" /\ RunOf[r] = "unsettled" => Revived = {r}
  <1>1. DOMAIN RunOf = Evaluations /\ RunOf = [e \in Evaluations |-> RunOf[e]]
        /\ RunOf' = [e \in Evaluations |-> RunOf'[e]]
    BY DEF RunOf
  <1>2. DOMAIN CostOf = Evaluations /\ CostOf = [e \in Evaluations |-> CostOf[e]]
        /\ CostOf' = [e \in Evaluations |-> CostOf'[e]]
    BY DEF CostOf
  <1>3. RunOf' = [RunOf EXCEPT ![r] = RunOf'[r]]
    BY <1>1
  <1>4. CostOf' = [CostOf EXCEPT ![r] = CostOf'[r]]
    BY <1>2
  <1>5. RunOf'[r] # "running" \/ RunOf[r] = "running" => Revived = {}
    BY DEF Revived
  <1>6. RunOf'[r] = "running" /\ RunOf[r] = "unsettled" => Revived = {r}
    BY DEF Revived
  <1> QED
    BY <1>3, <1>4, <1>5, <1>6

-----------------------------------------------------------------------------
(* The steps of the observability-bridge.                                   *)

\* The instance counts as this module does.
LEMMA SameCardinality ==
    ASSUME NEW S
    PROVE  Policy!Cardinality(S) = Cardinality(S)
  BY DEF Policy!Cardinality, Cardinality

\* What the policy-bridge keeps for itself.
LEMMA PolicyKept ==
    ASSUME UNCHANGED <<policy, created, today>>
    PROVE  /\ UNCHANGED <<asked, Policy!evaluation, Policy!decision, Policy!gates, created, today>>
           /\ asked' = asked
  BY DEF policy, Policy!evaluation, Policy!decision, Policy!gates

LEMMA ObsImplements ==
    ASSUME GovInv, NEW q \in Posts, ObsStep(q)
    PROVE  Policy!Next \/ UNCHANGED Policy!vars
  <1>0. PICK r : r = posted[q].run
    OBVIOUS
  <1>1. ObsTypeOK /\ ReportInv /\ Obs!Step(q) /\ reopened \in Nat
        /\ UNCHANGED <<policy, created, today>>
    BY ReopenedStep DEF GovInv, ObsTypeOK
  <1>2. CASE point[q] = "idle"
    <2>1. RunOf' = RunOf /\ CostOf' = CostOf
      BY <1>1, <1>2, ArrivalIsUnseen
    <2>2. Revived = {}
      BY <2>1 DEF Revived
    <2> QED
      BY <1>1, <2>1, <2>2, ReopenedStep, PolicyKept DEF Policy!vars, Policy!runs
  <1>3. CASE point[q] # "idle"
    <2>1. /\ r \in Evaluations
          /\ RunOf[r] = IF IsActive(r) THEN "running" ELSE "unsettled"
          /\ IsActive(r)' => RunOf'[r] = "running"
          /\ ~IsActive(r)' => RunOf'[r] \in {"unsettled", "ended"}
          /\ \A e \in Evaluations \ {r} : RunOf'[e] = RunOf[e] /\ CostOf'[e] = CostOf[e]
          /\ row'[r].cost = row[r].cost => CostOf'[r] = CostOf[r]
          /\ CostOf'[r] \in Costs
      BY <1>0, <1>1, <1>3, ArrivedRun
    <2>2. \/ IsActive(r)' <=> IsActive(r)
          \/ /\ IsActive(r)' <=> posted[q].status \in ActiveStatuses
             /\ point[q] = "complete" /\ row'[r].cost = row[r].cost
      BY <1>0, <1>1, <1>3, RunRow DEF ReportInv, WasStarted, IsActive
    <2>3. /\ RunOf' = [RunOf EXCEPT ![r] = RunOf'[r]]
          /\ CostOf' = [CostOf EXCEPT ![r] = CostOf'[r]]
          /\ RunOf'[r] # "running" \/ RunOf[r] = "running" => Revived = {}
          /\ RunOf'[r] = "running" /\ RunOf[r] = "unsettled" => Revived = {r}
      BY <2>1, RunChange
    <2>4. CASE \/ RunOf'[r] = RunOf[r]
               \/ RunOf[r] = "unsettled" /\ RunOf'[r] = "ended"
      <3>1. \E settles \in BOOLEAN :
               RunOf' = [RunOf EXCEPT ![r] = IF settles /\ @ = "unsettled" THEN "ended" ELSE @]
        <4>1. CASE RunOf'[r] = RunOf[r]
          BY <2>3, <4>1
        <4>2. CASE RunOf[r] = "unsettled" /\ RunOf'[r] = "ended"
          BY <2>3, <4>2
        <4> QED
          BY <2>4, <4>1, <4>2
      <3>2. \E c \in 0..MaxCost : CostOf' = [CostOf EXCEPT ![r] = c]
        BY <2>1, <2>3 DEF Costs
      <3>3. RunOf[r] \in {"running", "unsettled"} /\ reopened' = reopened
        BY <2>1, <2>3, <2>4, ReopenedStep
      <3>4. Policy!RecordCost(r)
        BY <1>1, <3>1, <3>2, <3>3, PolicyKept DEF Policy!RecordCost
      <3> QED
        BY <2>1, <3>4 DEF Policy!Next
    <2>5. CASE RunOf[r] = "running" /\ RunOf'[r] # "running"
      <3>1. point[q] = "complete" /\ CostOf'[r] = CostOf[r]
        BY <2>1, <2>2, <2>5
      <3>2. CostOf' = CostOf /\ reopened' = reopened
        BY <2>1, <2>3, <2>5, <3>1, ReopenedStep DEF CostOf
      <3>3. Cardinality(Unsettled) < MaxUnsettled
        BY <1>0, <2>5, <3>1, PlaceToEnd
      <3>4. \/ Cardinality(Unsettled) < MaxUnsettled /\ RunOf' = [RunOf EXCEPT ![r] = "unsettled"]
            \/ RunOf' = [RunOf EXCEPT ![r] = "ended"]
        BY <2>1, <2>3, <2>5, <3>3
      <3>5. UNCHANGED <<asked, Policy!evaluation, Policy!decision, Policy!gates, created,
                        CostOf, reopened, today>>
        BY <1>1, <3>2, PolicyKept
      <3>6. Policy!EndRun(r)
        <4>1. CASE RunOf' = [RunOf EXCEPT ![r] = "ended"]
          BY <2>5, <3>5, <4>1 DEF Policy!EndRun
        <4>2. CASE RunOf' = [RunOf EXCEPT ![r] = "unsettled"]
          <5>1. Policy!Cardinality({o \in Evaluations : RunOf[o] = "unsettled"}) < MaxUnsettled
            BY <3>3, SameCardinality DEF Unsettled
          <5> QED
            BY <2>5, <3>5, <4>2, <5>1 DEF Policy!EndRun
        <4> QED
          BY <3>4, <4>1, <4>2
      <3> QED
        BY <2>1, <3>6 DEF Policy!Next
    <2>6. CASE RunOf[r] = "unsettled" /\ RunOf'[r] = "running"
      <3>1. /\ point[q] = "complete" /\ posted[q].status \in ActiveStatuses
            /\ CostOf'[r] = CostOf[r]
        BY <2>1, <2>2, <2>6
      <3>2. CostOf' = CostOf /\ reopened' = reopened + 1 /\ reopened < MaxReopened
        <4>1. reopened' = reopened + 1
          BY <2>3, <2>6, ReopenedStep
        <4>2. reopened < MaxReopened
          BY <3>1, PlaceToReopen
        <4>3. CostOf' = CostOf
          BY <2>3, <3>1 DEF CostOf
        <4> QED
          BY <4>1, <4>2, <4>3
      <3>3. Policy!Reopen(r)
        BY <1>1, <2>3, <2>6, <3>2, PolicyKept DEF Policy!Reopen
      <3> QED
        BY <2>1, <3>3 DEF Policy!Next
    <2> QED
      BY <2>1, <2>4, <2>5, <2>6
  <1> QED
    BY <1>2, <1>3

-----------------------------------------------------------------------------
(* The invariant.                                                           *)

\* No run comes to be on its way to an end by this.
LEMMA BoundsStay ==
    ASSUME GovInv, posted' = posted, Ending' \subseteq Ending,
           \A q \in Posts : point[q] \notin {"idle", "complete"} =>
                                point'[q] \notin {"idle", "complete"},
           reopened' = reopened
    PROVE  BoundsInv'
  <1>1. Cardinality(Ending') <= Cardinality(Ending) /\ Cardinality(Ending') \in Nat
        /\ Cardinality(Ending) \in Nat
    BY Counts DEF Ending
  <1>2. Reopening' = Reopening
    BY DEF Reopening, IsReopening
  <1>3. Reopened \subseteq Reopened' /\ Reopened' \subseteq Posts
    BY <1>2 DEF Reopened, Reopening
  <1>4. Cardinality(Reopened) <= Cardinality(Reopened') /\ Cardinality(Reopened) \in Nat
        /\ Cardinality(Reopened') \in Nat
    BY <1>3, PostCounts
  <1>5. BoundsInv /\ reopened \in Nat
    BY DEF GovInv, ObsTypeOK
  <1>6. Cardinality(Ending') <= MaxUnsettled
    BY <1>1, <1>5, PartsAssumption, PolicyConstants DEF BoundsInv
  <1>7. reopened' <= Cardinality(Reopened')
    BY <1>4, <1>5 DEF BoundsInv
  <1> QED
    BY <1>2, <1>5, <1>6, <1>7 DEF BoundsInv

LEMMA ArrivalKeeps ==
    ASSUME GovInv, NEW q \in Posts, ObsStep(q), point[q] = "idle"
    PROVE  BoundsInv' /\ ReportInv'
  <1> DEFINE r == posted[q].run
  <1>1. ObsTypeOK /\ ReportInv /\ Obs!Step(q)
    BY ReopenedStep DEF GovInv
  <1>2. RunOf' = RunOf
    BY <1>1, ArrivalIsUnseen
  <1>3. reopened' = reopened
    <2>1. Revived = {}
      BY <1>2 DEF Revived
    <2> QED
      BY <2>1, ReopenedStep
  <1>4. /\ posted' = posted /\ row' = row /\ point'[q] # "idle"
        /\ \A o \in Posts \ {q} : point'[o] = point[o]
        /\ point'[q] = "complete" => posted[q].kind = "complete"
    BY <1>1, HandlerStep
  <1>5. r \in Evaluations /\ MayArrive(q)
    BY <1>1, BodyFields DEF ObsStep
  <1>6. WasStarted(r)
    <2>1. RunOf[r] \in {"running", "unsettled", "ended"}
      BY <1>5 DEF MayArrive, Policy!Started
    <2> QED
      BY <1>5, <2>1 DEF RunOf, WasStarted
  <1>7. ReportInv'
    <2> SUFFICES ASSUME NEW o \in Posts
                 PROVE  /\ point'[o] # "idle" => WasStarted(posted[o].run)'
                        /\ point'[o] = "complete" => posted'[o].kind = "complete"
      BY DEF ReportInv
    <2>1. CASE o = q
      BY <1>4, <1>6, <2>1 DEF WasStarted
    <2>2. CASE o # q
      BY <1>1, <1>4, <2>2 DEF ReportInv, WasStarted
    <2> QED
      BY <2>1, <2>2
  <1>8. CASE posted[q].kind = "complete"
    <2>1. Cardinality(Ending \cup {r}) <= MaxUnsettled
      BY <1>5, <1>8 DEF MayArrive
    <2>2. Ending' \subseteq Ending \cup {r} /\ Ending \cup {r} \subseteq Evaluations
      BY <1>2, <1>4, <1>5 DEF Ending
    <2>3. /\ Cardinality(Ending') <= Cardinality(Ending \cup {r})
          /\ Cardinality(Ending') \in Nat /\ Cardinality(Ending \cup {r}) \in Nat
      BY <2>2, Counts
    <2>4. Cardinality(Ending') <= MaxUnsettled
      BY <2>1, <2>3, PartsAssumption, PolicyConstants
    <2>5. Reopening' = Reopening
      BY <1>4 DEF Reopening, IsReopening
    <2>6. Reopened \subseteq Reopened' /\ Reopened' \subseteq Posts
      BY <1>4, <2>5 DEF Reopened, Reopening
    <2>7. Cardinality(Reopened) <= Cardinality(Reopened') /\ Cardinality(Reopened) \in Nat
          /\ Cardinality(Reopened') \in Nat
      BY <2>6, PostCounts
    <2>8. BoundsInv /\ reopened \in Nat
      BY DEF GovInv, ObsTypeOK
    <2>9. reopened' <= Cardinality(Reopened')
      BY <1>3, <2>7, <2>8 DEF BoundsInv
    <2> QED
      BY <1>7, <2>4, <2>5, <2>8, <2>9 DEF BoundsInv
  <1>9. CASE posted[q].kind # "complete"
    <2>1. Ending' \subseteq Ending
      BY <1>2, <1>4, <1>9 DEF Ending
    <2>2. \A o \in Posts : point[o] \notin {"idle", "complete"} =>
                              point'[o] \notin {"idle", "complete"}
      BY <1>4
    <2> QED
      BY <1>3, <1>4, <1>7, <2>1, <2>2, BoundsStay
  <1> QED
    BY <1>8, <1>9

LEMMA AnswerKeeps ==
    ASSUME GovInv, NEW q \in Posts, ObsStep(q), point[q] # "idle"
    PROVE  BoundsInv' /\ ReportInv'
  <1>0. PICK r : r = posted[q].run
    OBVIOUS
  <1>1. ObsTypeOK /\ ReportInv /\ Obs!Step(q)
    BY ReopenedStep DEF GovInv
  <1>2. /\ posted' = posted /\ point[q] # "done" /\ point'[q] \notin {"idle", "complete"}
        /\ point \in [Posts -> Obs!InFlightPoints \cup {"idle", "done"}]
        /\ \A o \in Posts \ {q} : point'[o] = point[o]
    BY <1>1, HandlerStep DEF ObsTypeOK
  <1>3. /\ r \in Evaluations /\ row'[r] # Null /\ WasStarted(r)'
        /\ RunOf[r] = IF IsActive(r) THEN "running" ELSE "unsettled"
        /\ IsActive(r)' => RunOf'[r] = "running"
        /\ ~IsActive(r)' => RunOf'[r] \in {"unsettled", "ended"}
        /\ \A e \in Evaluations \ {r} : RunOf'[e] = RunOf[e] /\ CostOf'[e] = CostOf[e]
    BY <1>0, <1>1, ArrivedRun
  <1>4. \/ IsActive(r)' <=> IsActive(r)
        \/ /\ IsActive(r)' <=> posted[q].status \in ActiveStatuses
           /\ point[q] = "complete"
    BY <1>0, <1>1, RunRow DEF ReportInv, WasStarted, IsActive
  <1>5. \A e \in Evaluations \ {r} : row'[e] = row[e]
    BY <1>0, <1>1, RunRow
  <1>6. ReportInv'
    <2> SUFFICES ASSUME NEW o \in Posts
                 PROVE  /\ point'[o] # "idle" => WasStarted(posted[o].run)'
                        /\ point'[o] = "complete" => posted'[o].kind = "complete"
      BY DEF ReportInv
    <2>1. posted[o].run \in Evaluations
      BY <1>1, BodyFields
    <2>2. point'[o] # "idle" => point[o] # "idle"
      BY <1>2
    <2>3. point'[o] = "complete" => point[o] = "complete"
      BY <1>2
    <2>4. CASE posted[o].run = r
      BY <1>1, <1>2, <1>3, <2>2, <2>3, <2>4 DEF ReportInv, WasStarted
    <2>5. CASE posted[o].run # r
      BY <1>1, <1>2, <1>5, <2>1, <2>2, <2>3, <2>5 DEF ReportInv, WasStarted
    <2> QED
      BY <2>4, <2>5
  <1>7. Ending' \subseteq Ending
    <2> SUFFICES ASSUME NEW e \in Evaluations, e \in Ending'
                 PROVE  e \in Ending
      BY DEF Ending
    <2>1. CASE RunOf'[e] = "unsettled"
      <3>1. CASE RunOf[e] = "unsettled"
        BY <3>1 DEF Ending
      <3>2. CASE RunOf[e] # "unsettled"
        <4>1. e = r /\ point[q] = "complete"
          BY <1>3, <1>4, <2>1, <3>2
        <4>2. posted[q].kind = "complete"
          BY <1>1, <4>1 DEF ReportInv
        <4> QED
          BY <1>0, <4>1, <4>2 DEF Ending, Obs!InFlightPoints
      <3> QED
        BY <3>1, <3>2
    <2>2. CASE \E o \in Posts : /\ posted'[o].run = e /\ posted'[o].kind = "complete"
                                /\ point'[o] \in Obs!InFlightPoints
      <3>1. PICK o \in Posts : /\ posted[o].run = e /\ posted[o].kind = "complete"
                               /\ point'[o] \in Obs!InFlightPoints
        BY <1>2, <2>2
      <3>2. point[o] \in Obs!InFlightPoints
        BY <1>2, <3>1
      <3> QED
        BY <3>1, <3>2 DEF Ending
    <2> QED
      BY <2>1, <2>2 DEF Ending
  <1>8. \A o \in Posts : point[o] \notin {"idle", "complete"} =>
                            point'[o] \notin {"idle", "complete"}
    BY <1>2
  <1>9. CASE reopened' = reopened
    BY <1>2, <1>6, <1>7, <1>8, <1>9, BoundsStay
  <1>10. CASE reopened' # reopened
    <2>1. /\ RunOf'[r] # "running" \/ RunOf[r] = "running" => Revived = {}
          /\ RunOf'[r] = "running" /\ RunOf[r] = "unsettled" => Revived = {r}
      BY <1>3, RunChange
    <2>2. RunOf[r] = "unsettled" /\ RunOf'[r] = "running" /\ reopened' = reopened + 1
      BY <1>3, <1>10, <2>1, ReopenedStep
    <2>3. point[q] = "complete" /\ posted[q].status \in ActiveStatuses
      BY <1>3, <1>4, <2>2
    <2>4. q \in Reopening /\ q \notin Reopened /\ reopened' <= Cardinality(Reopened \cup {q})
      BY <2>2, <2>3, PlaceToReopen
    <2>5. Reopening' = Reopening
      BY <1>2 DEF Reopening, IsReopening
    <2>6. Reopened' = Reopened \cup {q}
      BY <1>2, <2>4, <2>5 DEF Reopened, Reopening
    <2>7. Cardinality(Ending') <= Cardinality(Ending) /\ Cardinality(Ending') \in Nat
          /\ Cardinality(Ending) \in Nat
      BY <1>7, Counts DEF Ending
    <2>8. Cardinality(Ending') <= MaxUnsettled
      BY <2>7, PartsAssumption, PolicyConstants DEF GovInv, BoundsInv
    <2> QED
      BY <1>6, <2>4, <2>5, <2>6, <2>8 DEF GovInv, BoundsInv
  <1> QED
    BY <1>9, <1>10

\* What the handlers of the observability-bridge do keeps the invariant.
LEMMA ObsKeeps ==
    ASSUME GovInv, NEW q \in Posts, ObsStep(q)
    PROVE  GovInv'
  <1>1. ObsTypeOK /\ ReportInv /\ Obs!Step(q) /\ UNCHANGED <<policy, created, today>>
    BY ReopenedStep DEF GovInv
  <1>2. BoundsInv' /\ ReportInv'
    BY ArrivalKeeps, AnswerKeeps
  <1>3. /\ row' \in [Evaluations -> Obs!RowType \cup {Null}]
        /\ \A e \in Evaluations : row'[e] # Null => row'[e].cost \in Costs \cup {Null}
    BY <1>1, RunRow
  <1>4. reopened' \in Nat
    <2>1. reopened' = reopened + Cardinality(Revived)
      BY DEF ObsStep, Revived
    <2>2. Cardinality(Revived) \in Nat
      BY Counts DEF Revived
    <2> QED
      BY <1>1, <2>1, <2>2 DEF ObsTypeOK
  <1>5. /\ posted' = posted /\ ingested' = ingested
        /\ target' \in [Posts -> Traces \cup {Null}]
        /\ reading' \in [Posts -> Costs \cup {Null}]
        /\ point' \in [Posts -> Obs!InFlightPoints \cup {"idle", "done"}]
    BY <1>1, HandlerStep
  <1>6. asked' = asked
    BY <1>1, PolicyKept
  <1>7. ObsTypeOK'
    BY <1>1, <1>3, <1>4, <1>5, <1>6 DEF ObsTypeOK
  <1> QED
    BY <1>2, <1>7 DEF GovInv

\* No step of the policy-bridge changes what an evaluation asked.
LEMMA AskedIsKept ==
    ASSUME PolicyStep
    PROVE  asked' = asked
  <1>1. CASE \E e \in Evaluations : Policy!Evaluate(e)
    BY <1>1 DEF Policy!Evaluate, Policy!Receive, Policy!FetchPolicy, Policy!ReadSpend,
                Policy!ReadActive, Policy!QueryFails, Policy!Create, Policy!Notify, Policy!Crash
  <1>2. CASE \E d \in Decisions : Policy!Decide(d)
    BY <1>2 DEF Policy!Decide
  <1>3. CASE Policy!Midnight
    BY <1>3 DEF Policy!Midnight
  <1> QED
    BY <1>1, <1>2, <1>3 DEF PolicyStep

\* A step that changes nothing of what the observability-bridge works on.
LEMMA BystanderKeeps ==
    ASSUME GovInv, UNCHANGED <<row, posted, point, target, reading, reopened>>,
           asked' = asked, ingested' \in Costs
    PROVE  GovInv'
  <1>1. ObsTypeOK' /\ ReportInv'
    BY DEF GovInv, ObsTypeOK, ReportInv, WasStarted
  <1>2. Ending' = Ending
    BY DEF Ending, RunOf, IsAwaited
  <1>3. BoundsInv'
    BY <1>2, BoundsStay
  <1> QED
    BY <1>1, <1>3 DEF GovInv

\* The Manager makes or starts one row, that no request that arrived is about
\* unless it is already there.
LEMMA ManagedRow ==
    ASSUME GovInv, NEW e \in Evaluations,
           Obs!Insert(e, FALSE) \/ Obs!Insert(e, TRUE) \/ Obs!Start(e)
    PROVE  /\ UNCHANGED <<posted, point, target, reading, ingested>>
           /\ row' \in [Evaluations -> Obs!RowType \cup {Null}]
           /\ \A o \in Evaluations : row'[o] # Null => row'[o].cost \in Costs \cup {Null}
           /\ ReportInv'
  <1>1. /\ row \in [Evaluations -> Obs!RowType \cup {Null}]
        /\ \A o \in Evaluations : row[o] # Null => row[o].cost \in Costs \cup {Null}
        /\ Null \notin Obs!RowType
        /\ ReportInv
    BY PartsAssumption DEF GovInv, ObsTypeOK
  <1>2. \A q \in Posts : posted[q].run \in Evaluations
    BY BodyFields DEF GovInv
  <1>3. UNCHANGED <<posted, point, target, reading, ingested>>
    BY DEF Obs!Insert, Obs!Start, Obs!handler, Obs!world
  <1>4. PICK new : /\ row' = [row EXCEPT ![e] = new]
                   /\ new \in Obs!RowType /\ new.cost \in Costs \cup {Null}
                   /\ row[e] # Null => new.status = "running"
    <2>1. CASE Obs!Start(e)
      <3> DEFINE new == [row[e] EXCEPT !.status = "running", !.started = TRUE]
      <3>1. row[e] # Null /\ row[e] \in Obs!RowType
        BY <1>1, <2>1 DEF Obs!Start
      <3>2. row' = [row EXCEPT ![e] = new]
        BY <1>1, <2>1 DEF Obs!Start
      <3>3. new \in Obs!RowType /\ new.cost = row[e].cost /\ new.status = "running"
        BY <3>1 DEF Obs!RowType, Obs!RunStatuses
      <3>4. row[e].cost \in Costs \cup {Null}
        BY <1>1, <3>1
      <3> QED
        BY <3>2, <3>3, <3>4
    <2>2. ASSUME NEW started \in BOOLEAN, Obs!Insert(e, started)
          PROVE  /\ row' = [row EXCEPT ![e] = Obs!NewRow(started)] /\ row[e] = Null
                 /\ Obs!NewRow(started) \in Obs!RowType
                 /\ Obs!NewRow(started).cost \in Costs \cup {Null}
      BY <2>2 DEF Obs!Insert, Obs!NewRow, Obs!RowType, Obs!RunStatuses
    <2> QED
      BY <2>1, <2>2
  <1>5. row' \in [Evaluations -> Obs!RowType \cup {Null}]
    BY <1>1, <1>4
  <1>6. \A o \in Evaluations : row'[o] # Null => row'[o].cost \in Costs \cup {Null}
    BY <1>1, <1>4
  <1>7. ReportInv'
    <2> SUFFICES ASSUME NEW q \in Posts
                 PROVE  /\ point'[q] # "idle" => WasStarted(posted[q].run)'
                        /\ point'[q] = "complete" => posted'[q].kind = "complete"
      BY DEF ReportInv
    <2>1. /\ point[q] # "idle" => WasStarted(posted[q].run)
          /\ point[q] = "complete" => posted[q].kind = "complete"
      BY <1>1 DEF ReportInv
    <2>2. CASE posted[q].run = e
      BY <1>1, <1>3, <1>4, <2>1, <2>2 DEF WasStarted
    <2>3. CASE posted[q].run # e
      BY <1>1, <1>2, <1>3, <1>4, <2>1, <2>3 DEF WasStarted
    <2> QED
      BY <2>2, <2>3
  <1> QED
    BY <1>3, <1>5, <1>6, <1>7

LEMMA ManagerKeeps ==
    ASSUME GovInv, NEW e \in Evaluations, MakeRow(e) \/ StartRun(e)
    PROVE  GovInv'
  <1>1. Obs!Insert(e, FALSE) \/ Obs!Insert(e, TRUE) \/ Obs!Start(e)
    BY DEF MakeRow, StartRun
  <1>2. /\ asked' = asked /\ reopened' = reopened
        /\ RunOf' = [RunOf EXCEPT ![e] = "pending"] \/ RunOf' = [RunOf EXCEPT ![e] = "running"]
    BY DEF MakeRow, StartRun, Policy!MakeRow, Policy!StartRun
  <1>3. /\ UNCHANGED <<posted, point, target, reading, ingested>>
        /\ row' \in [Evaluations -> Obs!RowType \cup {Null}]
        /\ \A o \in Evaluations : row'[o] # Null => row'[o].cost \in Costs \cup {Null}
        /\ ReportInv'
    BY <1>1, ManagedRow
  <1>4. \A o \in Evaluations : RunOf'[o] = "unsettled" => RunOf[o] = "unsettled"
    <2>1. DOMAIN RunOf = Evaluations
      BY DEF RunOf
    <2> QED
      BY <1>2, <2>1
  <1>5. Ending' \subseteq Ending
    BY <1>3, <1>4 DEF Ending
  <1>6. BoundsInv'
    BY <1>2, <1>3, <1>5, BoundsStay
  <1>7. ObsTypeOK'
    BY <1>2, <1>3 DEF GovInv, ObsTypeOK
  <1> QED
    BY <1>3, <1>6, <1>7 DEF GovInv

LEMMA GovInit == Init => GovInv
  <1> SUFFICES ASSUME Init
               PROVE  GovInv
    OBVIOUS
  <1>1. /\ row = [e \in Evaluations |-> Null] /\ point = [q \in Posts |-> "idle"]
        /\ posted \in [Posts -> Completions] /\ asked \in [Evaluations -> Requests]
        /\ target = [q \in Posts |-> Null] /\ reading = [q \in Posts |-> Null]
        /\ ingested = 0 /\ reopened = 0
        /\ Cardinality(Reopening) <= MaxReopened
    BY DEF Init, Obs!Init, Policy!Init, Reopening
  <1>2. 0 \in Costs
    BY PartsAssumption DEF Costs
  <1>3. ObsTypeOK
    BY <1>1, <1>2 DEF ObsTypeOK
  <1>4. ReportInv
    BY <1>1 DEF ReportInv
  <1>5. Ending = {}
    BY <1>1 DEF Ending, RunOf, Obs!InFlightPoints
  <1>6. Reopened = {}
    BY <1>1 DEF Reopened, Reopening
  <1>7. Cardinality({}) = 0
    BY FS_EmptySet
  <1>8. BoundsInv
    BY <1>1, <1>5, <1>6, <1>7, PartsAssumption, PolicyConstants DEF BoundsInv
  <1> QED
    BY <1>3, <1>4, <1>8 DEF GovInv

LEMMA GovStep == GovInv /\ [Next]_vars => GovInv'
  <1> SUFFICES ASSUME GovInv, [Next]_vars
               PROVE  GovInv'
    OBVIOUS
  <1>0. ingested \in Costs
    BY DEF GovInv, ObsTypeOK
  <1>1. CASE PolicyStep
    <2>1. UNCHANGED <<row, posted, point, target, reading, ingested, reopened>>
      BY <1>1 DEF PolicyStep, observer
    <2> QED
      BY <1>0, <1>1, <2>1, AskedIsKept, BystanderKeeps
  <1>2. CASE \E e \in Evaluations : MakeRow(e) \/ StartRun(e)
    BY <1>2, ManagerKeeps
  <1>3. CASE \E q \in Posts : ObsStep(q)
    BY <1>3, ObsKeeps
  <1>4. CASE Ingest
    <2>1. /\ UNCHANGED <<row, posted, point, target, reading, reopened>> /\ asked' = asked
          /\ ingested < MaxCost /\ ingested' = ingested + 1
      BY <1>4 DEF Ingest, Obs!Ingest, Obs!handler, policy
    <2>2. ingested' \in Costs
      BY <1>0, <2>1, PartsAssumption DEF Costs
    <2> QED
      BY <2>1, <2>2, BystanderKeeps
  <1>5. CASE UNCHANGED vars
    <2>1. UNCHANGED <<row, posted, point, target, reading, ingested, reopened, asked>>
      BY <1>5 DEF vars, policy, observer
    <2> QED
      BY <1>0, <2>1, BystanderKeeps
  <1> QED
    BY <1>1, <1>2, <1>3, <1>4, <1>5 DEF Next, Quiescent

-----------------------------------------------------------------------------

\* At any time the rows, the requests and the bounds are as the environment of
\* the policy-bridge has them: only what was started is reported on, no more
\* runs end without their cost than MaxUnsettled, and none is called running again
\* but by a request that says so.
THEOREM GovernanceInductive == Spec => []GovInv
  BY GovInit, GovStep, PTL DEF Spec

\* What the policy-bridge sees of its own start ...
LEMMA PolicyStarts == Init => Policy!Init
  BY DEF Init

\* ... and of every step.
LEMMA PolicySteps == GovInv /\ [Next]_vars => [Policy!Next]_(Policy!vars)
  <1> SUFFICES ASSUME GovInv, [Next]_vars
               PROVE  Policy!Next \/ UNCHANGED Policy!vars
    OBVIOUS
  <1>1. CASE PolicyStep
    BY <1>1 DEF PolicyStep, Policy!Next
  <1>2. CASE \E e \in Evaluations : MakeRow(e) \/ StartRun(e)
    BY <1>2 DEF MakeRow, StartRun, Policy!Next
  <1>3. CASE \E q \in Posts : ObsStep(q)
    BY <1>3, ObsImplements
  <1>4. CASE Ingest
    <2>1. UNCHANGED <<policy, created, reopened, today, row, posted, point>>
      BY <1>4 DEF Ingest, Obs!Ingest
    <2>2. RunOf' = RunOf /\ CostOf' = CostOf
      BY <2>1 DEF RunOf, CostOf, IsAwaited
    <2> QED
      BY <2>1, <2>2, PolicyKept DEF Policy!vars, Policy!runs
  <1>5. CASE UNCHANGED vars
    <2>1. UNCHANGED <<policy, created, reopened, today, row, posted, point>>
      BY <1>5 DEF vars, observer
    <2>2. RunOf' = RunOf /\ CostOf' = CostOf
      BY <2>1 DEF RunOf, CostOf, IsAwaited
    <2> QED
      BY <2>1, <2>2, PolicyKept DEF Policy!vars, Policy!runs
  <1> QED
    BY <1>1, <1>2, <1>3, <1>4, <1>5 DEF Next, Quiescent

\* The policy-bridge over the rows that the observability-bridge writes and the
\* Manager makes behaves as PolicyBridge says, whatever requests arrive in what
\* order and whichever are lost or repeated: what is proved of PolicyBridge
\* holds of the two together.
THEOREM PolicyImplemented == Spec => PolicySpec
  BY GovernanceInductive, PolicyStarts, PolicySteps, PTL DEF Spec, PolicySpec, Policy!Spec

-----------------------------------------------------------------------------
(* Costs that were reported as stored.                                      *)

IsSynced(q) == "trace_synced" \in flags[q]

\* The row of q's run has at least the cost that q read.
IsStored(q) ==
    /\ row[posted[q].run] # Null /\ row[posted[q].run].cost # Null
    /\ row[posted[q].run].cost >= reading[q]

Overlapped(q) ==
    \E o \in Posts \ {q} : posted[o].run = posted[q].run /\ Obs!Overlap(q, o)

\* Who was over when a request arrived had read no more than it will.
HistoryInv ==
    /\ flags \in [Posts -> SUBSET {"trace_synced", "graphiti_completed"}]
    /\ before \in [Posts -> SUBSET Posts]
    /\ \A q \in Posts :
        /\ point[q] = "idle" => reading[q] = Null
        /\ reading[q] # Null => reading[q] <= ingested
        /\ IsSynced(q) => point[q] \in {"graphiti", "done"}
        /\ \A o \in before[q] :
            /\ point[o] = "done"
            /\ reading[o] # Null /\ reading[q] # Null => reading[o] <= reading[q]

StoredInv ==
    \A q \in Posts : IsSynced(q) /\ reading[q] # Null => IsStored(q) \/ Overlapped(q)

\* What the step of a handler changes of what it knows and reports.
LEMMA HistoryFrame ==
    ASSUME ObsTypeOK, HistoryInv, NEW q \in Posts, Obs!Step(q)
    PROVE  /\ flags' \in [Posts -> SUBSET {"trace_synced", "graphiti_completed"}]
           /\ before' \in [Posts -> SUBSET Posts]
           /\ \A o \in Posts \ {q} : /\ reading'[o] = reading[o] /\ flags'[o] = flags[o]
                                     /\ before'[o] = before[o]
           /\ point[q] = "idle" => /\ before'[q] = {o \in Posts : point[o] = "done"}
                                   /\ reading' = reading
           /\ point[q] # "idle" => before' = before
           /\ \/ reading'[q] = reading[q]
              \/ point[q] = "fetch" /\ reading'[q] \in {ingested, Null}
           /\ point[q] = "graphiti" => point'[q] = "done"
           /\ \/ IsSynced(q)' => IsSynced(q)
              \/ /\ point[q] = "store" /\ point'[q] \in {"graphiti", "done"}
                 /\ Obs!Exists(q) /\ row' = [row EXCEPT ![posted[q].run] = Synced(q)]
  <1> USE DEF ObsTypeOK, HistoryInv, Obs!Goto, Obs!Reply, Obs!AfterSync
  <1>1. CASE Obs!Receive(q)
    <2>1. /\ point[q] = "idle" /\ reading' = reading /\ flags' = flags
          /\ before' = [before EXCEPT ![q] = {o \in Posts : point[o] = "done"}]
      BY <1>1 DEF Obs!Receive
    <2> QED
      BY <2>1 DEF IsSynced
  <1>2. CASE Obs!Link(q) \/ Obs!ReadTrace(q) \/ Obs!Complete(q)
    <2>1. /\ point[q] \in {"link", "read_trace", "complete"}
          /\ reading' = reading /\ flags' = flags /\ before' = before
      BY <1>2 DEF Obs!Link, Obs!ReadTrace, Obs!Complete, Obs!handler, Obs!history
    <2> QED
      BY <2>1 DEF IsSynced
  <1>3. CASE Obs!Fetch(q)
    <2>1. /\ point[q] = "fetch" /\ flags' = flags /\ before' = before
          /\ \/ reading' = reading
             \/ \E c \in {ingested, Null} : reading' = [reading EXCEPT ![q] = c]
      BY <1>3 DEF Obs!Fetch, Obs!history
    <2> QED
      BY <2>1 DEF IsSynced
  <1>4. CASE Obs!Store(q)
    <2>1. /\ point[q] = "store" /\ reading' = reading /\ before' = before
          /\ \/ flags' = flags
             \/ flags' = [flags EXCEPT ![q] = @ \cup {"trace_synced"}]
      BY <1>4 DEF Obs!Store, Obs!history
    <2>2. flags' = flags \/ (Obs!Exists(q) /\ row' = [row EXCEPT ![posted[q].run] = Synced(q)])
      BY <1>4 DEF Obs!Store, Obs!Update, Obs!Takes, Synced
    <2>3. point'[q] \in {"graphiti", "done"}
      BY <1>4 DEF Obs!Store
    <2> QED
      BY <2>1, <2>2, <2>3 DEF IsSynced
  <1>5. CASE Obs!Graphiti(q)
    <2>1. /\ point[q] = "graphiti" /\ reading' = reading /\ before' = before
          /\ point'[q] = "done"
          /\ \/ flags' = flags
             \/ flags' = [flags EXCEPT ![q] = @ \cup {"graphiti_completed"}]
      BY <1>5 DEF Obs!Graphiti, Obs!history
    <2> QED
      BY <2>1 DEF IsSynced
  <1>6. CASE Obs!Crash(q)
    <2>1. /\ point[q] \in Obs!InFlightPoints /\ reading' = reading /\ before' = before
          /\ point'[q] = "done" /\ flags' = flags
      BY <1>6 DEF Obs!Crash, Obs!handler, Obs!history
    <2> QED
      BY <2>1 DEF IsSynced, Obs!InFlightPoints
  <1> QED
    BY <1>1, <1>2, <1>3, <1>4, <1>5, <1>6 DEF Obs!Step

\* Readings are numbers, or missing.
LEMMA ReadingsAreCosts ==
    ASSUME ObsTypeOK, NEW q \in Posts
    PROVE  /\ reading[q] \in Int \cup {Null} /\ (reading[q] # Null => reading[q] \in Nat)
           /\ ingested \in Nat
  BY PartsAssumption DEF ObsTypeOK, Costs

LEMMA HistoryObs ==
    ASSUME ObsTypeOK, HistoryInv, NEW q \in Posts, Obs!Step(q)
    PROVE  HistoryInv'
  <1>1. /\ flags' \in [Posts -> SUBSET {"trace_synced", "graphiti_completed"}]
        /\ before' \in [Posts -> SUBSET Posts]
        /\ \A o \in Posts \ {q} : /\ reading'[o] = reading[o] /\ flags'[o] = flags[o]
                                  /\ before'[o] = before[o]
        /\ point[q] = "idle" => /\ before'[q] = {o \in Posts : point[o] = "done"}
                                /\ reading' = reading
        /\ point[q] # "idle" => before' = before
        /\ \/ reading'[q] = reading[q]
           \/ point[q] = "fetch" /\ reading'[q] \in {ingested, Null}
        /\ point[q] = "graphiti" => point'[q] = "done"
        /\ IsSynced(q)' => IsSynced(q) \/ point'[q] \in {"graphiti", "done"}
    BY HistoryFrame
  <1>2. /\ ingested' = ingested /\ point[q] # "done" /\ point'[q] # "idle"
        /\ \A o \in Posts \ {q} : point'[o] = point[o]
    BY HandlerStep
  <1>3. \A o \in Posts : /\ point[o] = "idle" => reading[o] = Null
                         /\ reading[o] # Null => reading[o] <= ingested
                         /\ IsSynced(o) => point[o] \in {"graphiti", "done"}
                         /\ \A b \in before[o] :
                             /\ point[b] = "done"
                             /\ reading[b] # Null /\ reading[o] # Null => reading[b] <= reading[o]
    BY DEF HistoryInv
  <1>4. \A o \in Posts : point[o] = "done" => reading'[o] = reading[o] /\ point'[o] = "done"
    BY <1>1, <1>2
  <1>5. before \in [Posts -> SUBSET Posts]
    BY DEF HistoryInv
  <1>6. ASSUME NEW o \in Posts
        PROVE  /\ point'[o] = "idle" => reading'[o] = Null
               /\ reading'[o] # Null => reading'[o] <= ingested'
               /\ IsSynced(o)' => point'[o] \in {"graphiti", "done"}
    <2>1. CASE o = q
      <3>1. IsSynced(q)' => point'[q] \in {"graphiti", "done"}
        BY <1>1, <1>2, <1>3
      <3>2. ingested <= ingested
        BY ReadingsAreCosts
      <3> QED
        BY <1>1, <1>2, <1>3, <2>1, <3>1, <3>2
    <2>2. CASE o # q
      <3>1. IsSynced(o)' <=> IsSynced(o)
        BY <1>1, <2>2 DEF IsSynced
      <3> QED
        BY <1>1, <1>2, <1>3, <2>2, <3>1
    <2> QED
      BY <2>1, <2>2
  <1>7. ASSUME NEW o \in Posts, NEW b \in before'[o]
        PROVE  /\ point'[b] = "done"
               /\ reading'[b] # Null /\ reading'[o] # Null => reading'[b] <= reading'[o]
    <2>1. CASE o = q /\ point[q] = "idle"
      <3>1. b \in Posts /\ point[b] = "done" /\ reading'[o] = Null
        BY <1>1, <1>3, <1>7, <2>1
      <3> QED
        BY <1>4, <3>1
    <2>2. CASE ~(o = q /\ point[q] = "idle")
      <3>1. b \in before[o] /\ b \in Posts
        BY <1>1, <1>5, <1>7, <2>2
      <3>2. point[b] = "done" /\ point'[b] = "done" /\ reading'[b] = reading[b]
        BY <1>3, <1>4, <3>1
      <3>3. reading[b] # Null /\ reading[o] # Null => reading[b] <= reading[o]
        BY <1>3, <3>1
      <3>4. CASE reading'[o] = reading[o]
        BY <3>2, <3>3, <3>4
      <3>5. CASE reading'[o] # reading[o]
        <4>1. reading'[o] \in {ingested, Null}
          BY <1>1, <3>5
        <4> QED
          BY <1>3, <3>1, <3>2, <4>1
      <3> QED
        BY <3>4, <3>5
    <2> QED
      BY <2>1, <2>2
  <1> QED
    BY <1>1, <1>6, <1>7 DEF HistoryInv

\* A request that overlapped another one did so for good.
LEMMA OverlapsStay ==
    ASSUME ObsTypeOK, HistoryInv, NEW q \in Posts, Obs!Step(q), NEW p \in Posts, Overlapped(p)
    PROVE  Overlapped(p)'
  <1>1. PICK o \in Posts \ {p} : posted[o].run = posted[p].run /\ Obs!Overlap(p, o)
    BY DEF Overlapped
  <1>2. point[o] # "idle" /\ point[p] # "idle" /\ p \notin before[o] /\ o \notin before[p]
    BY <1>1 DEF Obs!Overlap, Obs!Arrived
  <1>3. before'[o] = before[o] /\ before'[p] = before[p]
    BY <1>2, HistoryFrame
  <1>4. posted' = posted /\ point'[o] # "idle" /\ point'[p] # "idle"
    BY <1>2, HandlerStep
  <1> QED
    BY <1>1, <1>2, <1>3, <1>4 DEF Overlapped, Obs!Overlap, Obs!Arrived

\* A cost that is stored is there still, or was replaced by an overlapping request.
LEMMA StoredObs ==
    ASSUME ObsTypeOK, HistoryInv, StoredInv, NEW q \in Posts, Obs!Step(q)
    PROVE  StoredInv'
  <1> SUFFICES ASSUME NEW p \in Posts, IsSynced(p)', reading'[p] # Null
               PROVE  IsStored(p)' \/ Overlapped(p)'
    BY DEF StoredInv
  <1> DEFINE r == posted[p].run
  <1>1. /\ \A o \in Posts \ {q} : reading'[o] = reading[o] /\ flags'[o] = flags[o]
        /\ \/ reading'[q] = reading[q]
           \/ point[q] = "fetch" /\ reading'[q] \in {ingested, Null}
        /\ \/ IsSynced(q)' => IsSynced(q)
           \/ /\ point[q] = "store"
              /\ Obs!Exists(q) /\ row' = [row EXCEPT ![posted[q].run] = Synced(q)]
    BY HistoryFrame
  <1>2. posted' = posted /\ point[q] # "done"
    BY HandlerStep
  <1>3. /\ row \in [Evaluations -> Obs!RowType \cup {Null}] /\ Null \notin Obs!RowType
        /\ r \in Evaluations
        /\ \A o \in Posts : posted[o].run \in Evaluations
    BY PartsAssumption, BodyFields DEF ObsTypeOK
  <1>4. CASE ~IsSynced(p)
    <2>1. p = q
      BY <1>1, <1>4 DEF IsSynced
    <2>2. /\ point[q] = "store" /\ Obs!Exists(q) /\ row' = [row EXCEPT ![r] = Synced(q)]
          /\ reading'[q] = reading[q] /\ reading[q] # Null
      BY <1>1, <1>4, <2>1
    <2>3. Synced(q).cost = reading[q] /\ Synced(q) \in Obs!RowType
      <3>1. Obs!OldRow(q) \in Obs!RowType
        BY <2>2, OldColumns
      <3>2. Synced(q).cost = reading[q]
        BY <2>2, <3>1 DEF Synced, Obs!Coalesce, Obs!RowType
      <3> QED
        BY <2>2, <3>2, SyncedColumns
    <2>4. row'[r] = Synced(q)
      BY <1>3, <2>2
    <2>5. reading[q] >= reading[q]
      BY <2>2, ReadingsAreCosts
    <2> QED
      BY <1>2, <1>3, <2>1, <2>2, <2>3, <2>4, <2>5 DEF IsStored
  <1>5. CASE IsSynced(p)
    <2>1. point[p] \in {"graphiti", "done"} /\ reading'[p] = reading[p] /\ reading[p] # Null
      BY <1>1, <1>5 DEF HistoryInv
    <2>2. CASE Overlapped(p)
      BY <2>2, OverlapsStay
    <2>3. CASE IsStored(p)
      <3>1. row[r] # Null /\ row[r].cost # Null /\ row[r].cost >= reading[p]
            /\ row[r] \in Obs!RowType
        BY <1>3, <2>3 DEF IsStored
      <3>2. ASSUME row'[r] # Null, row'[r].cost # Null, row'[r].cost >= reading[p]
            PROVE  IsStored(p)'
        BY <1>2, <2>1, <3>2 DEF IsStored
      <3>3. CASE row'[r] = row[r]
        BY <3>1, <3>2, <3>3
      <3>4. CASE row'[r] # row[r]
        <4>0. Obs!OldRow(q) = row[posted[q].run]
          BY DEF Obs!OldRow
        <4>1. /\ Obs!Exists(q) /\ posted[q].run = r
              /\ \/ row'[r] = Linked(q)
                 \/ row'[r] = Completed(q)
                 \/ point[q] = "store" /\ row'[r] = Synced(q)
          <5> HIDE DEF r
          <5> QED
            BY <1>3, <3>4, RowStep
        <4>2. CASE row'[r] = Linked(q) \/ row'[r] = Completed(q)
          <5>1. row'[r].cost = row[r].cost /\ row'[r] \in Obs!RowType
            BY <4>0, <4>1, <4>2, LinkedColumns, CompletedColumns
          <5> QED
            BY <1>3, <3>1, <3>2, <5>1
        <4>3. CASE point[q] = "store" /\ row'[r] = Synced(q)
          <5>1. /\ row'[r] \in Obs!RowType
                /\ row'[r].cost = Obs!Coalesce(reading[q], row[r].cost)
            <6>1. Synced(q) \in Obs!RowType
              BY <4>1, SyncedColumns
            <6>2. Synced(q).cost = Obs!Coalesce(reading[q], row[r].cost)
              BY <3>1, <4>0, <4>1 DEF Synced, Obs!RowType
            <6> QED
              BY <4>3, <6>1, <6>2
          <5>2. CASE reading[q] = Null
            BY <1>3, <3>1, <3>2, <5>1, <5>2 DEF Obs!Coalesce
          <5>3. CASE reading[q] # Null /\ p \in before[q]
            <6>1. reading[p] <= reading[q]
              BY <2>1, <5>3 DEF HistoryInv
            <6>2. row'[r].cost = reading[q]
              BY <5>1, <5>3 DEF Obs!Coalesce
            <6>3. reading[q] \in Nat /\ reading[p] \in Nat
              BY <2>1, <5>3, ReadingsAreCosts
            <6> QED
              BY <1>3, <3>2, <5>1, <5>3, <6>1, <6>2, <6>3
          <5>4. CASE p \notin before[q]
            <6>1. q # p /\ q \notin before[p]
              BY <1>2, <2>1, <4>3 DEF HistoryInv
            <6>2. Overlapped(p)
              BY <2>1, <4>1, <4>3, <5>4, <6>1 DEF Overlapped, Obs!Overlap, Obs!Arrived
            <6> QED
              BY <6>2, OverlapsStay
          <5> QED
            BY <5>2, <5>3, <5>4
        <4> QED
          BY <4>1, <4>2, <4>3
      <3> QED
        BY <3>3, <3>4
    <2> QED
      BY <1>5, <2>1, <2>2, <2>3 DEF StoredInv
  <1> QED
    BY <1>4, <1>5

\* A step that changes no request, report or cost keeps what is known of them.
LEMMA OthersKeepStored ==
    ASSUME ObsTypeOK, HistoryInv, StoredInv,
           UNCHANGED <<posted, point, reading, flags, before>>,
           ingested' \in Nat, ingested' >= ingested,
           \A r \in Evaluations : row[r] # Null => row'[r] # Null /\ row'[r].cost = row[r].cost
    PROVE  HistoryInv' /\ StoredInv'
  <1>1. HistoryInv'
    <2>1. \A q \in Posts : reading[q] # Null => reading[q] \in Nat
      BY ReadingsAreCosts
    <2>2. \A q \in Posts : reading[q] # Null => reading[q] <= ingested'
      BY <2>1, ReadingsAreCosts DEF HistoryInv
    <2> QED
      BY <2>2 DEF HistoryInv, IsSynced
  <1>2. \A q \in Posts : posted[q].run \in Evaluations
    BY BodyFields
  <1>3. \A q \in Posts : IsStored(q) => IsStored(q)'
    BY <1>2 DEF IsStored
  <1>4. \A q \in Posts : Overlapped(q) => Overlapped(q)'
    BY DEF Overlapped, Obs!Overlap, Obs!Arrived
  <1>5. StoredInv'
    BY <1>3, <1>4 DEF StoredInv, IsSynced
  <1> QED
    BY <1>1, <1>5

\* Where the evaluations are, and the sums they read.
StageInv == DOMAIN stage = Evaluations /\ DOMAIN spend = Evaluations

CostsInv == GovInv /\ HistoryInv /\ StoredInv /\ StageInv

\* Only the handler of an evaluation moves it, and it reads the sum of costs once
\* in each scope.
LEMMA StageStep ==
    ASSUME StageInv, PolicyStep
    PROVE  /\ StageInv'
           /\ \A e \in Evaluations : stage[e] = "spend" /\ stage'[e] = "active" =>
                \E p \in Policy!Applicable(e) : spend'[e] = Policy!SpentOn(p, asOf[e])
  <1> USE DEF StageInv
  <1>1. ASSUME NEW d \in Evaluations, Policy!Evaluate(d)
        PROVE  /\ StageInv'
               /\ \A e \in Evaluations : stage[e] = "spend" /\ stage'[e] = "active" =>
                    \E p \in Policy!Applicable(e) : spend'[e] = Policy!SpentOn(p, asOf[e])
    <2> USE DEF Policy!Goto, Policy!Reply
    <2>1. CASE Policy!Receive(d)
      BY <2>1 DEF Policy!Receive
    <2>2. CASE Policy!FetchPolicy(d)
      BY <2>2 DEF Policy!FetchPolicy, Policy!AfterScope
    <2>3. CASE Policy!ReadSpend(d)
      <3>1. PICK p \in Policy!Applicable(d) :
                spend' = [spend EXCEPT ![d] = Policy!SpentOn(p, asOf[d])]
        BY <2>3 DEF Policy!ReadSpend
      <3>2. stage' = [stage EXCEPT ![d] = "active"]
        BY <2>3 DEF Policy!ReadSpend
      <3>3. spend'[d] = Policy!SpentOn(p, asOf[d])
        BY <3>1
      <3>4. \A e \in Evaluations : stage[e] = "spend" /\ stage'[e] = "active" => e = d
        BY <3>2
      <3>5. StageInv'
        BY <3>1, <3>2
      <3> QED
        BY <3>3, <3>4, <3>5
    <2>4. CASE Policy!ReadActive(d)
      BY <2>4 DEF Policy!ReadActive, Policy!AfterScope
    <2>5. CASE Policy!QueryFails(d)
      BY <2>5 DEF Policy!QueryFails
    <2>6. CASE Policy!Create(d)
      BY <2>6 DEF Policy!Create
    <2>7. CASE Policy!Notify(d)
      BY <2>7 DEF Policy!Notify
    <2>8. CASE Policy!Crash(d)
      BY <2>8 DEF Policy!Crash
    <2> QED
      BY <1>1, <2>1, <2>2, <2>3, <2>4, <2>5, <2>6, <2>7, <2>8 DEF Policy!Evaluate
  <1>2. CASE (\E d \in Decisions : Policy!Decide(d)) \/ Policy!Midnight
    <2>1. stage' = stage /\ spend' = spend
      BY <1>2 DEF Policy!Decide, Policy!Midnight, Policy!evaluation
    <2> QED
      BY <2>1
  <1> QED
    BY <1>1, <1>2 DEF PolicyStep

\* The rows that count in the sum of a policy on a day.
Counted(p, day) ==
    {r \in Evaluations : /\ row[r] # Null /\ created[r] = day /\ Policy!InScope(p, r)}

\* The sum that an evaluation reads is that of the costs in the rows.
LEMMA SpentIsTotal ==
    ASSUME ObsTypeOK, NEW p, NEW day
    PROVE  Policy!SpentOn(p, day) = Total(CostOf, Counted(p, day))
  <1>1. \A e \in Evaluations : RunOf[e] # "none" <=> row[e] # Null
    <2>1. \A e \in Evaluations : row[e] # Null => row[e].status # "none"
      BY DEF ObsTypeOK, Obs!RowType, Obs!RunStatuses
    <2> QED
      BY <2>1 DEF RunOf
  <1>2. PICK S : S = Policy!CountedOn(p, day)
    OBVIOUS
  <1>3. S = Counted(p, day)
    BY <1>1, <1>2 DEF Counted, Policy!CountedOn
  <1>4. Policy!SpentOn(p, day) = Policy!MapThenSumSet(LAMBDA e : CostOf[e], S)
    BY Zenon, <1>2 DEF Policy!SpentOn
  <1>5. Policy!MapThenSumSet(LAMBDA e : CostOf[e], S) = MapThenSumSet(LAMBDA e : CostOf[e], S)
    BY Zenon DEF Policy!MapThenSumSet, Policy!MapThenFoldSet, MapThenSumSet, MapThenFoldSet
  <1> QED
    BY <1>3, <1>4, <1>5 DEF Total

\* What was reported of a run is at most what its row says.
LEMMA ReportedIsStored ==
    ASSUME ObsTypeOK, StoredInv, NEW r \in Evaluations
    PROVE  /\ ReportedCost[r] \in Nat /\ CostOf[r] \in Nat
           /\ row[r] # Null => ReportedCost[r] <= CostOf[r]
  <1> DEFINE S == {0} \cup {reading[q] : q \in ToldOf(r)}
  <1>1. ReportedCost[r] = Max(S)
    BY DEF ReportedCost
  <1>2. \A q \in ToldOf(r) : /\ q \in Posts /\ posted[q].run = r /\ reading[q] \in Nat
                             /\ IsStored(q)
    <2> SUFFICES ASSUME NEW q \in ToldOf(r)
                 PROVE  /\ q \in Posts /\ posted[q].run = r /\ reading[q] \in Nat
                        /\ IsStored(q)
      OBVIOUS
    <2>1. /\ q \in Posts /\ posted[q].run = r /\ reading[q] # Null /\ IsSynced(q)
          /\ ~Overlapped(q)
      BY DEF ToldOf, IsSynced, Overlapped
    <2> QED
      BY <2>1, ReadingsAreCosts DEF StoredInv
  <1>3. IsFiniteSet(S) /\ S # {} /\ \A x \in S : x \in Int
    <2>1. IsFiniteSet(ToldOf(r))
      BY PartsAssumption, FS_Subset DEF ToldOf
    <2>2. IsFiniteSet({reading[q] : q \in ToldOf(r)})
      <3> DEFINE T == {reading[q] : q \in ToldOf(r)}
      <3> DEFINE f == [q \in ToldOf(r) |-> reading[q]]
      <3>1. f \in Surjection(ToldOf(r), T)
        BY DEF Surjection
      <3> HIDE DEF f, T
      <3>2. IsFiniteSet(T)
        BY <2>1, <3>1, FS_Surjection
      <3> QED
        BY <3>2 DEF T
    <2>3. IsFiniteSet(S)
      BY <2>2, FS_Singleton, FS_Union
    <2> QED
      BY <1>2, <2>3
  <1>4. Max(S) \in S
    <2> HIDE DEF S
    <2> QED
      BY <1>3, MaxIsElement
  <1>5. CostOf[r] \in Nat
    <2>1. row[r] # Null => row[r].cost \in Nat \cup {Null}
      BY PartsAssumption DEF ObsTypeOK, Costs
    <2> QED
      BY <2>1 DEF CostOf
  <1>6. \A x \in S : x \in Nat /\ (row[r] # Null => x <= CostOf[r])
    <2> SUFFICES ASSUME NEW x \in S
                 PROVE  x \in Nat /\ (row[r] # Null => x <= CostOf[r])
      OBVIOUS
    <2>1. CASE x = 0
      BY <1>5, <2>1
    <2>2. CASE x # 0
      <3>1. PICK q \in ToldOf(r) : x = reading[q]
        BY <2>2
      <3>2. row[r] # Null /\ row[r].cost # Null /\ row[r].cost >= reading[q]
        BY <1>2, <3>1 DEF IsStored
      <3>3. CostOf[r] = row[r].cost
        BY <3>2 DEF CostOf
      <3> QED
        BY <1>2, <1>5, <3>1, <3>2, <3>3
    <2> QED
      BY <2>1, <2>2
  <1> HIDE DEF S
  <1> QED
    BY <1>1, <1>4, <1>5, <1>6

\* So the sum of what was reported is at most what an evaluation reads.
LEMMA ReportedIsSpent ==
    ASSUME ObsTypeOK, StoredInv, NEW p, NEW day
    PROVE  Policy!SpentOn(p, day) >= Total(ReportedCost, Counted(p, day))
  <1> DEFINE W == Counted(p, day)
  <1>1. CostOf \in [Evaluations -> Nat]
    <2>1. CostOf = [e \in Evaluations |-> CostOf[e]]
      BY DEF CostOf
    <2> QED
      BY <2>1, ReportedIsStored
  <1>2. ReportedCost \in [Evaluations -> Nat]
    <2>1. ReportedCost = [e \in Evaluations |-> ReportedCost[e]]
      BY DEF ReportedCost
    <2> QED
      BY <2>1, ReportedIsStored
  <1>3. \A e \in W : e \in Evaluations /\ ReportedCost[e] <= CostOf[e] /\ CostOf[e] \in Nat
    BY ReportedIsStored DEF Counted
  <1>4. W \in SUBSET Evaluations /\ IsFiniteSet(Evaluations)
    BY PolicyConstants DEF Counted
  <1>5. Policy!SpentOn(p, day) = Total(CostOf, W)
    BY SpentIsTotal
  <1> HIDE DEF W
  <1>6. \A e \in W : ReportedCost[e] <= (IF e \in W THEN CostOf[e] ELSE 0)
    BY <1>3
  <1>7. Total(ReportedCost, W) <= Total(CostOf, W)
    <2> HIDE DEF Total
    <2> QED
      BY <1>1, <1>2, <1>4, <1>6, TotalBound
  <1>8. Total(ReportedCost, W) \in Nat /\ Total(CostOf, W) \in Nat
    BY <1>1, <1>2, <1>4, TotalType
  <1> QED
    BY <1>5, <1>7, <1>8 DEF W

LEMMA CostsInit == Init => CostsInv
  <1> SUFFICES ASSUME Init
               PROVE  CostsInv
    OBVIOUS
  <1>1. /\ point = [q \in Posts |-> "idle"] /\ reading = [q \in Posts |-> Null]
        /\ flags = [q \in Posts |-> {}] /\ before = [q \in Posts |-> {}]
        /\ stage = [e \in Evaluations |-> "idle"] /\ spend = [e \in Evaluations |-> 0]
    BY DEF Init, Obs!Init, Policy!Init
  <1>2. HistoryInv
    BY <1>1 DEF HistoryInv, IsSynced
  <1>3. StoredInv
    BY <1>1 DEF StoredInv, IsSynced
  <1>4. StageInv
    BY <1>1 DEF StageInv
  <1> QED
    BY <1>2, <1>3, <1>4, GovInit DEF CostsInv

\* A row that the Manager makes or starts keeps the cost it had.
LEMMA ManagedCosts ==
    ASSUME ObsTypeOK, NEW e \in Evaluations, MakeRow(e) \/ StartRun(e)
    PROVE  /\ UNCHANGED <<posted, point, reading, flags, before, ingested, stage, spend>>
           /\ \A r \in Evaluations :
                 row[r] # Null => row'[r] # Null /\ row'[r].cost = row[r].cost
  <1>1. /\ row \in [Evaluations -> Obs!RowType \cup {Null}] /\ Null \notin Obs!RowType
    BY PartsAssumption DEF ObsTypeOK
  <1>2. UNCHANGED <<posted, point, reading, flags, before, ingested>>
    BY DEF MakeRow, StartRun, Obs!Insert, Obs!Start, Obs!handler, Obs!world, Obs!history
  <1>3. UNCHANGED <<stage, spend>>
    BY DEF MakeRow, StartRun, Policy!MakeRow, Policy!StartRun, Policy!evaluation
  <1>4. CASE Obs!Insert(e, FALSE) \/ Obs!Insert(e, TRUE)
    <2>1. \A r \in Evaluations : row[r] # Null => row'[r] = row[r]
      BY <1>1, <1>4 DEF Obs!Insert
    <2> QED
      BY <1>2, <1>3, <2>1
  <1>5. CASE Obs!Start(e)
    <2> DEFINE new == [row[e] EXCEPT !.status = "running", !.started = TRUE]
    <2>1. row[e] # Null /\ row[e] \in Obs!RowType
      BY <1>1, <1>5 DEF Obs!Start
    <2>2. row' = [row EXCEPT ![e] = new]
      BY <1>1, <1>5 DEF Obs!Start
    <2>3. new \in Obs!RowType /\ new.cost = row[e].cost
      BY <2>1 DEF Obs!RowType, Obs!RunStatuses
    <2> HIDE DEF new
    <2>4. \A r \in Evaluations : row[r] # Null => row'[r] # Null /\ row'[r].cost = row[r].cost
      BY <1>1, <2>2, <2>3
    <2> QED
      BY <1>2, <1>3, <2>4
  <1> QED
    BY <1>4, <1>5 DEF MakeRow, StartRun

LEMMA CostsStep == CostsInv /\ [Next]_vars => CostsInv'
  <1> SUFFICES ASSUME CostsInv, [Next]_vars
               PROVE  CostsInv'
    OBVIOUS
  <1>0. /\ GovInv /\ ObsTypeOK /\ HistoryInv /\ StoredInv /\ StageInv
        /\ ingested \in Nat /\ ingested >= ingested
    <2>1. GovInv /\ ObsTypeOK /\ HistoryInv /\ StoredInv /\ StageInv
      BY DEF CostsInv, GovInv
    <2>2. ingested \in Nat
      BY <2>1, PartsAssumption DEF ObsTypeOK, Costs
    <2> QED
      BY <2>1, <2>2
  <1>1. GovInv'
    BY <1>0, GovStep
  <1>2. CASE PolicyStep
    <2>1. UNCHANGED <<row, posted, point, reading, flags, before, ingested>>
      BY <1>2 DEF PolicyStep, observer
    <2> QED
      BY <1>0, <1>1, <1>2, <2>1, OthersKeepStored, StageStep DEF CostsInv
  <1>3. CASE \E e \in Evaluations : MakeRow(e) \/ StartRun(e)
    <2>1. /\ UNCHANGED <<posted, point, reading, flags, before, ingested, stage, spend>>
          /\ \A r \in Evaluations :
                row[r] # Null => row'[r] # Null /\ row'[r].cost = row[r].cost
      BY <1>0, <1>3, ManagedCosts
    <2>2. StageInv'
      BY <1>0, <2>1 DEF StageInv
    <2> QED
      BY <1>0, <1>1, <2>1, <2>2, OthersKeepStored DEF CostsInv
  <1>4. CASE \E q \in Posts : ObsStep(q)
    <2>1. PICK q \in Posts : Obs!Step(q) /\ UNCHANGED policy
      BY <1>4 DEF ObsStep
    <2>2. HistoryInv' /\ StoredInv'
      BY <1>0, <2>1, HistoryObs, StoredObs
    <2>3. StageInv'
      BY <1>0, <2>1 DEF StageInv, policy
    <2> QED
      BY <1>1, <2>2, <2>3 DEF CostsInv
  <1>5. CASE Ingest
    <2>1. UNCHANGED <<row, posted, point, reading, flags, before, stage, spend>>
          /\ ingested' = ingested + 1
      BY <1>5 DEF Ingest, Obs!Ingest, Obs!handler, Obs!history, policy
    <2>2. ingested' \in Nat /\ ingested' >= ingested
      BY <1>0, <2>1
    <2>3. StageInv'
      BY <1>0, <2>1 DEF StageInv
    <2> QED
      BY <1>0, <1>1, <2>1, <2>2, <2>3, OthersKeepStored DEF CostsInv
  <1>6. CASE UNCHANGED vars
    <2>1. UNCHANGED <<row, posted, point, reading, flags, before, ingested, stage, spend>>
      BY <1>6 DEF vars, policy, observer
    <2>2. StageInv'
      BY <1>0, <2>1 DEF StageInv
    <2> QED
      BY <1>0, <1>1, <2>1, <2>2, OthersKeepStored DEF CostsInv
  <1> QED
    BY <1>2, <1>3, <1>4, <1>5, <1>6 DEF Next, Quiescent

\* Every evaluation reads at least what was reported before.
LEMMA SumsAreSpent ==
    ASSUME CostsInv, [Next]_vars, NEW e \in Evaluations, stage[e] = "spend",
           stage'[e] = "active", NEW p \in Policy!Applicable(e)
    PROVE  spend'[e] >= Total(ReportedCost, Counted(p, asOf[e]))
  <1>1. ObsTypeOK /\ StoredInv /\ StageInv
    BY DEF CostsInv, GovInv
  <1>2. stage' # stage
    OBVIOUS
  <1>3. PolicyStep
    <2>1. ASSUME NEW d \in Evaluations, MakeRow(d) \/ StartRun(d) PROVE stage' = stage
      BY <1>1, <2>1, ManagedCosts
    <2>2. ASSUME NEW q \in Posts, ObsStep(q) PROVE stage' = stage
      BY <2>2 DEF ObsStep, policy
    <2>3. ASSUME Ingest \/ UNCHANGED vars PROVE stage' = stage
      BY <2>3 DEF Ingest, vars, policy
    <2> QED
      BY <1>2, <2>1, <2>2, <2>3 DEF Next, Quiescent
  <1>4. PICK r \in Policy!Applicable(e) : spend'[e] = Policy!SpentOn(r, asOf[e])
    BY <1>1, <1>3, StageStep
  <1>5. r = p
    BY PolicyConstants DEF Policy!Applicable
  <1> QED
    BY <1>1, <1>4, <1>5, ReportedIsSpent

\* The row of a run has at least the cost that was reported as stored, unless a
\* request that overlapped replaced it.
THEOREM CostsInductive == Spec => []CostsInv
  BY CostsInit, CostsStep, PTL DEF Spec

\* A cost that a caller was told is stored is in the sum of every evaluation that
\* reads it afterwards, for any number of runs, policies, requests and evaluations.
THEOREM ReportsAreSpent == Spec => ReportedCostsAreSpent
  <1> DEFINE Reads ==
        \A e \in Evaluations : stage[e] = "spend" /\ stage'[e] = "active" =>
          \A p \in Policy!Applicable(e) :
              spend'[e] >= MapThenSumSet(LAMBDA r : ReportedCost[r],
                              {r \in Evaluations : /\ row[r] # Null /\ created[r] = asOf[e]
                                                   /\ Policy!InScope(p, r)})
  <1>1. CostsInv /\ [Next]_vars => Reads
    <2> SUFFICES ASSUME CostsInv, [Next]_vars, NEW e \in Evaluations, stage[e] = "spend",
                        stage'[e] = "active", NEW p \in Policy!Applicable(e)
                 PROVE  spend'[e] >= MapThenSumSet(LAMBDA r : ReportedCost[r],
                              {r \in Evaluations : /\ row[r] # Null /\ created[r] = asOf[e]
                                                   /\ Policy!InScope(p, r)})
      OBVIOUS
    <2>1. spend'[e] >= Total(ReportedCost, Counted(p, asOf[e]))
      BY SumsAreSpent
    <2> QED
      BY <2>1 DEF Total, Counted
  <1>2. CostsInv /\ [Next]_vars => [Reads]_vars
    BY <1>1
  <1> QED
    BY <1>2, CostsInductive, PTL DEF Spec, ReportedCostsAreSpent

-----------------------------------------------------------------------------
(* What is proved of every PolicyBridge holds of this one.                  *)

\* The policy-bridge again, with the theorems about it.
Bridge == INSTANCE PolicyProofs WITH
    Faults <- PolicyFaults, request <- asked, pc <- stage, run <- RunOf, cost <- CostOf

\* The constants are such as those theorems assume.
LEMMA BridgeAssumptions ==
    /\ Bridge!RequestsAssumption /\ Bridge!RunsAssumption /\ Bridge!ScopesAssumption
    /\ Bridge!PoliciesAssumption /\ Bridge!FaultsAssumption /\ Bridge!BoundsAssumption
    /\ Bridge!NullAssumption /\ Bridge!FiniteAssumption
  BY PolicyAssumption
  DEF Bridge!RequestType, Policy!RequestType, Bridge!PolicyType, Policy!PolicyType,
      Bridge!ScopeTypes, Policy!ScopeTypes, Bridge!Levels, Policy!Levels,
      Bridge!IsFiniteSet, Policy!IsFiniteSet

\* Both instances have the same rows and sums ...
LEMMA SameRows ==
    ASSUME NEW p, NEW d
    PROVE  Bridge!CountedOn(p, d) = Policy!CountedOn(p, d)
  BY Zenon DEF Bridge!CountedOn, Policy!CountedOn, Bridge!InScope, Policy!InScope

LEMMA SameTotals ==
    ASSUME NEW S
    PROVE  Bridge!MapThenSumSet(LAMBDA e : CostOf[e], S)
              = Policy!MapThenSumSet(LAMBDA e : CostOf[e], S)
  BY Zenon DEF Bridge!MapThenSumSet, Policy!MapThenSumSet, Bridge!MapThenFoldSet,
         Policy!MapThenFoldSet

LEMMA SameSums ==
    ASSUME NEW p, NEW d
    PROVE  Bridge!SpentOn(p, d) = Policy!SpentOn(p, d)
  <1>1. /\ Bridge!SpentOn(p, d)
              = Bridge!MapThenSumSet(LAMBDA e : CostOf[e], Bridge!CountedOn(p, d))
        /\ Policy!SpentOn(p, d)
              = Policy!MapThenSumSet(LAMBDA e : CostOf[e], Policy!CountedOn(p, d))
    BY Zenon DEF Bridge!SpentOn, Policy!SpentOn
  <1>2. Bridge!MapThenSumSet(LAMBDA e : CostOf[e], Policy!CountedOn(p, d))
           = Policy!MapThenSumSet(LAMBDA e : CostOf[e], Policy!CountedOn(p, d))
    BY Zenon, SameTotals
  <1> QED
    BY Zenon, <1>1, <1>2, SameRows

\* ... and the same steps.
LEMMA SameEvaluations ==
    ASSUME NEW e \in Evaluations
    PROVE  Policy!Evaluate(e) => Bridge!Evaluate(e)
  <1> USE DEF Bridge!evaluation, Policy!evaluation, Bridge!decision, Policy!decision,
              Bridge!gates, Policy!gates, Bridge!runs, Policy!runs
  <1> USE DEF Bridge!Goto, Policy!Goto, Bridge!Reply, Policy!Reply,
              Bridge!InFlightPoints, Policy!InFlightPoints
  <1>1. /\ Policy!Applicable(e) = Bridge!Applicable(e)
        /\ \A x : Policy!AfterScope(e, x) <=> Bridge!AfterScope(e, x)
    BY DEF Policy!Applicable, Bridge!Applicable, Policy!ScopeOrder, Bridge!ScopeOrder,
           Policy!AfterScope, Bridge!AfterScope, Policy!LastScope, Bridge!LastScope,
           Policy!AutoApproved, Bridge!AutoApproved, Policy!IsAutoApproved, Bridge!IsAutoApproved
  <1>2. Policy!Receive(e) => Bridge!Receive(e)
    BY DEF Policy!Receive, Bridge!Receive, Policy!Granting, Bridge!Granting,
           Policy!Cardinality, Bridge!Cardinality
  <1>3. Policy!FetchPolicy(e) => Bridge!FetchPolicy(e)
    BY <1>1 DEF Policy!FetchPolicy, Bridge!FetchPolicy
  <1>4. Policy!ReadSpend(e) => Bridge!ReadSpend(e)
    BY <1>1, SameSums DEF Policy!ReadSpend, Bridge!ReadSpend
  <1>5. Policy!ReadActive(e) => Bridge!ReadActive(e)
    <2>1. \A p, x, n : Policy!LimitsExceeded(p, e, x, n) = Bridge!LimitsExceeded(p, e, x, n)
      BY DEF Policy!LimitsExceeded, Bridge!LimitsExceeded, Policy!Limits, Bridge!Limits
    <2>2. \A p : Policy!Cardinality(Policy!Active(p)) = Bridge!Cardinality(Bridge!Active(p))
      BY DEF Policy!Active, Bridge!Active, Policy!InScope, Bridge!InScope,
             Policy!Cardinality, Bridge!Cardinality
    <2> DEFINE Here(p) == violated[e] \cup Policy!LimitsExceeded(p, e, spend[e],
                                                   Policy!Cardinality(Policy!Active(p)))
               There(p) == violated[e] \cup Bridge!LimitsExceeded(p, e, spend[e],
                                                   Bridge!Cardinality(Bridge!Active(p)))
    <2>3. \A p : Here(p) = There(p)
      BY <2>1, <2>2
    <2>4. \A p : Policy!AfterScope(e, Here(p)) <=> Bridge!AfterScope(e, There(p))
      BY <1>1, <2>3
    <2> QED
      BY <1>1, <2>4 DEF Policy!ReadActive, Bridge!ReadActive
  <1>6. Policy!QueryFails(e) => Bridge!QueryFails(e)
    BY DEF Policy!QueryFails, Bridge!QueryFails
  <1>7. Policy!Create(e) => Bridge!Create(e)
    BY DEF Policy!Create, Bridge!Create, Policy!Outcomes, Bridge!Outcomes,
           Policy!Takes, Bridge!Takes
  <1>8. Policy!Notify(e) \/ Policy!Crash(e) => Bridge!Notify(e) \/ Bridge!Crash(e)
    BY DEF Policy!Notify, Bridge!Notify, Policy!Crash, Bridge!Crash
  <1> QED
    BY <1>2, <1>3, <1>4, <1>5, <1>6, <1>7, <1>8 DEF Policy!Evaluate, Bridge!Evaluate

LEMMA SameSteps == [Policy!Next]_(Policy!vars) => [Bridge!Next]_(Bridge!vars)
  <1> USE DEF Bridge!vars, Policy!vars, Bridge!evaluation, Policy!evaluation, Bridge!decision,
              Policy!decision, Bridge!gates, Policy!gates, Bridge!runs, Policy!runs
  <1> SUFFICES ASSUME [Policy!Next]_(Policy!vars)
               PROVE  [Bridge!Next]_(Bridge!vars)
    OBVIOUS
  <1>1. ASSUME NEW e \in Evaluations, Policy!MakeRow(e) \/ Policy!StartRun(e)
        PROVE  Bridge!Next
    BY <1>1
    DEF Policy!MakeRow, Bridge!MakeRow, Policy!StartRun, Bridge!StartRun, Bridge!Next
  <1>2. ASSUME NEW e \in Evaluations,
               Policy!EndRun(e) \/ Policy!RecordCost(e) \/ Policy!Reopen(e)
        PROVE  Bridge!Next
    BY <1>2
    DEF Policy!EndRun, Bridge!EndRun, Policy!RecordCost, Bridge!RecordCost, Policy!Reopen,
        Bridge!Reopen, Bridge!Next, Policy!Cardinality, Bridge!Cardinality
  <1>3. ASSUME NEW d \in Decisions, Policy!Decide(d) PROVE Bridge!Next
    <2>1. Bridge!Decide(d)
      BY <1>3 DEF Policy!Decide, Bridge!Decide, Policy!Outcomes,
             Bridge!Outcomes, Policy!Takes, Bridge!Takes
    <2> QED
      BY <2>1 DEF Bridge!Next
  <1>4. ASSUME Policy!Midnight \/ Policy!Quiescent PROVE Bridge!Next
    BY <1>4
    DEF Policy!Midnight, Bridge!Midnight, Policy!Quiescent, Bridge!Quiescent, Bridge!Next
  <1> QED
    BY <1>1, <1>2, <1>3, <1>4, SameEvaluations DEF Policy!Next, Bridge!Next

\* So whatever is proved of PolicyBridge is true of the two bridges.
LEMMA BridgeImplemented == Spec => Bridge!Spec
  <1>1. Policy!Init => Bridge!Init
    BY DEF Policy!Init, Bridge!Init
  <1>2. Policy!Spec => Bridge!Spec
    BY <1>1, SameSteps, PTL DEF Policy!Spec, Bridge!Spec
  <1> QED
    BY <1>2, PolicyImplemented DEF PolicySpec

\* Whatever runs cost, the rows of the two bridges show a day over its limit only
\* through the few runs that PolicyBridge counts.
THEOREM SpendIsBounded == Spec => []SpendOverrunIsBounded
  <1>1. Bridge!Spec => []Bridge!SpendOverrunIsBounded
    BY BridgeAssumptions, Bridge!SpendBounded
  <1>2. Bridge!SpendOverrunIsBounded => SpendOverrunIsBounded
    <2> SUFFICES ASSUME Bridge!SpendOverrunIsBounded, NEW p \in Policies, NEW d \in 1..MaxDay
                 PROVE  \E late \in SUBSET Policy!CountedOn(p, d) :
                           /\ Policy!Cardinality(late) <= Policy!Unseen(p)
                           /\ Policy!MapThenSumSet(LAMBDA e : CostOf[e],
                                                  Policy!CountedOn(p, d) \ late) <= p.daily
      BY DEF SpendOverrunIsBounded, Policy!SpendOverrunIsBounded
    <2>1. PICK late \in SUBSET Bridge!CountedOn(p, d) :
             /\ Bridge!Cardinality(late) <= Bridge!Unseen(p)
             /\ Bridge!MapThenSumSet(LAMBDA e : CostOf[e],
                                    Bridge!CountedOn(p, d) \ late) <= p.daily
      BY DEF Bridge!SpendOverrunIsBounded
    <2>2. late \in SUBSET Policy!CountedOn(p, d)
      BY SameRows
    <2>3. Policy!Cardinality(late) <= Policy!Unseen(p)
      BY <2>1 DEF Policy!Cardinality, Bridge!Cardinality, Policy!Unseen, Bridge!Unseen
    <2>4. Policy!MapThenSumSet(LAMBDA e : CostOf[e], Policy!CountedOn(p, d) \ late) <= p.daily
      <3>1. Bridge!CountedOn(p, d) \ late = Policy!CountedOn(p, d) \ late
        BY Zenon, SameRows
      <3> QED
        BY <2>1, <3>1, SameTotals
    <2> QED
      BY <2>2, <2>3, <2>4
  <1> QED
    BY <1>1, <1>2, BridgeImplemented, PTL

\* Nor do completions and syncs, late, repeated or lost, let a concurrency limit be
\* overrun by more than PolicyBridge says, a run that nobody cleared be among the
\* started ones, a gate be opened for a run that a limit stopped, or an approval that
\* was answered be gone.
THEOREM LimitsAreKept ==
    Spec => [](/\ Policy!OverrunIsBounded /\ Policy!StartedRunsWereCleared
               /\ Policy!GatesFollowBudgets /\ Policy!AnsweredGatesAreDurable)
  <1>1. Bridge!Spec => []Bridge!OverrunIsBounded
    BY BridgeAssumptions, Bridge!OverrunBounded
  <1>2. Bridge!Spec => []Bridge!StartedRunsWereCleared
    BY BridgeAssumptions, Bridge!RunsCleared
  <1>3. Bridge!Spec => []Bridge!GatesFollowBudgets
    BY BridgeAssumptions, Bridge!BudgetsFirst
  <1>4. Bridge!Spec => []Bridge!AnsweredGatesAreDurable
    BY BridgeAssumptions, Bridge!GatesDurable
  <1>5. Bridge!OverrunIsBounded => Policy!OverrunIsBounded
    BY DEF Policy!OverrunIsBounded, Bridge!OverrunIsBounded, Policy!Running, Bridge!Running,
           Policy!InScope, Bridge!InScope, Policy!Cardinality, Bridge!Cardinality
  <1>6. Bridge!StartedRunsWereCleared => Policy!StartedRunsWereCleared
    BY DEF Policy!StartedRunsWereCleared, Bridge!StartedRunsWereCleared, Policy!Started,
           Bridge!Started, Policy!HumanCells, Bridge!HumanCells, Policy!Levels, Bridge!Levels
  <1>7. Bridge!GatesFollowBudgets => Policy!GatesFollowBudgets
    BY DEF Policy!GatesFollowBudgets, Bridge!GatesFollowBudgets, Policy!AutoApproved,
           Bridge!AutoApproved, Policy!IsAutoApproved, Bridge!IsAutoApproved
  <1>8. Bridge!AnsweredGatesAreDurable => Policy!AnsweredGatesAreDurable
    BY DEF Policy!AnsweredGatesAreDurable, Bridge!AnsweredGatesAreDurable
  <1> QED
    BY <1>1, <1>2, <1>3, <1>4, <1>5, <1>6, <1>7, <1>8, BridgeImplemented, PTL

\* And what the callers of the two see of approvals is the abstract gate.
THEOREM GateIsKept == Spec => Bridge!GateSpec
  BY BridgeAssumptions, Bridge!GateImplemented, BridgeImplemented, PTL

-----------------------------------------------------------------------------
(* What is proved of every TaskRuns holds of this one.                      *)

\* What the observability-bridge sees of its own start ...
LEMMA ObsStarts == Init => Obs!Init
  BY DEF Init

\* ... and of every step: what the policy-bridge does is none of its business, and
\* the Manager inserts and starts rows as it expects.
LEMMA ObsSteps == [Next]_vars => [Obs!Next]_(Obs!vars)
  <1> SUFFICES ASSUME [Next]_vars PROVE Obs!Next \/ UNCHANGED Obs!vars
    OBVIOUS
  <1> USE DEF Obs!vars, Obs!handler, Obs!world, Obs!history
  <1>1. CASE PolicyStep
    BY <1>1 DEF PolicyStep, observer
  <1>2. ASSUME NEW e \in Evaluations, MakeRow(e) \/ StartRun(e) PROVE Obs!Next
    BY <1>2 DEF MakeRow, StartRun, Obs!Next
  <1>3. ASSUME NEW q \in Posts, ObsStep(q) PROVE Obs!Next
    BY <1>3 DEF ObsStep, Obs!Next
  <1>4. CASE Ingest
    BY <1>4 DEF Ingest, Obs!Next
  <1>5. CASE UNCHANGED vars
    BY <1>5 DEF vars, observer
  <1> QED
    BY <1>1, <1>2, <1>3, <1>4, <1>5 DEF Next, Quiescent

\* The policy-bridge and the Manager are an environment such as TaskRuns allows: a
\* row is inserted once and started once, no budget check or approval writes a row,
\* and the bounds on what arrives only leave behaviours out.
THEOREM ObsImplemented == Spec => Obs!Spec
  BY ObsStarts, ObsSteps, PTL DEF Spec, Obs!Spec

\* The observability-bridge again, with the theorems about it.
Records == INSTANCE TaskRunsProofs WITH
    Runs <- Evaluations, Requests <- Completions, Faults <- LinkFaults,
    request <- posted, pc <- point, answer <- reported, cost <- ingested

LEMMA RecordsAssumptions ==
    Records!RequestsAssumption /\ Records!FaultsAssumption /\ Records!ConstantsAssumption
  BY PartsAssumption
  DEF Records!RequestType, Obs!RequestType, Records!RowType, Obs!RowType,
      Records!RunStatuses, Obs!RunStatuses

LEMMA SameHandlerSteps ==
    ASSUME NEW q \in Posts
    PROVE  Obs!Step(q) => Records!Step(q)
  <1> USE DEF Obs!handler, Records!handler, Obs!world, Records!world, Obs!history,
              Records!history, Obs!Goto, Records!Goto, Obs!Reply, Records!Reply,
              Obs!AfterSync, Records!AfterSync
  <1> USE DEF Obs!Outcomes, Records!Outcomes, Obs!Takes, Records!Takes, Obs!Exists,
              Records!Exists, Obs!OldRow, Records!OldRow, Obs!Coalesce, Records!Coalesce,
              Obs!Update, Records!Update
  <1>1. Obs!Receive(q) => Records!Receive(q)
    BY DEF Obs!Receive, Records!Receive, Obs!InFlightPoints, Records!InFlightPoints,
           Obs!Cardinality, Records!Cardinality
  <1>2. Obs!Link(q) => Records!Link(q)
    BY DEF Obs!Link, Records!Link
  <1>3. Obs!ReadTrace(q) => Records!ReadTrace(q)
    BY DEF Obs!ReadTrace, Records!ReadTrace, Obs!IsLinked, Records!IsLinked
  <1>4. Obs!Fetch(q) => Records!Fetch(q)
    BY DEF Obs!Fetch, Records!Fetch
  <1>5. Obs!Store(q) => Records!Store(q)
    BY SMTT(30) DEF Obs!Store, Records!Store
  <1>6. Obs!Complete(q) => Records!Complete(q)
    BY DEF Obs!Complete, Records!Complete, Obs!TooEarly, Records!TooEarly
  <1>7. Obs!Graphiti(q) => Records!Graphiti(q)
    BY DEF Obs!Graphiti, Records!Graphiti
  <1>8. Obs!Crash(q) => Records!Crash(q)
    BY DEF Obs!Crash, Records!Crash, Obs!InFlightPoints, Records!InFlightPoints
  <1> QED
    BY <1>1, <1>2, <1>3, <1>4, <1>5, <1>6, <1>7, <1>8 DEF Obs!Step, Records!Step

LEMMA SameRecordSteps == [Obs!Next]_(Obs!vars) => [Records!Next]_(Records!vars)
  <1> USE DEF Obs!vars, Records!vars, Obs!handler, Records!handler, Obs!world,
              Records!world, Obs!history, Records!history
  <1> SUFFICES ASSUME Obs!Next PROVE Records!Next
    OBVIOUS
  <1>1. ASSUME NEW r \in Evaluations, NEW started \in BOOLEAN,
               Obs!Start(r) \/ Obs!Insert(r, started)
        PROVE  Records!Next
    BY <1>1
    DEF Obs!Start, Records!Start, Obs!Insert, Records!Insert, Obs!NewRow, Records!NewRow,
        Records!Next
  <1>2. ASSUME Obs!Ingest \/ Obs!Quiescent PROVE Records!Next
    BY <1>2 DEF Obs!Ingest, Records!Ingest, Obs!Quiescent, Records!Quiescent, Records!Next
  <1> QED
    BY <1>1, <1>2, SameHandlerSteps DEF Obs!Next, Records!Next

LEMMA RecordsImplemented == Spec => Records!Spec
  <1>1. Obs!Init => Records!Init
    BY DEF Obs!Init, Records!Init
  <1>2. Obs!Spec => Records!Spec
    BY <1>1, SameRecordSteps, PTL DEF Obs!Spec, Records!Spec
  <1> QED
    BY <1>2, ObsImplemented

\* The promises of the observability-bridge to its callers are kept beside a
\* policy-bridge and a Manager that work on the same rows: completions stay, links
\* survive, reported numbers are in the row, or newer ones, or those that an
\* overlapping request read, and flags are true.
THEOREM RecordsAreTrue ==
    Spec => [](/\ Obs!CompletionIsKept /\ Obs!LinksSurvive
               /\ Obs!SyncsAreFresh /\ Obs!FlagsAreTruthful)
  <1> USE DEF Obs!Exists, Records!Exists, Obs!OldRow, Records!OldRow, Obs!SameRun,
              Records!SameRun, Obs!Arrived, Records!Arrived, Obs!Overlap, Records!Overlap
  <1>1. Records!Spec => []Records!CompletionIsKept
    BY RecordsAssumptions, Records!CompletionsAreKept
  <1>2. Records!Spec => []Records!LinksSurvive
    BY RecordsAssumptions, Records!LinkedTracesSurvive
  <1>3. Records!Spec => []Records!SyncsAreFresh
    BY RecordsAssumptions, Records!SyncsStayFresh
  <1>4. Records!Spec => []Records!FlagsAreTruthful
    BY RecordsAssumptions, Records!FlagsStayTruthful
  <1>5. Records!CompletionIsKept => Obs!CompletionIsKept
    BY DEF Records!CompletionIsKept, Obs!CompletionIsKept
  <1>6. Records!LinksSurvive => Obs!LinksSurvive
    BY DEF Records!LinksSurvive, Obs!LinksSurvive
  <1>7. Records!SyncsAreFresh => Obs!SyncsAreFresh
    BY DEF Records!SyncsAreFresh, Obs!SyncsAreFresh, Records!IsAsFresh, Obs!IsAsFresh,
           Records!IsFromBeside, Obs!IsFromBeside
  <1>8. Records!FlagsAreTruthful => Obs!FlagsAreTruthful
    BY DEF Records!FlagsAreTruthful, Obs!FlagsAreTruthful
  <1> QED
    BY <1>1, <1>2, <1>3, <1>4, <1>5, <1>6, <1>7, <1>8, RecordsImplemented, PTL

\* Nor does the Manager or the policy-bridge clear a column of a run.
THEOREM RecordsAreKeptTogether == Spec => Obs!RecordsAreKept
  <1>1. Records!Spec => Records!RecordsAreKept
    BY RecordsAssumptions, Records!RecordsStay
  <1>2. Records!RecordsAreKept => Obs!RecordsAreKept
    BY PTL
    DEF Records!RecordsAreKept, Obs!RecordsAreKept, Records!vars, Obs!vars,
        Records!handler, Obs!handler, Records!world, Obs!world, Records!history, Obs!history
  <1> QED
    BY <1>1, <1>2, RecordsImplemented, PTL

=============================================================================
