---------------------------- MODULE PublishStatus ----------------------------
(***************************************************************************)
(* GET /publish/{task_run_id}/status beside the calls that publish: two    *)
(* queries, between which the handlers of POST /publish go on.             *)
(***************************************************************************)
EXTENDS Publisher

CONSTANTS
    Readers,  \* the status requests
    ItemOf    \* task_runs.work_item_id

ASSUME ItemOfAssumption == ItemOf \in [RunRows -> Rows]

VARIABLE report  \* report[r]: how far request r is and what it has read

statusVars == <<vars, report>>

Report == [state : {"idle", "joined", "answered", "not_found", "error"},
           run : TaskRuns \cup {Null}, status : Statuses \cup {Null},
           published : SUBSET Targets]

NoReport == [state |-> "idle", run |-> Null, status |-> Null, published |-> {}]

StatusInit == Init /\ report = [r \in Readers |-> NoReport]

\* The targets whose ref column is set, in the row of an item.
PublishedTargets(row) == {t \in Targets : row[RefField[t]] # Null}

\* Mutant of ReadTask: external_refs is joined on a key that never matches.
ReadTaskWrongJoin(r, run) ==
    /\ report[r].state = "idle" /\ run \in RunRows
    /\ report' = [report EXCEPT ![r] =
                    [state |-> "joined", run |-> run,
                     status |-> status[ItemOf[run]], published |-> {}]]
    /\ UNCHANGED vars

\* The join of task_runs, work_items and external_refs, in one statement.
ReadTask(r, run) ==
    /\ report[r].state = "idle"
    /\ \E outcome \in Outcomes :
        report' = [report EXCEPT ![r] =
            IF outcome # "ok" THEN [NoReport EXCEPT !.state = "error"]
            ELSE IF run \notin RunRows THEN [NoReport EXCEPT !.state = "not_found"]
            ELSE [state |-> "joined", run |-> run,
                  status |-> status[ItemOf[run]],
                  published |-> PublishedTargets(refs[ItemOf[run]])]]
    /\ UNCHANGED vars

\* The artifacts of the run.  The pool has no codec for jsonb, so metadata_json
\* of a row is a string, and dict() of a string raises.
ReadArtifacts(r) ==
    /\ report[r].state = "joined"
    /\ \E outcome \in Outcomes :
        report' = [report EXCEPT ![r].state =
            IF outcome # "ok" \/ \E c \in artifacts : call[c].run = report[r].run
            THEN "error" ELSE "answered"]
    /\ UNCHANGED vars

StatusNext ==
    \/ Next /\ UNCHANGED report
    \/ \E r \in Readers : \/ \E run \in TaskRuns : ReadTask(r, run)
                          \/ ReadArtifacts(r)

StatusSpec == StatusInit /\ [][StatusNext]_statusVars

FairStatusSpec == StatusSpec /\ \A c \in Calls : WF_vars(TimedStep(c))

\* A report that shows the item complete shows a published target: status and
\* refs of a report are of one moment.
CompleteReportsShowARef ==
    \A r \in Readers :
        report[r].state = "answered" /\ report[r].status = "complete" =>
            report[r].published # {}

=============================================================================
