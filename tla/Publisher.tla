------------------------------ MODULE Publisher ------------------------------
(***************************************************************************)
(* The publisher-bridge: the handler of POST /publish, the repository it   *)
(* keeps its ledger in (work_items.status, external_refs, artifacts) and   *)
(* the external systems it writes to.                                      *)
(*                                                                         *)
(* A call is one HTTP request; a retry is another call with the same       *)
(* content, and calls of any number of callers and replicas interleave at  *)
(* every await of the handler.  One action stands for the code between two *)
(* awaits.  Every database statement and every request to an external      *)
(* system has three outcomes: it works ("ok"), it fails and changes        *)
(* nothing ("refused"), or it takes effect and its answer is lost          *)
(* ("unknown": a timeout or a broken connection after the commit).         *)
(*                                                                         *)
(* An object an external system creates for call c is identified by c.     *)
(***************************************************************************)
EXTENDS FiniteSets, Naturals

CONSTANTS
    Calls,       \* the POST /publish requests that may arrive
    WorkItems,   \* work item ids a request may name
    Rows,        \* those that have a row in clawcluster.work_items
    TaskRuns,    \* task run ids a request may name
    RunRows,     \* those that have a row in clawcluster.task_runs
    Documents,   \* external objects that exist before and may be updated
    Projects,    \* GitLab projects
    Branches,    \* GitLab branches, each of one project
    Files,       \* files a commit may create or update
    BaseFiles,   \* files the base branch already holds
    Requests,    \* the request bodies callers send
    Faults,      \* what the environment may do to the bridge
    MaxInFlight, \* bound on the calls handled at the same time
    WorkerThreads, \* bound on the threads of asyncio's default executor
    NoneString,  \* the text "None", str(None) in Python
    Null         \* SQL NULL; also "no such metadata key"

Targets == {"outline", "gitlab_branch", "gitlab_mr", "dify", "n8n"}
GitLabTargets == {"gitlab_branch", "gitlab_mr"}

\* The columns of clawcluster.external_refs that publication writes.
Columns == {"outline_doc_id", "gitlab_project_id", "gitlab_mr_iid",
            "dify_workflow_id", "n8n_workflow_id"}

\* The column whose presence proves that a target is published.
RefField == [outline       |-> "outline_doc_id",
             gitlab_branch |-> "gitlab_project_id",
             gitlab_mr     |-> "gitlab_mr_iid",
             dify          |-> "dify_workflow_id",
             n8n           |-> "n8n_workflow_id"]

Statuses == {"in_progress", "publishing", "complete", "failed"}

AllFaults == {"refused", "unknown", "crash", "bad_artifact", "garbled", "no_id"}

\* existing: metadata.document_id for Outline, the id in endpoint_path for an
\* import with http_method PUT; project is Null when the caller forgot it.
RequestType == [item : WorkItems, run : TaskRuns, target : Targets,
                existing : Documents \cup {Null},
                project : Projects \cup {Null}, branch : Branches,
                file : Files, action : {"create", "update"}]

ASSUME RowsAssumption == Rows \subseteq WorkItems /\ RunRows \subseteq TaskRuns
ASSUME RequestsAssumption == Requests \subseteq RequestType
ASSUME FaultsAssumption == Faults \subseteq AllFaults
ASSUME FilesAssumption == BaseFiles \subseteq Files
ASSUME BoundAssumption == MaxInFlight \in Nat \ {0} /\ WorkerThreads \in Nat \ {0}
ASSUME NullAssumption ==
    /\ Null \notin Calls \cup Documents \cup Projects \cup {NoneString}
    /\ NoneString \notin Calls \cup Documents \cup Projects

RefValues == Calls \cup Documents \cup Projects \cup {NoneString}

VARIABLES
    call,      \* call[c]: the body of request c
    threads,   \* the threads of the executor; the machine decides how many
    pc,        \* pc[c]: the await at which the handler of c is suspended
    ident,     \* ident[c]: the identifier read from the external answer
    answer,    \* answer[c]: what the caller of c was told
    hadRef,    \* hadRef[c]: the target's ref was durable when c arrived (history)
    status,    \* work_items.status
    refs,      \* external_refs: one row per work item, Null where unset
    artifacts, \* the calls whose rows are in clawcluster.artifacts
    effects,   \* effects[c]: what c changed in the external system
    branches,  \* the GitLab branches that exist
    files      \* files[b]: the files that branch b holds

vars == <<call, threads, pc, ident, answer, hadRef, status, refs, artifacts,
          effects, branches, files>>

given == <<call, threads>>
ledger == <<status, refs, artifacts>>
external == <<effects, branches, files>>

\* lookup .. fail_*: the suspension points of the handler in program order.
InFlightPoints == {"lookup", "skip", "mark", "prepare", "post", "get_branch",
                   "create_branch", "commit", "open_mr", "upsert",
                   "record_artifacts", "complete", "fail_invalid", "fail_gateway"}
Points == InFlightPoints \cup {"idle", "done"}

\* 200 skipped, 200 published, 400, 502, 500, and no answer at all.
Answers == {"none", "skipped", "published", "invalid", "gateway", "error", "lost"}

Effects == {"object", "commit", "merge_request"}

TypeOK ==
    /\ call \in [Calls -> Requests]
    /\ threads \in 1..WorkerThreads
    /\ pc \in [Calls -> Points]
    /\ ident \in [Calls -> RefValues \cup {Null}]
    /\ answer \in [Calls -> Answers]
    /\ hadRef \in [Calls -> BOOLEAN]
    /\ status \in [Rows -> Statuses]
    /\ refs \in [Rows -> [Columns -> RefValues \cup {Null}]]
    /\ artifacts \subseteq Calls
    /\ effects \in [Calls -> SUBSET Effects]
    /\ branches \subseteq Branches
    /\ files \in [Branches -> SUBSET Files]

Init ==
    /\ call \in [Calls -> Requests]
    /\ threads \in 1..WorkerThreads
    /\ pc = [c \in Calls |-> "idle"]
    /\ ident = [c \in Calls |-> Null]
    /\ answer = [c \in Calls |-> "none"]
    /\ hadRef = [c \in Calls |-> FALSE]
    /\ status = [i \in Rows |-> "in_progress"]
    /\ refs = [i \in Rows |-> [col \in Columns |-> Null]]
    /\ artifacts = {}
    /\ effects = [c \in Calls |-> {}]
    /\ branches = {}
    /\ files = [b \in Branches |-> BaseFiles]

-----------------------------------------------------------------------------
(* Helpers of the handler.                                                  *)

InFlight == {c \in Calls : pc[c] \in InFlightPoints}

\* The points of _publish_sync, which runs in one worker thread.
GitLabPoints == {"get_branch", "create_branch", "commit", "open_mr"}

ThreadsExhausted == Cardinality({c \in Calls : pc[c] \in GitLabPoints}) >= threads

Outcomes == {"ok"} \cup (Faults \cap {"refused", "unknown"})

\* What a database statement or a request changed, whatever it answered.
Takes(outcome) == outcome # "refused"

Goto(c, point) == pc' = [pc EXCEPT ![c] = point]

Reply(c, what) ==
    /\ pc' = [pc EXCEPT ![c] = "done"]
    /\ answer' = [answer EXCEPT ![c] = what]

\* UPDATE work_items SET status: unconditional, and of no effect when the id
\* has no row.
SetStatus(item, new, outcome) ==
    status' = IF Takes(outcome) /\ item \in Rows
              THEN [status EXCEPT ![item] = new]
              ELSE status

\* target_ref_present over get_external_refs: an item without a row has no refs.
TargetRefPresent(item, target) ==
    item \in Rows /\ refs[item][RefField[target]] # Null

\* The external_refs of the publisher's result.
NewRefs(c) ==
    CASE call[c].target = "gitlab_branch" ->
            [gitlab_project_id |-> call[c].project]
      [] call[c].target = "gitlab_mr" ->
            [gitlab_project_id |-> call[c].project, gitlab_mr_iid |-> ident[c]]
      [] OTHER -> [col \in {RefField[call[c].target]} |-> ident[c]]

\* Mutant of Merge: the row is replaced, without COALESCE.
MergeReplacing(row, new) ==
    [col \in Columns |-> IF col \in DOMAIN new THEN new[col] ELSE Null]

\* INSERT ... ON CONFLICT (work_item_id) DO UPDATE SET col = COALESCE(new, old)
\* over the columns of the payload, which holds no None.
Merge(row, new) ==
    [col \in Columns |-> IF col \in DOMAIN new /\ new[col] # Null
                         THEN new[col] ELSE row[col]]

HasOpenMergeRequest(branch) ==
    \E c \in Calls : call[c].branch = branch /\ "merge_request" \in effects[c]

-----------------------------------------------------------------------------
(* POST /publish: the ledger is consulted, and the item marked.             *)

\* A caller sends request c.  Nothing is locked: a second caller, or the same
\* one after a timeout of its own, may be in flight for the same item.
Receive(c) ==
    /\ pc[c] = "idle"
    /\ Cardinality(InFlight) < MaxInFlight
    /\ Goto(c, "lookup")
    /\ hadRef' = [hadRef EXCEPT
                    ![c] = TargetRefPresent(call[c].item, call[c].target)]
    /\ UNCHANGED <<given, ident, answer, ledger, external>>

\* Mutant of Lookup: the result of target_ref_present is not looked at.
LookupIgnoringRefs(c) ==
    /\ pc[c] = "lookup"
    /\ Goto(c, "mark")
    /\ UNCHANGED <<given, ident, answer, hadRef, ledger, external>>

\* get_external_refs and the branch on target_ref_present; a failure here is
\* outside the try block.
Lookup(c) ==
    /\ pc[c] = "lookup"
    /\ \E outcome \in Outcomes :
        IF outcome = "ok"
        THEN /\ Goto(c, IF TargetRefPresent(call[c].item, call[c].target)
                        THEN "skip" ELSE "mark")
             /\ UNCHANGED answer
        ELSE Reply(c, "error")
    /\ UNCHANGED <<given, ident, hadRef, ledger, external>>

\* Mutant of Skip: the answer's status is written to the row as well.
SkipWritingAnswer(c) ==
    /\ pc[c] = "skip"
    /\ SetStatus(call[c].item, "skipped", "ok")
    /\ Reply(c, "skipped")
    /\ UNCHANGED <<given, ident, hadRef, refs, artifacts, external>>

\* The target is already recorded: the item becomes complete, whatever the
\* other calls for it are doing.
Skip(c) ==
    /\ pc[c] = "skip"
    /\ \E outcome \in Outcomes :
        /\ SetStatus(call[c].item, "complete", outcome)
        /\ Reply(c, IF outcome = "ok" THEN "skipped" ELSE "error")
    /\ UNCHANGED <<given, ident, hadRef, refs, artifacts, external>>

Mark(c) ==
    /\ pc[c] = "mark"
    /\ \E outcome \in Outcomes :
        /\ SetStatus(call[c].item, "publishing", outcome)
        /\ IF outcome = "ok" THEN Goto(c, "prepare") /\ UNCHANGED answer
                             ELSE Reply(c, "error")
    /\ UNCHANGED <<given, ident, hadRef, refs, artifacts, external>>

\* The publisher reads and decodes the artifacts from MinIO and builds what it
\* will send.  GitLab needs metadata.project_id; a bad artifact, or a bad URI of
\* one, is a ValueError; an unreachable store is any other exception.  Reading
\* takes a thread of the executor, and so does a GitLab publication to its end:
\* a call waits here as long as GitLab holds all of them.
Prepare(c) ==
    LET toGitLab == call[c].target \in GitLabTargets
        valid == toGitLab => call[c].project # Null
    IN
    /\ pc[c] = "prepare"
    /\ \/ ~valid /\ Goto(c, "fail_invalid")
       \/ valid /\ "bad_artifact" \in Faults /\ Goto(c, "fail_invalid")
       \/ /\ valid /\ ~ThreadsExhausted
          /\ \/ Goto(c, IF toGitLab THEN "get_branch" ELSE "post")
             \/ "refused" \in Faults /\ Goto(c, "fail_gateway")
    /\ UNCHANGED <<given, ident, answer, hadRef, ledger, external>>

-----------------------------------------------------------------------------
(* Outline, Dify and n8n: one HTTP request that creates or updates.         *)

\* The object the request of c creates or updates.
OwnId(c) == IF call[c].existing = Null THEN c ELSE call[c].existing

\* What Outline's publisher makes of a body without an identifier: it falls back
\* on metadata.document_id, then raises ValueError.
OutlineReading(c) ==
    IF call[c].existing # Null THEN <<"upsert", OwnId(c)>> ELSE <<"fail_invalid", Null>>

\* Those of Dify and n8n apply str() to what they found before they test it, so
\* such a body yields the text "None".
WorkflowReading == <<"upsert", NoneString>>

\* How the publisher reads the identifier out of the body: the point the
\* handler goes to and the identifier it found.  A body that is no JSON object,
\* or an empty id at an explicit workflow_id_path, raises.
Readings(c) ==
    {<<"upsert", OwnId(c)>>}
    \cup (IF "garbled" \in Faults
          THEN {<<"fail_invalid", Null>>, <<"fail_gateway", Null>>} ELSE {})
    \cup (IF "no_id" \notin Faults THEN {}
          ELSE IF call[c].target = "outline" THEN {OutlineReading(c)}
          ELSE {WorkflowReading})

\* Mutant of Post: raise_for_status is missing, an error body is read as success.
PostIgnoringErrors(c) ==
    /\ pc[c] = "post"
    /\ \E outcome \in Outcomes :
        effects' = IF Takes(outcome)
                   THEN [effects EXCEPT ![c] = @ \cup {"object"}]
                   ELSE effects
    /\ Goto(c, "upsert")
    /\ ident' = [ident EXCEPT ![c] = OwnId(c)]
    /\ UNCHANGED <<given, answer, hadRef, ledger, branches, files>>

\* The request, raise_for_status and the identifier that becomes the ref.
Post(c) ==
    /\ pc[c] = "post"
    /\ \E outcome \in Outcomes :
        /\ effects' = IF Takes(outcome)
                      THEN [effects EXCEPT ![c] = @ \cup {"object"}]
                      ELSE effects
        /\ \E reading \in Readings(c) :
            /\ Goto(c, IF outcome = "ok" THEN reading[1] ELSE "fail_gateway")
            /\ ident' = IF outcome = "ok"
                        THEN [ident EXCEPT ![c] = reading[2]] ELSE ident
    /\ UNCHANGED <<given, answer, hadRef, ledger, branches, files>>

-----------------------------------------------------------------------------
(* GitLab: branch, commit and merge request, in a worker thread.            *)

\* projects.get fails the call; branches.get that answers ends _ensure_branch,
\* and any failure of it is swallowed.
GetBranch(c) ==
    /\ pc[c] = "get_branch"
    /\ \/ call[c].branch \in branches /\ Goto(c, "commit")
       \/ call[c].branch \notin branches /\ Goto(c, "create_branch")
       \/ "refused" \in Faults /\ Goto(c, "create_branch")
       \/ "refused" \in Faults /\ Goto(c, "fail_gateway")
    /\ UNCHANGED <<given, ident, answer, hadRef, ledger, external>>

\* Mutant of CreateBranch: "already exists" is not tolerated.
CreateBranchStrictly(c) ==
    /\ pc[c] = "create_branch"
    /\ branches' = branches \cup {call[c].branch}
    /\ Goto(c, IF call[c].branch \in branches THEN "fail_gateway" ELSE "commit")
    /\ UNCHANGED <<given, ident, answer, hadRef, ledger, effects, files>>

\* branches.create: "already exists" is tolerated, so that two calls that both
\* missed the branch both go on.
CreateBranch(c) ==
    /\ pc[c] = "create_branch"
    /\ \E outcome \in Outcomes :
        /\ branches' = IF Takes(outcome) THEN branches \cup {call[c].branch}
                                         ELSE branches
        /\ Goto(c, IF outcome = "ok" THEN "commit" ELSE "fail_gateway")
    /\ UNCHANGED <<given, ident, answer, hadRef, ledger, effects, files>>

\* Mutant of Commit: a commit that GitLab refuses is taken for one it made.
CommitIgnoringErrors(c) ==
    /\ pc[c] = "commit"
    /\ Goto(c, IF call[c].target = "gitlab_mr" THEN "open_mr" ELSE "upsert")
    /\ UNCHANGED <<given, ident, answer, hadRef, ledger, external>>

\* Mutant of Commit: a file to create that the branch holds is updated instead.
CommitForcing(c) ==
    LET b == call[c].branch IN
    /\ pc[c] = "commit"
    /\ \E outcome \in Outcomes :
        /\ files' = IF Takes(outcome)
                    THEN [files EXCEPT ![b] = @ \cup {call[c].file}] ELSE files
        /\ effects' = IF Takes(outcome)
                      THEN [effects EXCEPT ![c] = @ \cup {"commit"}] ELSE effects
        /\ Goto(c, IF outcome # "ok" THEN "fail_gateway"
                   ELSE IF call[c].target = "gitlab_mr" THEN "open_mr" ELSE "upsert")
    /\ UNCHANGED <<given, ident, answer, hadRef, ledger, branches>>

\* GitLab refuses to create a file the branch holds and to update one it does not.
Commit(c) ==
    LET b == call[c].branch
        accepted == (call[c].action = "create") <=> (call[c].file \notin files[b])
    IN
    /\ pc[c] = "commit"
    /\ \E outcome \in Outcomes :
        /\ files' = IF accepted /\ Takes(outcome)
                    THEN [files EXCEPT ![b] = @ \cup {call[c].file}] ELSE files
        /\ effects' = IF accepted /\ Takes(outcome)
                      THEN [effects EXCEPT ![c] = @ \cup {"commit"}] ELSE effects
        /\ Goto(c, IF ~accepted \/ outcome # "ok" THEN "fail_gateway"
                   ELSE IF call[c].target = "gitlab_mr" THEN "open_mr"
                   ELSE "upsert")
    /\ UNCHANGED <<given, ident, answer, hadRef, ledger, branches>>

\* GitLab refuses a second open merge request of a branch; an answer without
\* an iid is a TypeError.
OpenMergeRequest(c) ==
    LET accepted == ~HasOpenMergeRequest(call[c].branch) IN
    /\ pc[c] = "open_mr"
    /\ \E outcome \in Outcomes :
        /\ effects' = IF accepted /\ Takes(outcome)
                      THEN [effects EXCEPT ![c] = @ \cup {"merge_request"}]
                      ELSE effects
        /\ \/ /\ accepted /\ outcome = "ok"
              /\ ident' = [ident EXCEPT ![c] = c]
              /\ Goto(c, "upsert")
           \/ /\ ~accepted \/ outcome # "ok" \/ Faults \cap {"garbled", "no_id"} # {}
              /\ UNCHANGED ident
              /\ Goto(c, "fail_gateway")
    /\ UNCHANGED <<given, answer, hadRef, ledger, branches, files>>

-----------------------------------------------------------------------------
(* The ledger is brought up to date, then the caller is answered.           *)

\* Mutant of UpsertRefs: an empty payload, the early return of the code.
UpsertNothing(c) ==
    /\ pc[c] = "upsert"
    /\ Goto(c, "record_artifacts")
    /\ UNCHANGED <<given, ident, answer, hadRef, ledger, external>>

\* upsert_external_refs: last non-null value wins; an item without a row
\* violates the foreign key, after the external write.
UpsertRefs(c) ==
    /\ pc[c] = "upsert"
    /\ \E outcome \in Outcomes :
        /\ refs' = IF call[c].item \in Rows /\ Takes(outcome)
                   THEN [refs EXCEPT ![call[c].item] = Merge(@, NewRefs(c))]
                   ELSE refs
        /\ Goto(c, IF call[c].item \in Rows /\ outcome = "ok"
                   THEN "record_artifacts" ELSE "fail_gateway")
    /\ UNCHANGED <<given, ident, answer, hadRef, status, artifacts, external>>

\* record_artifacts: one executemany, atomic; the foreign key is the task run.
RecordArtifacts(c) ==
    /\ pc[c] = "record_artifacts"
    /\ \E outcome \in Outcomes :
        /\ artifacts' = IF call[c].run \in RunRows /\ Takes(outcome)
                        THEN artifacts \cup {c} ELSE artifacts
        /\ Goto(c, IF call[c].run \in RunRows /\ outcome = "ok"
                   THEN "complete" ELSE "fail_gateway")
    /\ UNCHANGED <<given, ident, answer, hadRef, status, refs, external>>

\* Mutant of Complete: the call returns without the last status update.
CompleteSilently(c) ==
    /\ pc[c] = "complete"
    /\ Reply(c, "published")
    /\ UNCHANGED <<given, ident, hadRef, ledger, external>>

\* The item is complete; a failure here is answered like one of the publisher.
Complete(c) ==
    /\ pc[c] = "complete"
    /\ \E outcome \in Outcomes :
        /\ SetStatus(call[c].item, "complete", outcome)
        /\ IF outcome = "ok" THEN Reply(c, "published")
                             ELSE Goto(c, "fail_gateway") /\ UNCHANGED answer
    /\ UNCHANGED <<given, ident, hadRef, refs, artifacts, external>>

\* Mutant of Fail: the except clauses re-raise without the status update.
FailSilently(c) ==
    /\ pc[c] \in {"fail_invalid", "fail_gateway"}
    /\ Reply(c, IF pc[c] = "fail_invalid" THEN "invalid" ELSE "gateway")
    /\ UNCHANGED <<given, ident, hadRef, ledger, external>>

\* Mutant of Fail: the handler tries again, without a bound.
FailRetrying(c) ==
    /\ pc[c] \in {"fail_invalid", "fail_gateway"}
    /\ Goto(c, "prepare")
    /\ UNCHANGED <<given, ident, answer, hadRef, ledger, external>>

\* The two except clauses; a database failure here leaves the handler.
Fail(c) ==
    /\ pc[c] \in {"fail_invalid", "fail_gateway"}
    /\ \E outcome \in Outcomes :
        /\ SetStatus(call[c].item, "failed", outcome)
        /\ Reply(c, IF outcome # "ok" THEN "error"
                    ELSE IF pc[c] = "fail_invalid" THEN "invalid" ELSE "gateway")
    /\ UNCHANGED <<given, ident, hadRef, refs, artifacts, external>>

\* The process that handles c stops.  Nothing resumes the call.
Crash(c) ==
    /\ "crash" \in Faults
    /\ pc[c] \in InFlightPoints
    /\ Reply(c, "lost")
    /\ UNCHANGED <<given, ident, hadRef, ledger, external>>

\* Every call was answered or lost and no caller sends another: the system
\* may stop here.
Quiescent ==
    /\ \A c \in Calls : pc[c] = "done"
    /\ UNCHANGED vars

\* The steps whose duration the bridge bounds: asyncpg's command_timeout, the
\* httpx timeout, botocore's timeouts.
TimedStep(c) ==
    \/ Lookup(c) \/ Skip(c) \/ Mark(c) \/ Prepare(c) \/ Post(c)
    \/ UpsertRefs(c) \/ RecordArtifacts(c) \/ Complete(c) \/ Fail(c)

\* The GitLab client is built without a timeout.
GitLabStep(c) ==
    GetBranch(c) \/ CreateBranch(c) \/ Commit(c) \/ OpenMergeRequest(c)

Step(c) == Receive(c) \/ TimedStep(c) \/ GitLabStep(c) \/ Crash(c)

Next == (\E c \in Calls : Step(c)) \/ Quiescent

Spec == Init /\ [][Next]_vars

\* Nothing obliges a caller to send, a process to crash or GitLab to answer.
FairSpec == Spec /\ \A c \in Calls : WF_vars(TimedStep(c))

-----------------------------------------------------------------------------
(* Safety.                                                                  *)

Marked == InFlightPoints \ {"lookup", "skip", "mark"}

SamePublication(c, d) ==
    call[c].item = call[d].item /\ call[c].target = call[d].target

\* Everything the external system was asked to do for c has been done.
Landed(c) ==
    CASE call[c].target = "gitlab_branch" -> "commit" \in effects[c]
      [] call[c].target = "gitlab_mr" -> {"commit", "merge_request"} \subseteq effects[c]
      [] OTHER -> "object" \in effects[c]

\* The value that names in column col what c did in the external system.
Names(c, col, value) ==
    CASE col = "gitlab_project_id" ->
            call[c].target \in GitLabTargets /\ value = call[c].project
      [] col = "gitlab_mr_iid" -> call[c].target = "gitlab_mr" /\ value = c
      [] OTHER -> RefField[call[c].target] = col /\ value = OwnId(c)

\* A reference in the ledger names something that some call for that item did
\* in the external system: no ref is stored ahead of, or instead of, the
\* external write (publish runs before upsert_external_refs).
RefsNameWrites ==
    \A i \in Rows, col \in Columns :
        refs[i][col] # Null =>
            \E c \in Calls : /\ call[c].item = i
                             /\ Landed(c)
                             /\ Names(c, col, refs[i][col])

\* A caller is told "published" only when the external write, the ref and the
\* artifact rows are all durable, and "skipped" only when the ref that proves
\* the publication is; whatever other calls, failures and crashes did since.
SuccessIsDurable ==
    \A c \in Calls :
        /\ answer[c] \in {"published", "skipped"} =>
               TargetRefPresent(call[c].item, call[c].target)
        /\ answer[c] = "published" => Landed(c) /\ c \in artifacts

\* Artifact rows are recorded after the ref: no artifacts of a call whose
\* target the ledger does not show (the order of upsert and record_artifacts).
ArtifactsFollowRefs ==
    \A c \in artifacts :
        TargetRefPresent(call[c].item, call[c].target)

\* An item is complete only when some target of it has been published.
CompleteHasARef ==
    \A i \in Rows : status[i] = "complete" =>
        \E col \in Columns : refs[i][col] # Null

\* An item rests in "publishing" only while a call that marked it is still
\* being handled, or because a call was lost or died of the database: no
\* ordering of the final writes of concurrent calls leaves it there.
PublishingHasAnOwner ==
    \A i \in Rows : status[i] = "publishing" =>
        \E c \in Calls : /\ call[c].item = i
                         /\ pc[c] \in Marked \/ answer[c] \in {"error", "lost"}

\* When every call for an item succeeded, in whatever order they overlapped,
\* the item is complete.
AllSucceededIsComplete ==
    \A i \in Rows :
        LET mine == {c \in Calls : call[c].item = i /\ pc[c] # "idle"} IN
        mine # {} /\ (\A c \in mine : answer[c] \in {"published", "skipped"})
            => status[i] = "complete"

\* A call that arrives when the ref is durable changes nothing outside, and
\* is answered "skipped" if it is answered at all: the retry is safe.
RetryAfterRefIsSafe ==
    \A c \in Calls : hadRef[c] =>
        effects[c] = {} /\ answer[c] \in {"none", "skipped", "error", "lost"}

\* c and d commit the same file to the same branch.
SameFile(c, d) ==
    /\ {call[c].target, call[d].target} \subseteq GitLabTargets
    /\ call[c].branch = call[d].branch /\ call[c].file = call[d].file

\* A file to update is on the base branch; a file to create is not there, and no
\* other call has committed it.
CanCommit(c) ==
    IF call[c].action = "update" THEN call[c].file \in BaseFiles
    ELSE /\ call[c].file \notin BaseFiles
         /\ \A d \in Calls \ {c} : SameFile(c, d) => "commit" \notin effects[d]

\* Nothing about the request itself, and nothing that another call has committed or
\* opened on its branch, makes GitLab or the database refuse it.
Valid(c) ==
    /\ call[c].item \in Rows /\ call[c].run \in RunRows
    /\ call[c].target \in GitLabTargets => call[c].project # Null /\ CanCommit(c)
    /\ call[c].target = "gitlab_mr" =>
           \A d \in Calls \ {c} : call[d].branch = call[c].branch =>
               "merge_request" \notin effects[d]

\* Whatever other calls have done to the ledger and to the branch meanwhile, a
\* valid call that has not failed may still go on to success: losing the race to
\* make the branch, or to publish first, dooms no one.
ValidCallsAreNotDoomed ==
    \A c \in Calls :
        /\ Valid(c)
        /\ pc[c] \in InFlightPoints \ {"fail_invalid", "fail_gateway"}
        /\ ~(pc[c] = "prepare" /\ ThreadsExhausted)
        => ENABLED (/\ Step(c)
                    /\ pc'[c] \notin {"fail_invalid", "fail_gateway"}
                    /\ answer'[c] \in {"none", "skipped", "published"})

\* What does doom a call that creates a file: once one call has committed it, no other
\* that creates it commits or is told "published", also when the merge request of the
\* first failed and the other is its retry.  Nothing is committed twice, and only an
\* update gets the item published.
CreatesLandOnce ==
    \A c, d \in Calls :
        /\ c # d /\ SameFile(c, d)
        /\ call[c].action = "create" /\ call[d].action = "create"
        /\ "commit" \in effects[c]
        => "commit" \notin effects[d] /\ answer[d] # "published"

(* The inductive strengthening of the properties above, checked by TLC and   *)
(* proved in PublisherProofs.                                                *)

\* What the handler of c knows at each await: which branch of the code it took,
\* and which of its effects are durable.  Refs are never cleared, so a ref seen
\* or stored stays known.
CallInv(c) ==
    /\ answer[c] = "none" <=> pc[c] # "done"
    /\ pc[c] \in {"idle", "lookup", "skip", "mark", "prepare"} => effects[c] = {}
    /\ pc[c] = "post" => call[c].target \notin GitLabTargets
    /\ pc[c] \in GitLabPoints =>
           call[c].target \in GitLabTargets /\ call[c].project # Null
    /\ pc[c] = "open_mr" =>
           call[c].target = "gitlab_mr" /\ "commit" \in effects[c]
    /\ pc[c] \in {"upsert", "record_artifacts", "complete"} =>
           /\ Landed(c)
           /\ \A col \in DOMAIN NewRefs(c) : NewRefs(c)[col] # Null
    /\ pc[c] \in {"skip", "record_artifacts", "complete"} =>
           TargetRefPresent(call[c].item, call[c].target)
    /\ pc[c] = "complete" => c \in artifacts
    /\ hadRef[c] => /\ TargetRefPresent(call[c].item, call[c].target)
                    /\ pc[c] \in {"lookup", "skip", "done"}

HandlerInv == \A c \in Calls : CallInv(c)

\* Once a call for an item succeeded, the item is complete unless another call
\* marked it since, or failed.
IncompleteHasACause ==
    \A i \in Rows :
        status[i] # "complete"
        /\ (\E c \in Calls : /\ call[c].item = i
                             /\ answer[c] \in {"published", "skipped"})
        => \E d \in Calls :
              /\ call[d].item = i
              /\ pc[d] \in Marked \/ answer[d] \in {"invalid", "gateway", "error", "lost"}

IInv ==
    /\ TypeOK /\ HandlerInv
    /\ SuccessIsDurable /\ ArtifactsFollowRefs /\ RetryAfterRefIsSafe
    /\ CompleteHasARef /\ PublishingHasAnOwner /\ IncompleteHasACause

(* Action property.                                                          *)

\* A ref, once stored, is never cleared, and only the columns of the target
\* being published change: COALESCE over the payload's columns.
RefsAreKept ==
    [][\A i \in Rows, col \in Columns :
        refs'[i][col] # refs[i][col] =>
            /\ refs'[i][col] # Null
            /\ \E c \in Calls : /\ pc[c] = "upsert" /\ call[c].item = i
                                /\ \/ col = RefField[call[c].target]
                                   \/ /\ col = "gitlab_project_id"
                                      /\ call[c].target = "gitlab_mr"]_vars

(* Liveness.                                                                 *)

\* A call that does not reach GitLab is answered, unless calls that wait for
\* GitLab hold every worker thread: each other await of the handler ends within
\* a timeout, and every branch of the handler leads to a return or a raise.
EveryCallEndsUnlessGitLabHangs ==
    \A c \in Calls :
        pc[c] \in InFlightPoints ~>
            pc[c] \in GitLabPoints \cup {"done"} \/ ThreadsExhausted

(* What documents say of the bridge and the code does not do.                *)

\* "retries do not blindly duplicate work": at most one call per target and
\* item gets as far as creating the external object.
RetriesDoNotDuplicate ==
    \A c, d \in Calls :
        c # d /\ SamePublication(c, d) => ~(Landed(c) /\ Landed(d))

\* "response did not include a workflow identifier" is raised: no ref is the
\* text of Python's None.
NoRefWithoutIdentifier ==
    \A i \in Rows, col \in Columns : refs[i][col] # NoneString

=============================================================================
