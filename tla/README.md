# Verification of EchoThink ClawCluster

TLA+ models of the bridge services of ClawCluster, the TLC runs that check them
on small instances, and proofs that TLAPS checks for every instance. Paths are
relative to the repository; `routes.py:86` is a line of the file of the service
being discussed.

## 1. The system

ClawCluster joins EchoThink's systems of record (Outline, GitLab, Dify, n8n, Supabase,
Langfuse, Graphiti) to a HiClaw cluster of agents. Its program logic is in four FastAPI
services over one Postgres schema (`migrations/supabase/001-clawcluster-schema.sql`), in
the backup script, and in the way Docker Compose starts, probes and restarts the
containers. The services share no memory: they interact through rows (`work_items`,
`task_runs`, `approvals`, `artifacts`, `external_refs`, `budget_policies`) and through
the agents that call them. Every service runs several requests at once on one event
loop, and the charts allow several replicas of each. None of them takes a lock or opens
a transaction over more than one statement.

| Component | State | Operations | Hard behaviour | What makes it correct |
|---|---|---|---|---|
| publisher-bridge, publish | `work_items.status`, `external_refs`, `artifacts`, the external objects | `POST /publish` to five targets | check-then-act on the refs; write outside, then record; failures between any two awaits; unconditional status writes; GitLab without a timeout in a shared thread pool | success is only told of what is durable; refs name real objects and are never lost; a retry after the ref is harmless; a status has a cause |
| publisher-bridge, status | none | `GET /publish/{id}/status` in two queries | reads between other calls' writes | a report is consistent and never ahead of the ledger |
| policy-bridge, approvals | `approvals` | evaluate, approve, reject, list pending | no guard on the current decision; work done before the answer fails | who is told of a gate or a decision finds the row; a started run was cleared; a decided row never becomes pending |
| policy-bridge, budgets | reads `budget_policies`, `task_runs` | evaluate | checks spend and concurrency in several queries, reserves nothing | a limit is overrun by a bounded amount, and not at all by callers that make the row first |
| observability-bridge | `task_runs` | link trace, sync trace, complete | metrics fetched between two statements; events out of order or duplicated | no later request undoes a completion, a link or a number; flags say what happened |
| intake-bridge, ingestion | `work_items`, MinIO specs, Manager notifications | two webhooks, manual items | redelivery; fan-out after the insert; lazily made pool | the answer says which of row, spec and notification is durable; two requests never mix |
| intake-bridge, normalization | none | classify, priority, risk, approval policy, objective, criteria | order of keyword tables | what sounds dangerous is gated whatever else is said; criteria come from their section |
| backup and restore | Docker volumes, archives | `backup.sh`, `backup.sh --restore` | failures between volumes; restore wipes before it reads | a readable archive holds what the volumes held; what a restore emptied can be restored again |
| configuration and start-up | settings, the DSN, the pool made in the lifespan | load settings, connect, serve | a setting that only one side knows; a database that is not there yet | a service that Docker starts ends up serving |
| Compose deployment | containers, verdicts of their probes | `make up`, depends_on, probe, restart | crashes and outages while others wait for a verdict | the edge starts last; the stack comes up whatever happened before |
| `healthcheck.sh` | its counters | ask each service in order | `set -e` and counters; a service that goes while others are asked; questions that differ from the probes' | every service is asked; what fails did not answer, and in a healthy and undisturbed stack is asked for more than by its probe |
| everything else | | | | agents, skills, charts, tokens, logging, bucket setup: no program logic with state |

Two pairs of these meet in one table. The policy-bridge counts the rows of
`task_runs` and adds up their costs, and the observability-bridge writes how runs end
and what they cost. The publisher's report reads the refs and artifacts that its other
handlers are writing.

`PROJECT.json` lists each of them with its sources and whether it is modelled, and
the hazards at the lines where they bite.

## 2. The modules

| Module | Models |
|---|---|
| `Publisher` | `POST /publish`: the handler await by await, the ledger tables, the publishers, the external systems |
| `PublicationLedger` | what the publisher promises, without the handler |
| `PublisherLedger` | the refinement mapping from the first to the second |
| `PublishStatus` | `GET /publish/{id}/status` beside the publishing calls (extends `Publisher`) |
| `PolicyBridge` | evaluation, approve and reject, budgets and concurrency, beside the runs that start and end |
| `ApprovalGate` | what the policy-bridge promises those who ask whether a run may start |
| `PolicyGate` | the refinement mapping from `PolicyBridge` to it |
| `TaskRuns` | the three endpoints of the observability-bridge, Langfuse and Graphiti |
| `Governance` | `PolicyBridge` and `TaskRuns` over one table, and the claim that the second is an environment the first allows for |
| `Normalization` | keyword tables, sections, lists and check boxes, as operators without state |
| `Intake` | the webhooks, the manual request, the health check, the pool and the fan-out (extends `Normalization`) |
| `Backup` | `scripts/backup.sh`, several backups and restores beside the services |
| `Stack` | containers, probes, restarts and settings, the start-up code of the bridges, `make up` and `healthcheck.sh` |
| `MC...` | instances for TLC: request bodies, policies, lines of text, and symmetry |
| `PublisherProofs`, `PolicyProofs`, `TaskRunsProofs`, `GovernanceProofs`, `IntakeProofs`, `BackupProofs`, `StackProofs` | theorems and their proofs (`PublisherProofs` also of `PublishStatus` and `PublisherLedger`, `PolicyProofs` also of `PolicyGate`) |
| `SumProofs` | lemmas on sums and extrema over finite sets, which the proofs share |

In the modules of the services an action is the code from one await of a handler to the
next, with the effect of the statement or request that is awaited; `pc` is the await
at which a handler is suspended, and handlers of different requests interleave at
every await. This is how the services run: one event loop per process, and no lock or
transaction that spans two statements, so what holds for interleaved handlers of one
process holds for those of several replicas too. A retry, or a redelivery, is another
request with an equal body. Every statement and request ends in one of three ways: it
works, it is refused and changes nothing (`refused`), or it takes effect and its
answer is lost (`unknown`). The constant `Faults` says which of these an instance
admits, and whether processes stop (`crash`: at any await, without a trace of the
handler left). The definitions whose comment begins with "Mutant of" are deliberate
bugs; no run uses them, and each is there to show that a property would notice.

### Publisher

| Action | Code (`publisher-bridge/src/`) |
|---|---|
| `Receive`, `Lookup`, `Skip`, `Mark` | `api/routes.py:46-83`, with `is_target_published` and `update_work_item_status` |
| `Prepare` | the artifact URIs and, for GitLab, the commit actions (`publishers/gitlab.py:85-153`; reads of MinIO in the default executor) |
| `Post` | the one HTTP request of Outline, Dify, n8n and what is read from its answer |
| `GetBranch`, `CreateBranch`, `Commit`, `OpenMergeRequest` | `_publish_sync`, in one worker thread of the default executor |
| `UpsertRefs`, `RecordArtifacts`, `Complete`, `Fail` | `api/routes.py:84-125` and `storage/supabase.py` |
| `Crash` | the process stops |

The ledger is three variables (`status`, `refs`, `artifacts`), the outside world three
more: what each call changed there (`effects`), and for GitLab the branches and their
files. `hadRef` is history: whether the ref was durable when the request came. Besides
the common faults there are `bad_artifact`, `garbled` (a body that cannot be read) and
`no_id` (a body without an identifier, which `str()` turns into the text "None").

Abstracted: a request has one file and one branch (the default branch of the code
contains the item and run ids; a shared branch is what `metadata.branch_name`
allows); URIs, titles and bodies are absent; an identifier is the call that created
the object, or the document it updates. `external_refs` has only the five columns
that publication writes. Requests that validation rejects never reach the handler
and are not sent. The result of `projects.get` is not kept because the code stores
the id of the request. The HTTP timeouts are per read; a peer that sends a byte at a
time is outside the model.

`PublicationLedger` is what a caller is promised: a set of cells (work item, column)
that only grows, and an answer per call that may be a success only if the call's cell
is in it. Everything else is allowed to fail in any way. `PublisherLedger` maps `refs`
to cells and `answer` to told, and the handler implements the ledger.

`PublishStatus` adds the two queries of a status report. `metadata_json` of an
artifact row arrives as text (the pool registers no codec for jsonb) and `dict()` of
it raises, so the report of a run that has artifacts is an error; `ReadArtifacts` says
so. It is the cause that the run `policy_rows` shows for the policy-bridge. The run
`publisher` checks it together with the calls, so the ledger and its reports are one
system; `Readers` is the set of status requests.

### PolicyBridge

An evaluation walks the scopes of `_iter_scopes`; for each, `FetchPolicy`, `ReadSpend`
and `ReadActive` are the three queries of `_evaluate_scope`, and the flags of all scopes
accumulate in `violated`. After the last scope the approval matrix decides: answer, or
`Create` the row and `Notify` the Matrix room, where a failure is logged and swallowed.
`Decide` is approve or reject: one UPDATE that does not look at the decision it
overwrites, then validation of the row; these two send no notification. `MakeRow`,
`StartRun`, `EndRun` and `RecordCost` are the world around the bridge: the Manager makes
and starts runs (only of evaluations that were let through), the observability-bridge
ends them and records their cost, in a later statement or while they still run. The cost
is whatever Langfuse reports, from 0 to `MaxCost`: no statement compares it with the
estimate of the evaluation, and an evaluation without an estimate counts as 0. A run
that ended may become active again (`Reopen`, counted by `reopened`), because an event
of completion may carry the status "running" or "pending". `Midnight` ends a UTC day.

`ApprovalGate` is the bridge as its callers know it: one gate per run, cleared at once,
shut, or left to humans, who may change their minds but never leave it undecided
again. It has no handlers, queries or budgets. `PolicyGate` maps rows, answers and
started runs to it; a run that begins is one whose gate was cleared or approved at
that moment.

`RowsValidate` says whether `ApprovalRecord` accepts a row the pool returns. The
value of this code is `FALSE`: the pool has no codec for jsonb, so asyncpg returns
`evidence_json` as text, and `policy_rows` and `governance` have it. Then no evaluation
that needs a human is told of its gate, and nothing after the row is reached. So that
notification, the answers about gates and the decisions on them are checked at all,
`policy_gates` and `policy_concurrency` have `TRUE`, which is a database whose rows
validate (that of the tests' storage). What these two runs show of the handlers is
conditional on it; the theorems hold for both values.

Abstracted: an evaluation is for one run, named after it; its caller describes the work
item as its row does; policies are constant (an operator edits them); costs are whole
units and tokens are checked per request only. `GET /policy/pending` is one SELECT and
is left out. The pool has no `command_timeout`, so nothing bounds a query and no
liveness is claimed.

### TaskRuns

`Link`, `ReadTrace`, `Fetch`, `Store`, `Complete` and `Graphiti` are the awaits of the
three endpoints. A completion ends the row and then syncs metrics with the same code
as a sync. What Langfuse knows of a trace is a number that grows (`Ingest`); a reading
is the number at that moment, so a larger reading is a later one. Tokens and latency
are stored by the statement that stores cost, and are left out. A text is known by the
request that brought it. A row may be absent when a request comes (404) and appear
while it is served: the Manager inserts rows, pending or running, and starts them
(`Insert`, `Start`). `TooEarly` is the schema's `task_runs_temporal_order_check`: a row
that was started later than the completion says it ended is refused. Status values are
the caller's: a completion may say "running" or "pending", as `models/events.py` allows,
and the model lets it. Graphiti is sent the trace id of the payload, not of the row, as
in the code. Empty trace ids and deleted rows are not modelled.

### Governance

`Governance` has the variables of both bridges and one table. The status by which the
policy-bridge counts a run (`RunOf`: both of its queries take "pending" and "running" for
active) and the cost it adds up (`CostOf`) are columns of the rows that `TaskRuns`
writes; what `PolicyBridge` calls unsettled is a run that has
ended while some request about it is still in flight or may still come. `MakeRow` and
`StartRun` are the Manager's statements, seen from both sides; every other step is a
step of one bridge that leaves the other's handlers alone. The property `PolicySpec`
is `PolicyBridge!Spec` under this reading: what `PolicyBridge` lets its environment do
(end a started run, record any cost, make an ended run active again) is all that the
observability-bridge does, in whatever order its requests come.

`RowsFirst` fixes which runs have their row before they are asked for. Premises of the
composition: requests about a run are sent only once it has started
(`MayArrive`), at most `MaxUnsettled` runs are ending at a time, and at most
`MaxReopened` completions say "running" or "pending". A completion that is lost for good leaves
its run active, which `PolicyBridge` covers: its runs need not end.

### Normalization and Intake

Of title, body and labels the tables see only which of their keywords occur, so a text
is a set of words; `Holding` closes it under the keywords that contain another ("test
plan" holds "plan"). Whether a keyword occurs inside a longer word ("auth" in "author")
is part of occurring. A line is known by what the code asks of it: the section it would
open, whether it has a hash, is an item or a check box, whether it holds "must" or
"should". A section runs from its heading to the next heading, except that its first
line is taken whatever it is, as in the loop at `handlers/base.py:161-167`: an empty
section of criteria (`HasEmptySection`) swallows the next heading and the list below it.
That contradicts `docs/workflows/outline-to-workflow-authoring.md:120`, by which
criteria come from their section or from check boxes; it is listed as a hazard, and
`CriteriaAreOfTheSource` is a property of the texts without such a section only. Regular
expressions, white space and `constraints_json` are abstracted; a sentence is a line.
Every filter of the code is `Kept`: the elements of a sequence at some of its positions,
in order.

In `Intake`, `CreatePool` is the body of `connect` after `_pool` was found to be None:
whoever found it so makes a pool. `Insert` is the statement; a taken id violates the
primary key and is answered 503, like every other failure. `Stage` and `Notify` are
two tasks that run side by side; the one that ends last makes the answer (`Settle`). A
webhook that is delivered again becomes another item, since ids are fresh and
`source_ref` is not unique. A manual request carries its caller's choice of risk and
policy. An item that was stored but not staged stays so: nothing retries. The pools of
a process are closed only when it ends.

### Backup

An action is one command of the script that can fail or be killed in. A volume holds the
number of the last write of its service, nothing (`Empty`), or a mixture (`Mixed`), if
it was changed while it was copied, unpacked over new writes, or unpacked or removed
only in part. Runs have distinct timestamps (two in one second would share a directory:
a hazard without a property). A container dies with its run. A `cp` that fails writes
nothing. The removal before a restore may fail for some or all files; `|| true` hides
that, and the archive is unpacked over what is left (`Wipe`). A restore of an archive
that lacks a volume leaves that volume as it is. `seen` and `wiper` are history.

### Stack

| Action | Code |
|---|---|
| `Boot` | the Settings and the lifespan of each bridge: `config.py`, `main.py`, `storage/supabase.py` (`connect`); nginx resolving its upstreams |
| `Restart`, `Probe`, `Start`, `EndUp` | `restart`, `healthcheck` and `depends_on` of `docker-compose.yml` as Docker carries them out (external) |
| `Up` | `make up`, repeated by the operator when it failed |
| `BeginCheck`, `CheckEndpoint`, `EndCheck` | `scripts/healthcheck.sh` |
| `Crash`, `Outage`, `Settle` | containers that exit and a PostgreSQL that goes and comes, until both stop |

A name such as DIFY stands for the variables that begin with it, and is given when the
validators accept all of them. The bridges differ in what they do without: the
intake-bridge makes a DSN of any Supabase URL and leaves its pool to the first request,
the publisher passes the URL on as it is, policy- and observability-bridge know
`SUPABASE_DB_DSN` besides, and all but the intake-bridge connect before they serve. `GET
/health` of the intake-bridge asks PostgreSQL and the Manager; that of the others asks
nothing. `Moved` are bridges whose port in `.env` is not the default: only the
publisher's image listens at `PORT`, the others have a port written into their
Dockerfiles. The check of Element goes to the port of the edge. `healthcheck.sh` does
not ask what the probes ask: of Higress it wants `/health` at its HTTP port, where the
probe wants `/` at 9000 (`docker-compose.yml:92`), and curl waits 5 seconds where a
probe waits 10. So for Higress, and for the services named by `Slow`, whose answer may
take longer than curl waits, `CheckEndpoint` may fail though the container answers its
probe (`AskedForMore`). `Faults` names the services that may crash, and "outage" for
PostgreSQL. `Clients` are the services whose image can run the command of its probe; the
instances assume that all can. (The images of publisher, policy- and
observability-bridge are built on `python:3.12-slim` and install neither wget nor curl;
which commands a base image has is outside the repository, so it is a constant and no
claim.)

## 3. The runs

| Run | Instance | Distinct states | Question |
|---|---|---|---|
| `publisher` | two calls with seven bodies (HTTP, branch and merge request), one or two worker threads, one status request, all faults but `no_id`; fair | 644,419 | do ledger, statuses, reports and answers agree under every interleaving, does the handler implement the ledger, can every valid call succeed, is a file created once, does every call end? |
| `publisher_duplicates` | one caller, one retry | violation | do retries duplicate work? |
| `publisher_no_id` | an answer without an identifier | violation | is a missing identifier noticed? |
| `policy_concurrency` | three evaluations, four scopes, `MaxGrants` 2, one run reopened, two days, crashes | 1,931,959 | by how much can a concurrency limit be overrun? |
| `policy_gates` | two evaluations, two decisions, all faults, rows that validate | 472,476 | do gates, decisions and started runs agree, and does the bridge implement the gate? |
| `policy_rows` | the same with the rows asyncpg returns, one decision, no faults | violation | does a gate survive its own validation? |
| `governance` | five evaluations that nobody estimated, one of a run whose row is made first, four completions, a daily limit of 0 and costs of 0 or 1, one day | 173,672 | does one bridge behave as the other assumes, and through how many runs can reported spend pass the limit? |
| `task_runs` | three requests of any kind, two at a time, all faults | 2,231,254 | do completions, links, metrics and flags survive each other? |
| `intake` | three requests, two at a time, some 470 texts and bodies; fair | 88,209 | do answers, rows, specs and notifications agree, and what does normalization promise? |
| `backup` | two backups, one restore, two volumes, one write | 5,988,849 | do archives hold what they say, and can a failed restore be undone? |
| `stack` | Higress, Element, Manager, intake (slow), publisher, nginx, every setting given, crashes of three of them and outages; fair | 418,171 | does nginx start last, what does `healthcheck.sh` say of a healthy stack, does the stack come up? |
| `stack_compose` | Manager, the four bridges, nginx, the environment of `docker-compose.yml`, no faults; fair | violation | does `make up` bring the stack up? |

Every property of a passing run has a mutant of a modelled definition in
`PROJECT.json` that makes TLC find it violated.

What the runs show of the code, beyond that it holds:

- `OverrunIsBounded` is the exact price of reserving nothing: a limit is overrun by
  fewer runs than there are evaluations between the check and the start of their run,
  and by those that a completion made active again (`reopened`), which nothing
  counts. `RowsFirstNeverFillAScope` is the other side: where rows are made first the
  limit is safe, again but for `reopened`, but a run counts against itself and a limit
  of one lets nothing through.
- `SpendOverrunIsBounded` says by how many runs, not by how much, since no recorded cost
  is held to an estimate: what is recorded of a day passes the daily limit, by whatever
  amount, through at most `Unseen` runs, which is `2 * concurrency + 2 * MaxGrants - 2 +
  MaxUnsettled + reopened`; all the others together keep within the limit. The late ones
  are the active runs and the evaluations let past, which are not in the sum, a run
  that ends between the two queries of an evaluation, and one whose cost is still to
  come. `concurrency - 1` of them are of another kind: a row made before midnight is asked for
  the next day, so it is checked against that day's spend and adds its cost to the day
  before. The run has the bound over the rows that the observability-bridge writes,
  with one run more than the bound allows as long as none is reopened.
- `ReportedCostsAreSpent` says what the answer of a sync is worth to the other
  service: a cost reported as stored is in every later sum of its day, unless another
  request about the same run overlapped.
- `ValidCallsAreNotDoomed`: whatever other calls did to the ledger and the branch
  meanwhile, a call whose own request is valid can always take a next step that is not
  a failure; losing the race to make the branch, or to publish first, dooms no one.
  The two threads of the instance are what lets both calls miss the branch. The
  exception is a call that creates a file: `CreatesLandOnce` says that of two such calls
  on one branch only one commits, also when its merge request then failed and the other
  is the retry, which can never be told "published".
- `LinksSurvive` is weaker than one would like: a sync that read the link before a new
  link came writes the old one back. The property says which requests can do that, and
  counts only those that have arrived (so does `CompletionIsKept`).
- `SyncsAreFresh`: the numbers a synchronization reports are no older than its arrival, and
  the row has them or newer ones. Only a request that overlapped it can have left older
  ones there, and those it found after its own arrival.
- `EmptyVolumesAreRecoverable` holds although a restore removes before it unpacks,
  because the archive it reads was tested first and no run of the script changes it.
- `CriteriaAreOfTheSource` holds of texts in which no section of criteria is empty; of the
  others it is false (see Normalization).
- `HealthyStacksPass`: the script asks every service, also after one that failed, and its
  verdict is what it found. Its comment "Exit code 0 if all services are healthy"
  (`healthcheck.sh:6`) holds but for the services of which it asks more than their
  probes: in a healthy stack nothing disturbs any more, only those can fail.
- `StackComesUp` holds with every setting given: neither crashes nor outages before
  the surroundings settle leave a container that Docker does not bring back, and what
  `depends_on` gave up on, the next `make up` starts.

### Findings

- `publisher_duplicates`: the ref is stored after the external write, so a retry after a
  lost answer writes again, although `docs/integrations/echothink-bridges.md:36`
  promises that retries do not blindly duplicate work.
- `publisher_no_id`: `str(None)` is a non-empty text, so the check for a missing
  identifier in `dify.py:28` and `n8n.py:28` never fires; "None" becomes the ref.
- `policy_rows`: the row of an approval is committed and then fails to validate, so an
  evaluation that needs a human answers 500 instead of `pending_approval`.
- `stack_compose`: `docker-compose.yml:305-313` passes the publisher-bridge no `DIFY_*`
  and `N8N_*`, which `services/publisher-bridge/src/config.py:81-84` requires without a
  default. It exits at every start, is never healthy, and nginx, which waits for it, is
  never started, although `README.md:71` promises that `make build` and `make up` start
  the stack. The run assumes nothing else: every other name is given, nothing fails,
  and the operator repeats the command.

### Bounds

`MaxInFlight` is two in the publisher, intake and task-run instances: no handler waits
for another, and each of the modelled races is between two (a third request comes after
one of them, as a retry). In `governance` it is one, since the races of its requests are
those of `task_runs` and the question there is their order beside the evaluations.
`publisher` has one worker thread, the smallest number that makes calls wait for each
other, or two, with which both are in GitLab at once; two threads are combined only with
two GitLab calls, since otherwise they are never both busy (`SecondThread`). Its two
calls are alike, so one order of each pair of bodies is taken (`OneOrder`). `MaxGrants`
appears in the bounds of the properties; two is the least value for which a concurrency
limit can be overrun, and `governance` has one, where the bound is three runs and a
fourth is what a weaker check would let through; its fifth evaluation, of a workspace
without a policy, has its row made first. `MaxUnsettled` is one. `MaxDay` is two in
`policy_concurrency`, a day and its successor, and one in `governance`, where the runs
of one day are the question. `MaxReopened` is one and appears in the bounds as
`reopened`. `MaxRepeats` one lets one run be reported on twice, so that a second request
finds what the first one stored; it is the run that a completion may call pending
(`OneRepeat`), since the others are like it. `MaxCost` one gives an early and a late reading.
`MaxWrites` one lets a volume change once at any point of a run. `Retries` is one where
the code has five: a failed probe before the last one changes nothing but the count, so
one that counts at once stands for five in a row. The texts of `intake` are every pair
of sample words, one of each row of each table and each word that two rows share, since
a table looks at one row at a time; the bodies are every body of up to two lines of six
kinds, with or without a blank line between them, and every one of four lines of
headings and lists. The theorems of section 4 need none of these bounds.

Deadlock is checked in every run: the modules say when nothing more happens
(`Quiescent` and its like), and any other state without a successor is an error.

### Fairness

`publisher`, `intake` and `stack` check liveness. In the services fairness is weak, per
request, and only of steps that a timeout of a client ends: asyncpg's `command_timeout`
(30 s in the publisher, 10 s in the intake-bridge) and connect timeout, httpx's (30 s
and 10 s), and botocore's defaults. The GitLab client is made without a timeout
(`publisher-bridge/src/main.py:71`), so its steps get none, and
`EveryCallEndsUnlessGitLabHangs` says what that costs: a GitLab that does not answer
holds the threads that other publications need for MinIO. The arrival of requests,
faults and crashes are never fair. The policy-bridge and the observability-bridge have
no such timeout on the database, so no liveness is claimed of them.

In `stack` the fair actions are those Docker takes on its own (restart, probe, start of
what is no longer waiting) and start-up code, which waits for nothing without a
timeout. That the surroundings settle, and that the operator repeats a command that
failed, are premises of `StackComesUp` and not assumed.

## 4. The proofs

TLAPS checks the theorems for every value of the constants, from the assumptions
named in the modules (`RequestsAssumption`, `FaultsAssumption`, ...): that the sets of
bodies are well formed, that `Null` is none of the values it is told from, that bounds
are positive, and that counted sets are finite. TLC evaluates them in the runs.

- **Publisher** (`PublisherProofs`): `TypeCorrect`, then the inductive invariant
  (`Inductive`), which says for each await what the handler knows there (the external
  write was done, the ref is durable, the artifact rows are) and for each item why it
  has its status. None of the properties is inductive alone: that a success is durable
  needs to know, at `complete`, what was done two awaits earlier, and that no later
  step of another call undoes it. All safety properties of the publishing calls follow, for
  any number of calls, items and faults. `RefsNamed` needs a second invariant about
  identifiers, and the assumption that answers carry one (`no_id` is not a fault).
- **Valid calls** (`PublisherProofs`): `ValidCallsAreNotBarred` is what can be said of
  `ValidCallsAreNotDoomed` without `ENABLED`: at no await does a valid call meet a
  condition by which a publisher, GitLab or a foreign key refuses it. Its invariant
  (`BarInv`) knows that a branch keeps the files of its base and that a call that is still
  at work in GitLab has opened no merge request. `FaultlessCallsSucceed` is the
  consequence: with `Faults = {}` a valid call is told "published" or "skipped". The same
  invariant knows which calls committed what, so that no file is created twice
  (`CreatesAreNotRepeated`).
- **Ledger and reports** (`PublisherProofs`): every behaviour of the handler is one of
  `PublicationLedger` under the refinement mapping; each step is one of its steps or
  changes none of its variables. A status request sees the ledger at two moments, and
  `ReportInv` says what is left of the first at the second: what was published stays
  so (`RefsKept`), and a complete item had a published target.
- **PolicyBridge** (`PolicyProofs`): the argument for concurrency counts places, not
  runs. `Held(p)` is the set of running runs of a scope and of evaluations past its
  check that may still start one; a place is taken only by an evaluation that counted
  fewer active runs than the limit, and at most `MaxGrants` evaluations are ever ahead.
  The gate invariants relate rows, decisions and started runs. From them
  `GateImplemented` follows, action by action: a run starts only where its gate was
  cleared or is approved, and what a caller is told is so of its gate.
- **Daily spend** (`PolicyProofs`, second half): `SpendBounded`. An evaluation compares
  a sum that is out of date when it is used, and any cost may still come, so the
  invariant does not speak of the sum. For each day there is a set `T` of at most
  `Places` runs that holds all that are live or whose cost may still come, and what is
  recorded outside it (`Load`) is within the limit. Whoever has read the sum and not yet
  been let past has such a set `F[a]` of its own, in which it would be the next and
  outside which there is no more recorded than it has read (`Guarded`); of two of them one
  has the other in sight. When it is let past, its set becomes `T`. After midnight only
  rows already made can join the day (`Closed`), and of these there are fewer than the
  limit of active runs. How large the sets can be is the argument for concurrency again,
  with `Unsettled`. Neither estimates nor a bound on costs are used.
- **Sums** (`SumProofs`): `MapThenSumSet` folds over a set. The lemmas say what it is of the
  empty set and of one element more, so that sums of smaller terms, or of subsets, are
  smaller. They are proved by the least set that is not as claimed, since the induction
  theorems of the library cannot be instantiated. `MaxIsElement` and `MinIsElement` say
  what `CHOOSE` finds.
- **TaskRuns** (`TaskRunsProofs`): for each handler what it holds at each await
  (`HandlerInv`), for each pair of requests who was over when the other came
  (`HistoryInv`), and for each row whose texts, end, trace and numbers it has, or who
  overlapped (`TextInv`, `EndedInv`, `LinkInv`, `SyncInv`: as new a number as was read, or which
  overlapping request left its own). All properties of the run
  `task_runs` follow for any number of requests, rows, traces and faults.
- **Governance** (`GovernanceProofs`): `PolicyImplemented` maps each step of the two
  bridges to a step of `PolicyBridge` or a stutter. Its invariant says that what is
  reported on was started, and counts the completions that may still make a run active,
  whether they say "running" or "pending", against `MaxReopened`. Costs are any that
  Langfuse reports. `ReportsAreSpent`: who was over when a request arrived read no later
  number than it will (`HistoryInv`), so the row of a run has at least the cost of every
  reported sync that nothing overlapped (`StoredInv`), and the sum that an evaluation
  reads is one over rows (`SumProofs`). The constants of `Governance` are such as
  `PolicyBridge` assumes (`PolicyAssumption`), so what is proved of every `PolicyBridge`
  holds of the rows that the observability-bridge writes (`BridgeImplemented`):
  `SpendIsBounded` is the property of the run `governance`, and `LimitsAreKept` carries
  over the bound on concurrency, that started runs were cleared, that gates follow the
  limits and that answered gates are durable, and `GateIsKept` that callers see the
  abstract gate.
- **The other half** (`GovernanceProofs`): `ObsImplemented` maps each step of the
  composition to a step of `TaskRuns` or a stutter; the policy-bridge and the Manager are
  then such an environment as `TaskRuns` assumes: they only `Insert` and `Start` rows. So
  what is proved of every `TaskRuns` holds of the rows that a policy-bridge works on too:
  `RecordsAreTrue`, and `RecordsAreKeptTogether` for the action property.
- **Intake** (`IntakeProofs`): the invariant says of each await what is stored, and of
  each half of the fan-out what it left outside; that two requests with one id never mix
  rests on a row naming the request that made it and on requests entering the fan-out
  only with a row of their own. `SensitiveGated` holds of every set of words.
  `CriteriaAreKept` holds of bodies of any length in which no section of criteria is
  empty: each element of `Kept` is one of its positions and each position one of its
  elements (`Numbering`, by the least position that has no number), so what `Unique`,
  `Block` and the three ways to find criteria return is what the lines say.
- **Backup** (`BackupProofs`): what a run has copied, it saw; what it has not copied is
  counted as a failure, or was absent when it looked; what a restore works from is a
  whole archive, which no run changes; and a volume that is empty knows its `wiper`.
  The properties follow for any number of runs, volumes and writes.
- **Stack** (`StackProofs`): a service that is healthy or was waited for has served, and
  a bridge serves only with its settings. `HealthyPasses` is of every deployment, every
  set of slow services and Higress, whose check is not its probe; a stack without these
  passes. It has one hypothesis, that a deployment with Element has the edge, since
  `healthcheck.sh` asks for Element at the port of nginx. The order of `depends_on` is
  an invariant (`OrderInv`): crashes, restarts and repeated `make up` keep it
  (`StartsInOrder`). From it follows what the finding of `stack_compose` says of one
  deployment: a service that its settings, its ports or its probe keep from being
  healthy blocks all that depend on it for ever (`UnfitServicesBlock`), and with the
  environment of `docker-compose.yml` nginx is one of those (`ComposeNeverComesUp`).
  `HealthLasts` is the safety half of `StackComesUp`.
- **Handlers end**: each handler has a measure (`Rank` or `Progress`) that every step of its
  own raises and no other step lowers: `CallsMoveOn`, `EvaluationsMoveOn`,
  `RequestsMoveOn` of `TaskRuns` and of `Intake`, and `RunsMoveOn` of `Backup`, whose bound
  grows with the number of volumes. Nothing is retried without end and no two of them
  hand a row to and fro; what liveness then needs is only that steps are taken.

Where a property speaks of a step (`RefsAreKept`, `RecordsAreKept`,
`ReportedCostsAreSpent`, `DecidedStaysDecided`), the proof shows it of every step that
begins in a state of the invariant. Some theorems are about what no run lists, since
their proofs hold for every instance: `ArtifactsAfterRefs`, `CompleteShowsARef`,
`DecisionsStay`, `ReportsAreTrue`, `SpendBounded`, the two theorems about valid calls, the
measures, those about the order of the deployment, and what the composition inherits.

The assumptions beyond types: `Null` is no row, request, trace or number; a backup's
marks for an absent, empty or mixed volume are no writes and differ; requests
and evaluations are finitely many where they are counted; and for one scope there is one policy,
as the UNIQUE constraint of `budget_policies` has it.

Only model-checked: liveness under fairness (`EveryCallEndsUnlessGitLabHangs`,
`EveryRequestEnds`, `StackComesUp`) and `ENABLED` (`ValidCallsAreNotDoomed`), which are out
of the prover's reach, and the four violations. The theorems on measures,
`HealthLasts` and `ValidCallsAreNotBarred` are the parts of them that a statement about
states and steps can say; that a step is always possible and is taken rests on TLC.

## 5. Not modelled

- Logging and the comparison of tokens and signatures (a request is accepted or not);
  the text of settings, of Markdown, of Matrix messages and of Langfuse bodies: no
  state, or no decision that another step reads.
- Row level security and the tables of agents and skills: no modelled service uses them.
- The Kubernetes charts: declarations without program logic. `setup-minio-buckets.sh`: a
  sequence of idempotent commands that is run again when one fails.
- The containers of the workers, volumes, networks and the other targets of the
  Makefile: `Stack` has the services that depend on each other's health.
- The HiClaw Manager and its workers are prompts and skill definitions for an external
  runtime; what they do to the tables is part of the environment of each bridge
  (`MakeRow`, `StartRun`, `Insert`, `Start`, the status of a work item before
  publication). The task-center bridge is a design document.

The hazards in `PROJECT.json` that no property catches have a note with the reason. Most of
them the code simply has, and the models have them too: two calls that both publish
because both looked before either stored, rows that are missing after a call that
failed, a call or a fan-out that stopped half-way and that nothing resumes, a later
completion or an older link that wins, a pool too many. No document of the repository
promises otherwise, so a run could only restate the code; the properties beside
them say how far the damage goes. The 500 of a status report over artifact rows has the
cause that `policy_rows` shows. One contradicts a document: an empty section of criteria
(see Normalization).

## 6. Plan

Every safety property of the passing runs that does not speak of `ENABLED` is a theorem,
and each of the two parts of `Governance` is implemented by the composition. What is left:

1. The measures as liveness, should a prover come that handles `WF_vars` and `ENABLED`.
2. The services of the Compose file beside those that wait for each other's health, as
   more elements of `Services`.
3. A composition of publication and ingestion: published documents and merge requests
  come back as webhooks and become work items.
