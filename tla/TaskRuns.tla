------------------------------- MODULE TaskRuns -------------------------------
(***************************************************************************)
(* The observability-bridge: POST /trace/link, /trace/sync and             *)
(* /event/complete, the row of clawcluster.task_runs they write, Langfuse, *)
(* whose numbers grow while a trace is ingested, and Graphiti.             *)
(*                                                                         *)
(* An action is the code between two awaits of a handler.  A text is known *)
(* by the request that brought it, and the metrics of a trace by how much  *)
(* Langfuse had ingested when they were read: a larger number is a later   *)
(* one.  Tokens are stored as cost is, by the same statement, and left out.*)
(***************************************************************************)
EXTENDS FiniteSets, Naturals

CONSTANTS
    Posts,           \* the requests that may arrive
    Runs,            \* task run ids a request may name
    Traces,          \* Langfuse trace ids
    Requests,        \* the bodies of requests
    GraphitiEnabled, \* whether GRAPHITI_URL is set
    Faults,          \* what the environment may do to the bridge
    MaxInFlight,     \* bound on the requests handled at the same time
    MaxCost,         \* bound on what Langfuse ingests
    Null

RunStatuses == {"pending", "running", "succeeded", "failed", "cancelled"}

\* early: completed_at is before started_at; graphiti: sync_graphiti.
RequestType ==
    [kind : {"link", "sync", "complete"}, run : Runs, trace : Traces \cup {Null},
     status : RunStatuses, early : BOOLEAN, summary : BOOLEAN, error : BOOLEAN,
     graphiti : BOOLEAN]

RowType ==
    [status : RunStatuses, started : BOOLEAN, ended : BOOLEAN,
     trace : Traces \cup {Null}, cost : Nat \cup {Null},
     summary : Posts \cup {Null}, error : Posts \cup {Null}]

ASSUME RequestsAssumption ==
    /\ Requests \subseteq RequestType
    /\ \A r \in Requests : r.kind = "link" => r.trace # Null
ASSUME FaultsAssumption == Faults \subseteq {"refused", "unknown", "absent", "crash"}
ASSUME ConstantsAssumption ==
    /\ GraphitiEnabled \in BOOLEAN
    /\ MaxInFlight \in Nat \ {0} /\ MaxCost \in Nat
    /\ Null \notin Traces \cup Posts \cup Nat \cup RowType

VARIABLES
    request,  \* request[q]: its body
    pc,       \* pc[q]: the await at which the handler of q is suspended
    target,   \* target[q]: the trace whose metrics it fetches
    reading,  \* reading[q]: the cost it found there, Null if none
    flags,    \* flags[q]: what it will report: "trace_synced", "graphiti_completed"
    answer,   \* answer[q]: the status code it was answered with
    row,      \* clawcluster.task_runs: row[r] is Null while r has no row
    cost,     \* what Langfuse knows of the traces
    episodes, \* the completions Graphiti has
    before,   \* before[q]: the requests that were over when q arrived (history)
    known     \* known[q]: cost when q arrived (history)

handler == <<target, reading, flags>>
world == <<cost, episodes>>
history == <<before, known>>
vars == <<request, pc, answer, handler, row, world, history>>

InFlightPoints == {"link", "read_trace", "fetch", "store", "complete", "graphiti"}

\* "unsure" is a 500 after an answer of the database to a completion was lost.
Answers == {"none", "200", "404", "422", "500", "unsure", "lost"}

\* A new task run, as the Manager inserts it; started says that started_at is set.
NewRow(started) ==
    [status |-> IF started THEN "running" ELSE "pending", started |-> started,
     ended |-> FALSE, trace |-> Null, cost |-> Null, summary |-> Null, error |-> Null]

RunsTypeOK ==
    /\ request \in [Posts -> Requests]
    /\ pc \in [Posts -> InFlightPoints \cup {"idle", "done"}]
    /\ target \in [Posts -> Traces \cup {Null}]
    /\ reading \in [Posts -> Nat \cup {Null}]
    /\ flags \in [Posts -> SUBSET {"trace_synced", "graphiti_completed"}]
    /\ answer \in [Posts -> Answers]
    /\ row \in [Runs -> RowType \cup {Null}]
    /\ cost \in Nat
    /\ episodes \subseteq Posts
    /\ before \in [Posts -> SUBSET Posts]
    /\ known \in [Posts -> Nat]

Init ==
    /\ request \in [Posts -> Requests]
    /\ pc = [q \in Posts |-> "idle"]
    /\ target = [q \in Posts |-> Null]
    /\ reading = [q \in Posts |-> Null]
    /\ flags = [q \in Posts |-> {}]
    /\ answer = [q \in Posts |-> "none"]
    /\ row = [r \in Runs |-> Null]
    /\ cost = 0
    /\ episodes = {}
    /\ before = [q \in Posts |-> {}]
    /\ known = [q \in Posts |-> 0]

-----------------------------------------------------------------------------

Outcomes == {"ok"} \cup (Faults \cap {"refused", "unknown"})

\* What a statement or a request changed, whatever it answered.
Takes(outcome) == outcome # "refused"

Exists(q) == row[request[q].run] # Null

Coalesce(new, old) == IF new # Null THEN new ELSE old

Goto(q, point) == pc' = [pc EXCEPT ![q] = point] /\ UNCHANGED answer

Reply(q, code) ==
    /\ pc' = [pc EXCEPT ![q] = "done"]
    /\ answer' = [answer EXCEPT ![q] = code]

\* Mutant of Update: the statement has no WHERE.
UpdateEvery(q, new, outcome) ==
    row' = IF Takes(outcome) THEN [r \in Runs |-> IF row[r] = Null THEN Null ELSE new]
           ELSE row

\* One UPDATE ... WHERE id = ...: the row of q's run becomes new.
Update(q, new, outcome) ==
    row' = IF Exists(q) /\ Takes(outcome) THEN [row EXCEPT ![request[q].run] = new]
           ELSE row

OldRow(q) == row[request[q].run]

\* After the metrics of a completion: Graphiti, or the answer.
AfterSync(q) ==
    IF request[q].graphiti /\ GraphitiEnabled THEN Goto(q, "graphiti") ELSE Reply(q, "200")

\* A request arrives; /trace/sync asks the database only when the body names no
\* trace.
Receive(q) ==
    /\ pc[q] = "idle"
    /\ Cardinality({o \in Posts : pc[o] \in InFlightPoints}) < MaxInFlight
    /\ Goto(q, CASE request[q].kind = "link" -> "link"
                 [] request[q].kind = "complete" -> "complete"
                 [] OTHER -> IF request[q].trace # Null THEN "fetch" ELSE "read_trace")
    /\ target' = [target EXCEPT ![q] = request[q].trace]
    /\ before' = [before EXCEPT ![q] = {o \in Posts : pc[o] = "done"}]
    /\ known' = [known EXCEPT ![q] = cost]
    /\ UNCHANGED <<request, reading, flags, row, world>>

\* update_trace_link.
Link(q) ==
    /\ pc[q] = "link"
    /\ \E outcome \in Outcomes :
        /\ Update(q, [OldRow(q) EXCEPT !.trace = request[q].trace], outcome)
        /\ Reply(q, IF outcome # "ok" THEN "500" ELSE IF Exists(q) THEN "200" ELSE "404")
    /\ UNCHANGED <<request, handler, world, history>>

\* There is a row, and a trace in it.
IsLinked(q) == Exists(q) /\ OldRow(q).trace # Null

\* Mutant of ReadTrace: str() is applied to a NULL.
ReadTraceAsText(q) ==
    /\ pc[q] = "read_trace"
    /\ target' = [target EXCEPT ![q] = IF IsLinked(q) THEN OldRow(q).trace
                                       ELSE "None"]
    /\ Goto(q, "fetch")
    /\ UNCHANGED <<request, reading, flags, row, world, history>>

\* get_trace_id.
ReadTrace(q) ==
    /\ pc[q] = "read_trace"
    /\ \/ /\ IsLinked(q)
          /\ target' = [target EXCEPT ![q] = OldRow(q).trace]
          /\ Goto(q, "fetch")
       \/ /\ ~IsLinked(q)
          /\ Reply(q, "422")
          /\ UNCHANGED target
       \/ /\ Faults \cap {"refused", "unknown"} # {}
          /\ Reply(q, "500")
          /\ UNCHANGED target
    /\ UNCHANGED <<request, reading, flags, row, world, history>>

\* Mutant of Fetch: the completion does not catch what Langfuse raises.
FetchRaising(q) ==
    /\ pc[q] = "fetch"
    /\ \/ /\ reading' = [reading EXCEPT ![q] = cost]
          /\ Goto(q, "store")
       \/ /\ Faults \cap {"refused", "unknown"} # {}
          /\ Reply(q, "500")
          /\ UNCHANGED reading
    /\ UNCHANGED <<request, target, flags, row, world, history>>

\* fetch_trace_metrics; a body without a number leaves the reading Null.  A
\* failure is the answer of /trace/sync, and a completion goes on without.
Fetch(q) ==
    /\ pc[q] = "fetch"
    /\ \/ /\ \E c \in {cost} \cup (IF "absent" \in Faults THEN {Null} ELSE {}) :
                reading' = [reading EXCEPT ![q] = c]
          /\ Goto(q, "store")
       \/ /\ Faults \cap {"refused", "unknown"} # {}
          /\ IF request[q].kind = "sync" THEN Reply(q, "500") ELSE AfterSync(q)
          /\ UNCHANGED reading
    /\ UNCHANGED <<request, target, flags, row, world, history>>

\* Mutant of Store: the columns are set without COALESCE.
StoreReplacing(q) ==
    /\ pc[q] = "store"
    /\ Update(q, [OldRow(q) EXCEPT !.trace = target[q], !.cost = reading[q]], "ok")
    /\ flags' = [flags EXCEPT ![q] = @ \cup {"trace_synced"}]
    /\ IF request[q].kind = "sync" THEN Reply(q, IF Exists(q) THEN "200" ELSE "404")
       ELSE AfterSync(q)
    /\ UNCHANGED <<request, target, reading, world, history>>

\* Mutant of Store: trace_synced is reported whether or not the row was updated.
StoreClaiming(q) ==
    /\ pc[q] = "store"
    /\ \E outcome \in Outcomes :
        /\ Update(q, [OldRow(q) EXCEPT !.trace = target[q],
                                       !.cost = Coalesce(reading[q], @)], outcome)
        /\ flags' = [flags EXCEPT ![q] = @ \cup {"trace_synced"}]
        /\ IF request[q].kind = "sync" THEN Reply(q, "200") ELSE AfterSync(q)
    /\ UNCHANGED <<request, target, reading, world, history>>

\* Mutant of Store: the arguments of COALESCE are swapped, so that a number that is
\* stored is never replaced by a newer one.
StoreKeeping(q) ==
    /\ pc[q] = "store"
    /\ \E outcome \in Outcomes :
        /\ Update(q, [OldRow(q) EXCEPT !.trace = target[q],
                                       !.cost = Coalesce(@, reading[q])], outcome)
        /\ flags' = IF outcome = "ok" /\ Exists(q)
                    THEN [flags EXCEPT ![q] = @ \cup {"trace_synced"}] ELSE flags
        /\ IF request[q].kind = "complete" THEN AfterSync(q)
           ELSE Reply(q, IF outcome # "ok" THEN "500"
                         ELSE IF Exists(q) THEN "200" ELSE "404")
    /\ UNCHANGED <<request, target, reading, world, history>>

\* update_trace_metrics.
Store(q) ==
    /\ pc[q] = "store"
    /\ \E outcome \in Outcomes :
        /\ Update(q, [OldRow(q) EXCEPT !.trace = target[q],
                                       !.cost = Coalesce(reading[q], @)], outcome)
        /\ flags' = IF outcome = "ok" /\ Exists(q)
                    THEN [flags EXCEPT ![q] = @ \cup {"trace_synced"}] ELSE flags
        /\ IF request[q].kind = "complete" THEN AfterSync(q)
           ELSE Reply(q, IF outcome # "ok" THEN "500"
                         ELSE IF Exists(q) THEN "200" ELSE "404")
    /\ UNCHANGED <<request, target, reading, world, history>>

\* Mutant of Complete: the trace of the event replaces the linked one, given or not.
CompleteUnlinking(q) ==
    /\ pc[q] = "complete"
    /\ Update(q, [OldRow(q) EXCEPT !.status = request[q].status, !.ended = TRUE,
                                   !.trace = request[q].trace], "ok")
    /\ IF Exists(q) THEN AfterSync(q) ELSE Reply(q, "404")
    /\ UNCHANGED <<request, handler, world, history>>

\* The check constraint task_runs_temporal_order_check.
TooEarly(q) == Exists(q) /\ OldRow(q).started /\ request[q].early

\* complete_task_run; the metrics are fetched for the trace of the event or,
\* without one, for the trace the row has after the update.
Complete(q) ==
    LET b == request[q]
        new == [OldRow(q) EXCEPT !.status = b.status, !.ended = TRUE,
                                 !.summary = IF b.summary THEN q ELSE @,
                                 !.error = IF b.error THEN q ELSE @,
                                 !.trace = Coalesce(b.trace, @)]
    IN
    /\ pc[q] = "complete"
    /\ \/ /\ ~TooEarly(q)
          /\ \E outcome \in Outcomes :
              /\ Update(q, new, outcome)
              /\ IF outcome = "refused" THEN Reply(q, "500") /\ UNCHANGED target
                 ELSE IF outcome = "unknown" THEN Reply(q, "unsure") /\ UNCHANGED target
                 ELSE IF ~Exists(q) THEN Reply(q, "404") /\ UNCHANGED target
                 ELSE /\ target' = [target EXCEPT ![q] = new.trace]
                      /\ IF new.trace # Null THEN Goto(q, "fetch") ELSE AfterSync(q)
       \/ /\ TooEarly(q)
          /\ Reply(q, "500")
          /\ UNCHANGED <<row, target>>
    /\ UNCHANGED <<request, reading, flags, world, history>>

\* sync_task: whatever Graphiti does, the answer is 200.
Graphiti(q) ==
    /\ pc[q] = "graphiti"
    /\ \E outcome \in Outcomes :
        /\ episodes' = IF Takes(outcome) THEN episodes \cup {q} ELSE episodes
        /\ flags' = IF outcome = "ok" THEN [flags EXCEPT ![q] = @ \cup {"graphiti_completed"}]
                    ELSE flags
    /\ Reply(q, "200")
    /\ UNCHANGED <<request, target, reading, row, cost, history>>

Crash(q) ==
    /\ "crash" \in Faults
    /\ pc[q] \in InFlightPoints
    /\ Reply(q, "lost")
    /\ UNCHANGED <<request, handler, row, world, history>>

\* The Manager inserts the row of a run ...
Insert(r, started) ==
    /\ row[r] = Null
    /\ row' = [row EXCEPT ![r] = NewRow(started)]
    /\ UNCHANGED <<request, pc, answer, handler, world, history>>

\* ... and starts a run that it inserted before.
Start(r) ==
    /\ row[r] # Null /\ row[r].status = "pending" /\ ~row[r].ended
    /\ row' = [row EXCEPT ![r].status = "running", ![r].started = TRUE]
    /\ UNCHANGED <<request, pc, answer, handler, world, history>>

\* Langfuse ingests more of the traces.
Ingest ==
    /\ cost < MaxCost
    /\ cost' = cost + 1
    /\ UNCHANGED <<request, pc, answer, handler, row, episodes, history>>

\* No caller sends another request.
Quiescent ==
    /\ \A q \in Posts : pc[q] \in {"idle", "done"}
    /\ UNCHANGED vars

Step(q) ==
    \/ Receive(q) \/ Link(q) \/ ReadTrace(q) \/ Fetch(q) \/ Store(q)
    \/ Complete(q) \/ Graphiti(q) \/ Crash(q)

Next ==
    \/ \E q \in Posts : Step(q)
    \/ \E r \in Runs : Start(r) \/ \E started \in BOOLEAN : Insert(r, started)
    \/ Ingest
    \/ Quiescent

Spec == Init /\ [][Next]_vars

-----------------------------------------------------------------------------
(* Safety.                                                                  *)

SameRun(q, o) == request[q].run = request[o].run

Arrived(o) == pc[o] # "idle"

\* Neither was over when the other arrived.
Overlap(q, o) ==
    Arrived(q) /\ Arrived(o) /\ q \notin before[o] /\ o \notin before[q]

\* A completion that was stored stays stored, whatever becomes of Langfuse and
\* Graphiti: the row is ended, with the status of it or of a completion that was
\* not over when it arrived.  And one that is answered 500 left no text behind.
CompletionIsKept ==
    \A q \in Posts : request[q].kind = "complete" =>
        /\ pc[q] \in {"fetch", "store", "graphiti"} \/ answer[q] = "200" =>
            /\ Exists(q) /\ OldRow(q).ended
            /\ \E o \in Posts :
                /\ SameRun(q, o) /\ Arrived(o) /\ request[o].kind = "complete"
                /\ o = q \/ o \notin before[q]
                /\ OldRow(q).status = request[o].status
        /\ answer[q] = "500" /\ Exists(q) =>
            OldRow(q).summary # q /\ OldRow(q).error # q

\* A trace that was linked stays linked, unless a request that was not over when
\* the link arrived names a trace itself, or read the one before beside it.  A
\* sync or a completion that comes later and names none does not undo the link.
LinksSurvive ==
    \A q \in Posts :
        request[q].kind = "link" /\ answer[q] = "200" =>
            \/ Exists(q) /\ OldRow(q).trace = request[q].trace
            \/ \E o \in Posts \ {q} :
                /\ SameRun(q, o) /\ Arrived(o) /\ o \notin before[q]
                /\ request[o].trace # Null \/ Overlap(q, o)

\* The row holds what a synchronization found there, or found later.
IsAsFresh(q) == OldRow(q).cost >= reading[q]

\* The row holds what a request o that overlapped q found, after o had arrived.
IsFromBeside(q) ==
    \E o \in Posts \ {q} :
        /\ SameRun(q, o) /\ Overlap(q, o)
        /\ reading[o] # Null /\ reading[o] >= known[o]
        /\ OldRow(q).cost = reading[o]

\* The numbers a synchronization reported are no older than its arrival, and are
\* in the row, or newer ones of the trace.  Only a request that overlapped it may
\* have left older ones there, and then they are those that this request itself
\* found after it had arrived; no number from before both of them comes back.
SyncsAreFresh ==
    \A q \in Posts :
        /\ answer[q] = "200" /\ "trace_synced" \in flags[q] /\ reading[q] # Null
        /\ \A o \in Posts \ {q} :
            SameRun(q, o) => request[o].trace \in {Null, target[q]}
        => /\ reading[q] >= known[q]
           /\ Exists(q) /\ OldRow(q).cost # Null
           /\ IsAsFresh(q) \/ IsFromBeside(q)

\* The flags of an answer are true: the row has the metrics that were found, or
\* those of a later request, and Graphiti has the completion.
FlagsAreTruthful ==
    \A q \in Posts :
        /\ "trace_synced" \in flags[q] =>
               Exists(q) /\ OldRow(q).trace # Null
               /\ (reading[q] # Null => OldRow(q).cost # Null)
        /\ "graphiti_completed" \in flags[q] => q \in episodes

\* No request clears a column of a task run.
RecordsAreKept ==
    [][\A r \in {o \in Runs : row[o] # Null} :
        /\ row'[r] # Null
        /\ row[r].ended => row'[r].ended
        /\ \A col \in {"trace", "cost", "summary", "error"} :
            row[r][col] # Null => row'[r][col] # Null]_vars

=============================================================================
