----------------------------- MODULE TaskRunsProofs -----------------------------
(***************************************************************************)
(* What the observability-bridge keeps of task runs, proved for every      *)
(* number of requests, runs and traces, and every choice of faults.        *)
(***************************************************************************)
EXTENDS TaskRuns, TLAPS

\* Where the handler of a request is, and what it has in hand there.
HandlerInv ==
    \A q \in Posts :
        /\ pc[q] = "link" => request[q].kind = "link"
        /\ pc[q] = "read_trace" => request[q].kind = "sync"
        /\ pc[q] \in {"complete", "graphiti"} => request[q].kind = "complete"
        /\ pc[q] \in {"fetch", "store"} => target[q] # Null
        /\ answer[q] # "none" => pc[q] = "done"
        /\ flags[q] # {} => pc[q] \in {"graphiti", "done"}
        /\ request[q].kind = "link" => pc[q] \in {"idle", "link", "done"} /\ flags[q] = {}
        /\ "graphiti_completed" \in flags[q] => q \in episodes

\* The points of a handler up to the answer of Langfuse.
Unread == {"idle", "link", "read_trace", "complete", "fetch"}

\* A request is over when another one that found it so arrives, and the numbers of
\* Langfuse only grow: what it read was known when the other arrived.
HistoryInv ==
    /\ \A q \in Posts : known[q] <= cost
    /\ \A q, o \in Posts : o \in before[q] =>
        /\ pc[q] # "idle" /\ pc[o] = "done"
        /\ reading[o] # Null => reading[o] <= known[q]
    /\ \A q \in Posts : pc[q] \in Unread => reading[q] = Null
    /\ \A q \in Posts : reading[q] # Null => known[q] <= reading[q] /\ reading[q] <= cost

\* A request is the only one whose texts name it, and has not failed.
TextInv ==
    \A r \in Runs, q \in Posts :
        row[r] # Null /\ (row[r].summary = q \/ row[r].error = q) =>
            /\ request[q].kind = "complete"
            /\ pc[q] \in {"fetch", "store", "graphiti", "done"} /\ answer[q] # "500"

\* The row of a completion that was stored is ended, by it or by one beside it or
\* after it.
EndedInv ==
    \A q \in Posts :
        /\ request[q].kind = "complete"
        /\ pc[q] \in {"fetch", "store", "graphiti"} \/ answer[q] = "200"
        => /\ Exists(q) /\ OldRow(q).ended
           /\ \E o \in Posts :
                /\ SameRun(q, o) /\ Arrived(o) /\ request[o].kind = "complete"
                /\ o = q \/ o \notin before[q]
                /\ OldRow(q).status = request[o].status

\* Some request that was not over when q arrived names a trace, or was beside q.
Excused(q) ==
    \E o \in Posts \ {q} :
        /\ SameRun(q, o) /\ Arrived(o) /\ o \notin before[q]
        /\ request[o].trace # Null \/ Overlap(q, o)

\* A link is in the row, and in the hands of every handler that stores one.
LinkInv ==
    \A q \in Posts :
        request[q].kind = "link" /\ answer[q] = "200" /\ ~Excused(q) =>
            /\ Exists(q) /\ OldRow(q).trace = request[q].trace
            /\ \A o \in Posts :
                SameRun(q, o) /\ pc[o] \in {"fetch", "store"} => target[o] = request[q].trace

\* Synchronized numbers, or newer ones, are in the row, or those that a request
\* beside it read.
SyncInv ==
    \A q \in Posts :
        "trace_synced" \in flags[q] =>
            /\ Exists(q) /\ OldRow(q).trace # Null
            /\ reading[q] # Null =>
                /\ OldRow(q).cost # Null
                /\ IsAsFresh(q) \/ IsFromBeside(q)

RunsIInv ==
    /\ RunsTypeOK /\ HandlerInv /\ HistoryInv
    /\ TextInv /\ EndedInv /\ LinkInv /\ SyncInv

-----------------------------------------------------------------------------
(* Types, and what a step does to the rows.                                 *)

\* The body of a request is one of the bodies.
LEMMA BodyFields ==
    ASSUME RunsTypeOK, NEW q \in Posts
    PROVE  /\ request[q] \in RequestType
           /\ request[q].run \in Runs
           /\ request[q].trace \in Traces \cup {Null}
           /\ request[q].status \in RunStatuses
           /\ request[q].kind \in {"link", "sync", "complete"}
           /\ request[q].kind = "link" => request[q].trace # Null
           /\ Null \notin Traces /\ Null \notin Posts /\ Null \notin Nat /\ Null \notin RowType
  <1>1. request[q] \in Requests
    BY DEF RunsTypeOK
  <1>2. request[q] \in RequestType
    BY <1>1, RequestsAssumption
  <1> QED
    BY <1>1, <1>2, RequestsAssumption, ConstantsAssumption DEF RequestType

\* An UPDATE touches no row but that of its request, and makes or removes none.
LEMMA UpdateOne ==
    ASSUME RunsTypeOK, NEW q \in Posts, NEW new, NEW outcome,
           Exists(q) => new \in RowType,
           Update(q, new, outcome)
    PROVE  /\ row' \in [Runs -> RowType \cup {Null}]
           /\ \A r \in Runs : row[r] = Null <=> row'[r] = Null
           /\ row' = row \/ (Exists(q) /\ row' = [row EXCEPT ![request[q].run] = new])
           /\ ~Takes(outcome) => row' = row
           /\ Exists(q) /\ Takes(outcome) => row' = [row EXCEPT ![request[q].run] = new]
  BY BodyFields DEF Update, Exists, RunsTypeOK

\* What Link, Store and Complete store, if they store anything.
Linked(q) == [OldRow(q) EXCEPT !.trace = request[q].trace]
Synced(q) == [OldRow(q) EXCEPT !.trace = target[q], !.cost = Coalesce(reading[q], @)]
Completed(q) ==
    [OldRow(q) EXCEPT !.status = request[q].status, !.ended = TRUE,
                      !.summary = IF request[q].summary THEN q ELSE @,
                      !.error = IF request[q].error THEN q ELSE @,
                      !.trace = Coalesce(request[q].trace, @)]

\* Each of them is a row, column by column.
LEMMA OldColumns ==
    ASSUME RunsTypeOK, NEW q \in Posts, Exists(q)
    PROVE  OldRow(q) \in RowType
  BY BodyFields DEF OldRow, Exists, RunsTypeOK

LEMMA LinkedColumns ==
    ASSUME RunsTypeOK, NEW q \in Posts, Exists(q)
    PROVE  /\ Linked(q) \in RowType
           /\ Linked(q).trace = request[q].trace
           /\ Linked(q).status = OldRow(q).status /\ Linked(q).ended = OldRow(q).ended
           /\ Linked(q).cost = OldRow(q).cost
           /\ Linked(q).summary = OldRow(q).summary /\ Linked(q).error = OldRow(q).error
  BY OldColumns, BodyFields DEF Linked, RowType

LEMMA SyncedColumns ==
    ASSUME RunsTypeOK, NEW q \in Posts, Exists(q)
    PROVE  /\ Synced(q) \in RowType
           /\ Synced(q).trace = target[q]
           /\ Synced(q).cost = Coalesce(reading[q], OldRow(q).cost)
           /\ Synced(q).status = OldRow(q).status /\ Synced(q).ended = OldRow(q).ended
           /\ Synced(q).summary = OldRow(q).summary /\ Synced(q).error = OldRow(q).error
  <1>1. target[q] \in Traces \cup {Null} /\ reading[q] \in Nat \cup {Null}
    BY DEF RunsTypeOK
  <1> QED
    BY <1>1, OldColumns DEF Synced, RowType, Coalesce

LEMMA CompletedColumns ==
    ASSUME RunsTypeOK, NEW q \in Posts, Exists(q)
    PROVE  /\ Completed(q) \in RowType
           /\ Completed(q).trace = Coalesce(request[q].trace, OldRow(q).trace)
           /\ Completed(q).cost = OldRow(q).cost
           /\ Completed(q).status = request[q].status /\ Completed(q).ended = TRUE
           /\ Completed(q).summary \in {q, OldRow(q).summary}
           /\ Completed(q).error \in {q, OldRow(q).error}
  <1>1. OldRow(q) \in RowType
    BY OldColumns
  <1>2. /\ request[q].status \in RunStatuses
        /\ request[q].trace \in Traces \cup {Null}
    BY BodyFields
  <1>3. Completed(q).trace = Coalesce(request[q].trace, OldRow(q).trace)
    BY <1>1 DEF Completed, RowType
  <1>4. Coalesce(request[q].trace, OldRow(q).trace) \in Traces \cup {Null}
    BY <1>1, <1>2 DEF Coalesce, RowType
  <1>5. /\ Completed(q).cost = OldRow(q).cost
        /\ Completed(q).status = request[q].status /\ Completed(q).ended = TRUE
        /\ Completed(q).summary \in {q, OldRow(q).summary}
        /\ Completed(q).error \in {q, OldRow(q).error}
    BY <1>1 DEF Completed, RowType
  <1> QED
    BY <1>1, <1>2, <1>3, <1>4, <1>5, ZenonT(60) DEF Completed, RowType

LEMMA RowColumns ==
    ASSUME RunsTypeOK, NEW q \in Posts, Exists(q)
    PROVE  /\ OldRow(q) \in RowType /\ Linked(q) \in RowType
           /\ Synced(q) \in RowType /\ Completed(q) \in RowType
  BY OldColumns, LinkedColumns, SyncedColumns, CompletedColumns

\* Nothing but an UPDATE changes the rows, and each changes one.
LEMMA RowChanges ==
    ASSUME RunsTypeOK, NEW q \in Posts, Step(q)
    PROVE  /\ row' \in [Runs -> RowType \cup {Null}]
           /\ \A r \in Runs : row[r] = Null <=> row'[r] = Null
           /\ \/ row' = row
              \/ /\ pc[q] = "link" /\ Exists(q)
                 /\ row' = [row EXCEPT ![request[q].run] = Linked(q)]
              \/ /\ pc[q] = "store" /\ Exists(q)
                 /\ row' = [row EXCEPT ![request[q].run] = Synced(q)]
              \/ /\ pc[q] = "complete" /\ Exists(q)
                 /\ row' = [row EXCEPT ![request[q].run] = Completed(q)]
  <1>1. CASE Link(q)
    BY <1>1, UpdateOne, RowColumns DEF Link, Linked
  <1>2. CASE Store(q)
    BY <1>2, UpdateOne, RowColumns DEF Store, Synced
  <1>3. CASE Complete(q)
    <2>1. CASE row' = row
      BY <2>1 DEF RunsTypeOK
    <2>2. CASE row' # row
      <3>1. pc[q] = "complete" /\ \E outcome \in Outcomes : Update(q, Completed(q), outcome)
        BY <1>3, <2>2 DEF Complete, Completed
      <3> QED
        BY <3>1, UpdateOne, RowColumns
    <2> QED
      BY <2>1, <2>2
  <1>4. CASE ~(Link(q) \/ Store(q) \/ Complete(q))
    <2>1. row' = row
      BY <1>4 DEF Step, Receive, ReadTrace, Fetch, Graphiti, Crash
    <2> QED
      BY <2>1 DEF RunsTypeOK
  <1> QED
    BY <1>1, <1>2, <1>3, <1>4

\* The await at which the handler of a request begins to wait.
FirstPoint(q) ==
    IF request[q].kind = "link" THEN "link"
    ELSE IF request[q].kind = "complete" THEN "complete"
    ELSE IF request[q].trace # Null THEN "fetch" ELSE "read_trace"

LEMMA ReceiveGoesTo ==
    ASSUME RunsTypeOK, NEW q \in Posts, Receive(q)
    PROVE  /\ pc[q] = "idle"
           /\ pc' = [pc EXCEPT ![q] = FirstPoint(q)] /\ UNCHANGED answer
           /\ target' = [target EXCEPT ![q] = request[q].trace]
  <1>0. pc[q] = "idle" /\ target' = [target EXCEPT ![q] = request[q].trace]
    BY DEF Receive
  <1>1. CASE request[q].kind = "link"
    BY <1>1 DEF Receive, Goto, FirstPoint
  <1>2. CASE request[q].kind = "complete"
    BY <1>2 DEF Receive, Goto, FirstPoint
  <1>3. CASE request[q].kind \notin {"link", "complete"}
    <2>1. (CASE request[q].kind = "link" -> "link"
             [] request[q].kind = "complete" -> "complete"
             [] OTHER -> IF request[q].trace # Null THEN "fetch" ELSE "read_trace")
          = FirstPoint(q)
      BY <1>3 DEF FirstPoint
    <2> QED
      BY <2>1 DEF Receive, Goto
  <1> QED
    BY <1>0, <1>1, <1>2, <1>3

\* A step of a handler leaves the other handlers alone, and its own past.
LEMMA StepFrame ==
    ASSUME RunsTypeOK, NEW q \in Posts, Step(q)
    PROVE  /\ request' = request /\ cost' = cost /\ episodes \subseteq episodes'
           /\ \A o \in Posts \ {q} :
                 /\ pc'[o] = pc[o] /\ answer'[o] = answer[o] /\ target'[o] = target[o]
                 /\ reading'[o] = reading[o] /\ flags'[o] = flags[o]
                 /\ before'[o] = before[o] /\ known'[o] = known[o]
           /\ pc[q] # "done" /\ pc'[q] # "idle"
           /\ pc[q] # "idle" => before'[q] = before[q] /\ known'[q] = known[q]
           /\ pc[q] = "idle" =>
                 /\ before'[q] = {o \in Posts : pc[o] = "done"} /\ known'[q] = cost
                 /\ reading'[q] = reading[q] /\ flags'[q] = flags[q] /\ row' = row
                 /\ pc'[q] # "done" /\ answer'[q] = answer[q]
  <1> USE DEF RunsTypeOK, Goto, Reply, AfterSync, InFlightPoints
  <1>1. CASE Receive(q)
    BY <1>1, ReceiveGoesTo DEF Receive, FirstPoint, world
  <1>2. CASE Link(q)
    BY <1>2 DEF Link, handler, world, history
  <1>3. CASE ReadTrace(q)
    BY <1>3 DEF ReadTrace, world, history
  <1>4. CASE Fetch(q)
    BY <1>4 DEF Fetch, world, history
  <1>5. CASE Store(q)
    BY <1>5 DEF Store, world, history
  <1>6. CASE Complete(q)
    BY <1>6 DEF Complete, world, history
  <1>7. CASE Graphiti(q)
    BY <1>7 DEF Graphiti, history
  <1>8. CASE Crash(q)
    BY <1>8 DEF Crash, handler, world, history
  <1> QED
    BY <1>1, <1>2, <1>3, <1>4, <1>5, <1>6, <1>7, <1>8 DEF Step

LEMMA TypeInit == Init => RunsTypeOK
  BY ConstantsAssumption DEF Init, RunsTypeOK, Answers

LEMMA TypeStep ==
    ASSUME RunsTypeOK, [Next]_vars
    PROVE  RunsTypeOK'
  <1> USE DEF RunsTypeOK
  <1>1. ASSUME NEW q \in Posts, Step(q)
        PROVE  RunsTypeOK'
    <2> USE BodyFields, RowChanges, <1>1 DEF Goto, Reply, AfterSync, InFlightPoints, Answers
    <2>1. CASE Receive(q)
      BY <2>1, ReceiveGoesTo DEF Receive, FirstPoint, world
    <2>2. CASE Link(q)
      BY <2>2 DEF Link, handler, world, history
    <2>3. CASE ReadTrace(q)
      <3>1. IsLinked(q) => OldRow(q).trace \in Traces
        BY RowColumns DEF IsLinked, RowType
      <3>2. CASE IsLinked(q) /\ target' = [target EXCEPT ![q] = OldRow(q).trace]
                 /\ Goto(q, "fetch")
        BY <2>3, <3>1, <3>2 DEF ReadTrace, world, history
      <3>3. CASE target' = target /\ (Reply(q, "422") \/ Reply(q, "500"))
        BY <2>3, <3>3 DEF ReadTrace, world, history
      <3> QED
        BY <2>3, <3>2, <3>3 DEF ReadTrace
    <2>4. CASE Fetch(q)
      BY <2>4 DEF Fetch, world, history
    <2>5. CASE Store(q)
      BY <2>5 DEF Store, world, history
    <2>6. CASE Complete(q)
      <3>1. Exists(q) => Coalesce(request[q].trace, OldRow(q).trace) \in Traces \cup {Null}
        BY RowColumns DEF RowType, Coalesce
      <3>2. row' \in [Runs -> RowType \cup {Null}] /\ request' = request
            /\ flags' = flags /\ reading' = reading /\ cost' = cost
            /\ episodes' = episodes /\ before' = before /\ known' = known
        BY <2>6 DEF Complete, world, history
      <3>3. \/ UNCHANGED target
            \/ /\ Exists(q)
               /\ target' = [target EXCEPT ![q] =
                                Coalesce(request[q].trace, OldRow(q).trace)]
        <4>1. CASE ~Exists(q) \/ target' = target
          BY <2>6, <4>1 DEF Complete
        <4>2. CASE Exists(q) /\ target' # target
          <5>1. target' = [target EXCEPT ![q] = Completed(q).trace]
            BY <2>6, <4>2 DEF Complete, Completed
          <5> QED
            BY <5>1, <4>2, CompletedColumns
        <4> QED
          BY <4>1, <4>2
      <3>4. pc' \in [Posts -> InFlightPoints \cup {"idle", "done"}]
            /\ answer' \in [Posts -> Answers]
        BY <2>6 DEF Complete
      <3> QED
        BY <3>1, <3>2, <3>3, <3>4
    <2>7. CASE Graphiti(q)
      BY <2>7 DEF Graphiti, history
    <2>8. CASE Crash(q)
      BY <2>8 DEF Crash, handler, world, history
    <2> QED
      BY <2>1, <2>2, <2>3, <2>4, <2>5, <2>6, <2>7, <2>8 DEF Step
  <1>2. ASSUME NEW r \in Runs, NEW started \in BOOLEAN, Insert(r, started)
        PROVE  RunsTypeOK'
    <2>1. NewRow(started) \in RowType
      BY DEF NewRow, RowType, RunStatuses
    <2> QED
      BY <1>2, <2>1 DEF Insert, handler, world, history
  <1>3. ASSUME NEW r \in Runs, Start(r)
        PROVE  RunsTypeOK'
    <2>1. row[r] \in RowType
      BY <1>3 DEF Start
    <2>2. [row[r] EXCEPT !.status = "running", !.started = TRUE] \in RowType
      BY <2>1 DEF RowType, RunStatuses
    <2> QED
      BY <1>3, <2>2 DEF Start, handler, world, history
  <1>4. CASE Ingest
    BY <1>4 DEF Ingest, handler, history
  <1>5. CASE UNCHANGED vars
    BY <1>5 DEF vars, handler, world, history
  <1> QED
    BY <1>1, <1>2, <1>3, <1>4, <1>5 DEF Next, Quiescent

-----------------------------------------------------------------------------
(* The inductive invariant, conjunct by conjunct.                           *)

LEMMA HandlerStep ==
    ASSUME RunsIInv, NEW q \in Posts, Step(q)
    PROVE  HandlerInv'
  <1> DEFINE Inv(o) ==
        /\ pc[o] = "link" => request[o].kind = "link"
        /\ pc[o] = "read_trace" => request[o].kind = "sync"
        /\ pc[o] \in {"complete", "graphiti"} => request[o].kind = "complete"
        /\ pc[o] \in {"fetch", "store"} => target[o] # Null
        /\ answer[o] # "none" => pc[o] = "done"
        /\ flags[o] # {} => pc[o] \in {"graphiti", "done"}
        /\ request[o].kind = "link" => pc[o] \in {"idle", "link", "done"} /\ flags[o] = {}
        /\ "graphiti_completed" \in flags[o] => o \in episodes
  <1>1. RunsTypeOK /\ \A o \in Posts : Inv(o)
    BY DEF RunsIInv, HandlerInv
  <1>2. ASSUME NEW o \in Posts \ {q}
        PROVE  Inv(o)'
    BY <1>1, StepFrame
  <1>3. Inv(q)'
    <2>1. CASE Receive(q)
      <3>1. pc[q] = "idle" /\ pc'[q] = FirstPoint(q) /\ target'[q] = request[q].trace
        BY <1>1, <2>1, ReceiveGoesTo DEF RunsTypeOK
      <3>2. answer[q] = "none" /\ flags[q] = {}
        BY <1>1, <3>1
      <3>3. answer'[q] = "none" /\ flags'[q] = {} /\ request' = request
        BY <1>1, <3>1, <3>2, StepFrame
      <3>4. request[q].kind \in {"link", "sync", "complete"}
        BY <1>1, BodyFields
      <3> QED
        BY <3>1, <3>3, <3>4 DEF FirstPoint
    <2> USE <1>1, StepFrame, BodyFields DEF RunsTypeOK
    <2>2. CASE Link(q)
      BY <2>2 DEF Link, Reply, handler, world
    <2>3. CASE ReadTrace(q)
      BY <2>3 DEF ReadTrace, Reply, Goto, IsLinked, world
    <2>4. CASE Fetch(q)
      BY <2>4 DEF Fetch, Reply, Goto, AfterSync, world
    <2>5. CASE Store(q)
      BY <2>5 DEF Store, Reply, Goto, AfterSync, world
    <2>6. CASE Complete(q)
      <3>1. pc[q] = "complete" /\ flags' = flags /\ episodes' = episodes
        BY <2>6 DEF Complete, world
      <3>2. \/ pc'[q] = "done"
            \/ pc'[q] = "fetch" /\ target'[q] # Null /\ answer' = answer
            \/ pc'[q] = "graphiti" /\ answer' = answer
        BY <2>6 DEF Complete, Reply, Goto, AfterSync
      <3> QED
        BY <3>1, <3>2
    <2>7. CASE Graphiti(q)
      <3>1. pc[q] = "graphiti" /\ pc'[q] = "done"
        BY <2>7 DEF Graphiti, Reply
      <3>2. "graphiti_completed" \in flags'[q] => q \in episodes'
        BY <2>7 DEF Graphiti, Takes
      <3> QED
        BY <3>1, <3>2
    <2>8. CASE Crash(q)
      <3>1. pc'[q] = "done" /\ flags' = flags /\ episodes' = episodes
        BY <2>8 DEF Crash, Reply, handler, world
      <3> QED
        BY <3>1
    <2> QED
      BY <2>1, <2>2, <2>3, <2>4, <2>5, <2>6, <2>7, <2>8 DEF Step
  <1> QED
    BY <1>2, <1>3 DEF HandlerInv

LEMMA HistoryStep ==
    ASSUME RunsIInv, NEW q \in Posts, Step(q)
    PROVE  HistoryInv'
  <1>1. RunsTypeOK /\ RunsTypeOK' /\ HistoryInv /\ cost' = cost
    BY TypeStep, StepFrame DEF RunsIInv, Next
  <1>2. \A o \in Posts : known'[o] <= cost'
    BY <1>1, StepFrame DEF HistoryInv, RunsTypeOK
  <1>3. ASSUME NEW p \in Posts, NEW o \in Posts, o \in before'[p]
        PROVE  /\ pc'[p] # "idle" /\ pc'[o] = "done"
               /\ reading'[o] # Null => reading'[o] <= known'[p]
    <2>1. CASE p = q /\ pc[q] = "idle"
      <3>1. pc[o] = "done" /\ o # q /\ known'[p] = cost
        BY <1>1, <1>3, <2>1, StepFrame
      <3> QED
        BY <1>1, <2>1, <3>1, StepFrame DEF HistoryInv
    <2>2. CASE ~(p = q /\ pc[q] = "idle")
      <3>1. o \in before[p]
        BY <1>3, <2>2, StepFrame, <1>1
      <3>2. pc[o] = "done" /\ o # q /\ pc[p] # "idle"
        BY <1>1, <3>1, StepFrame DEF HistoryInv
      <3>3. known'[p] = known[p] /\ pc'[p] # "idle"
        BY <1>1, <2>2, <3>2, StepFrame
      <3> QED
        BY <1>1, <3>1, <3>2, <3>3, StepFrame DEF HistoryInv
    <2> QED
      BY <2>1, <2>2
  <1>4. ASSUME NEW o \in Posts
        PROVE  /\ pc'[o] \in Unread => reading'[o] = Null
               /\ reading'[o] # Null => known'[o] <= reading'[o] /\ reading'[o] <= cost'
    <2>1. CASE o # q
      BY <1>1, <2>1, StepFrame DEF HistoryInv
    <2>2. CASE o = q /\ Fetch(q)
      <3>1. pc[q] = "fetch" /\ reading[q] = Null /\ reading'[q] \in {cost, Null}
        BY <1>1, <2>2 DEF Fetch, HistoryInv, RunsTypeOK, Unread
      <3>2. pc'[q] \in {"store", "graphiti", "done"}
        BY <1>1, <2>2 DEF Fetch, Goto, Reply, AfterSync, RunsTypeOK
      <3>3. known'[q] = known[q] /\ known[q] <= cost /\ cost \in Nat
        BY <1>1, <3>1, StepFrame DEF HistoryInv, RunsTypeOK
      <3> QED
        BY <1>1, <2>2, <3>1, <3>2, <3>3 DEF Unread
    <2>3. CASE o = q /\ ~Fetch(q)
      <3>1. reading' = reading
        BY <2>3 DEF Step, Receive, Link, ReadTrace, Store, Complete, Graphiti, Crash, handler
      <3>2. pc'[q] \in Unread => pc[q] \in Unread
        BY <1>1, <2>3 DEF Step, Receive, Link, ReadTrace, Store, Complete, Graphiti, Crash,
                          Goto, Reply, AfterSync, RunsTypeOK, Unread
      <3>3. reading[q] # Null => known'[q] = known[q]
        BY <1>1, StepFrame DEF HistoryInv, Unread
      <3> QED
        BY <1>1, <2>3, <3>1, <3>2, <3>3 DEF HistoryInv
    <2> QED
      BY <2>1, <2>2, <2>3
  <1> QED
    BY <1>2, <1>3, <1>4 DEF HistoryInv

\* What a handler has read it does not read again, and it had arrived before.
LEMMA ReadingStays ==
    ASSUME RunsIInv, NEW q \in Posts, Step(q), NEW p \in Posts, reading[p] # Null
    PROVE  reading'[p] = reading[p] /\ known'[p] = known[p]
  <1>1. RunsTypeOK /\ HistoryInv
    BY DEF RunsIInv
  <1>2. pc[p] \notin Unread
    BY <1>1 DEF HistoryInv
  <1>3. CASE p # q
    BY <1>1, <1>3, StepFrame
  <1>4. CASE p = q
    <2>1. reading' = reading
      BY <1>2, <1>4 DEF Step, Receive, Link, ReadTrace, Fetch, Store, Complete, Graphiti,
                        Crash, handler, Unread
    <2> QED
      BY <1>1, <1>2, <1>4, <2>1, StepFrame DEF Unread
  <1> QED
    BY <1>3, <1>4

LEMMA TextStep ==
    ASSUME RunsIInv, NEW q \in Posts, Step(q)
    PROVE  TextInv'
  <1>1. RunsTypeOK /\ HandlerInv /\ TextInv
    BY DEF RunsIInv
  <1> SUFFICES ASSUME NEW r \in Runs, NEW o \in Posts, row'[r] # Null,
                      row'[r].summary = o \/ row'[r].error = o
               PROVE  /\ request'[o].kind = "complete"
                      /\ pc'[o] \in {"fetch", "store", "graphiti", "done"}
                      /\ answer'[o] # "500"
    BY DEF TextInv
  <1>2. row[r] # Null
    BY <1>1, RowChanges
  <1>3. \/ row[r].summary = o \/ row[r].error = o
        \/ o = q /\ pc[q] = "complete" /\ row' # row
    <2>1. CASE row'[r] = row[r]
      BY <2>1
    <2>2. CASE row'[r] # row[r]
      <3>1. r = request[q].run /\ Exists(q) /\ row[r] = OldRow(q)
        BY <1>1, <2>2, RowChanges DEF RunsTypeOK, OldRow
      <3>2. \/ pc[q] = "link" /\ row'[r] = Linked(q)
            \/ pc[q] = "store" /\ row'[r] = Synced(q)
            \/ pc[q] = "complete" /\ row'[r] = Completed(q)
        BY <1>1, <2>2, <3>1, RowChanges, BodyFields DEF RunsTypeOK
      <3>3. CASE pc[q] = "complete" /\ row'[r] = Completed(q)
        <4>1. /\ row'[r].summary \in {q, row[r].summary}
              /\ row'[r].error \in {q, row[r].error}
          BY <1>1, <3>1, <3>3, CompletedColumns
        <4> QED
          BY <2>2, <3>3, <4>1
      <3>4. CASE pc[q] = "link" /\ row'[r] = Linked(q)
        BY <1>1, <3>1, <3>4, LinkedColumns
      <3>5. CASE pc[q] = "store" /\ row'[r] = Synced(q)
        BY <1>1, <3>1, <3>5, SyncedColumns
      <3> QED
        BY <3>2, <3>3, <3>4, <3>5
    <2> QED
      BY <2>1, <2>2
  <1>4. CASE o # q
    BY <1>1, <1>2, <1>3, <1>4, StepFrame DEF TextInv
  <1>5. CASE o = q /\ pc[q] = "complete" /\ row' # row
    <2>1. Complete(q) \/ Crash(q)
      BY <1>5 DEF Step, Receive, Link, ReadTrace, Fetch, Store, Graphiti
    <2>2. Complete(q)
      BY <1>5, <2>1 DEF Crash
    <2>3. Exists(q) /\ ~TooEarly(q)
      BY <1>5, <2>2 DEF Complete, Update
    <2>4. \E outcome \in Outcomes : Takes(outcome) /\ outcome # "refused"
                                  /\ \/ outcome = "unknown" /\ Reply(q, "unsure")
                                     \/ outcome # "unknown" /\ (Goto(q, "fetch") \/ AfterSync(q))
      BY <1>5, <2>2, <2>3, SMTT(60) DEF Complete, Update, Takes
    <2>5. answer[q] = "none" /\ request'[q].kind = "complete"
      BY <1>1, <1>5, StepFrame DEF HandlerInv
    <2>6. CASE Reply(q, "unsure")
      BY <1>1, <1>5, <2>5, <2>6 DEF Reply, RunsTypeOK
    <2>7. CASE Goto(q, "fetch") \/ AfterSync(q)
      BY SMTT(30), <1>1, <1>5, <2>5, <2>7 DEF Reply, Goto, AfterSync, RunsTypeOK
    <2> QED
      BY <2>4, <2>6, <2>7
  <1>6. CASE o = q /\ (row[r].summary = q \/ row[r].error = q)
    <2>1. pc[q] \in {"fetch", "store", "graphiti"} /\ answer[q] # "500"
          /\ request[q].kind = "complete"
      BY <1>1, <1>2, <1>6, StepFrame DEF TextInv
    <2> USE <1>1, <1>6, <2>1, StepFrame DEF RunsTypeOK, Goto, Reply, AfterSync
    <2>2. CASE Fetch(q)
      BY <2>2 DEF Fetch
    <2>3. CASE Store(q)
      BY <2>3 DEF Store
    <2>4. CASE Graphiti(q)
      BY <2>4 DEF Graphiti
    <2>5. CASE Crash(q)
      BY <2>5 DEF Crash
    <2> QED
      BY <2>2, <2>3, <2>4, <2>5 DEF Step, Receive, Link, ReadTrace, Complete
  <1> QED
    BY <1>3, <1>4, <1>5, <1>6

\* What is in the row of o's run after a step of q.
LEMMA RowOf ==
    ASSUME RunsTypeOK, NEW q \in Posts, Step(q), NEW o \in Posts, Exists(o)
    PROVE  /\ row'[request[o].run] # Null
           /\ \/ row'[request[o].run] = OldRow(o)
              \/ /\ SameRun(o, q) /\ Exists(q) /\ OldRow(q) = OldRow(o)
                 /\ \/ pc[q] = "link" /\ row'[request[o].run] = Linked(q)
                    \/ pc[q] = "store" /\ row'[request[o].run] = Synced(q)
                    \/ pc[q] = "complete" /\ row'[request[o].run] = Completed(q)
  <1>1. request[o].run \in Runs /\ request[q].run \in Runs
    BY BodyFields
  <1>2. row'[request[o].run] # Null
    BY <1>1, RowChanges DEF Exists
  <1>3. CASE request[o].run = request[q].run
    BY <1>1, <1>2, <1>3, RowChanges DEF RunsTypeOK, OldRow, SameRun, Exists
  <1>4. CASE request[o].run # request[q].run
    BY <1>1, <1>2, <1>4, RowChanges DEF RunsTypeOK, OldRow
  <1> QED
    BY <1>3, <1>4

\* What was history stays history.
LEMMA HistoryKept ==
    ASSUME RunsIInv, NEW q \in Posts, Step(q), NEW o \in Posts, Arrived(o)
    PROVE  /\ Arrived(o)' /\ before'[o] = before[o] /\ known'[o] = known[o]
           /\ q \notin before[o]
           /\ \A p \in Posts : Overlap(o, p) => Overlap(o, p)'
  BY StepFrame DEF RunsIInv, HistoryInv, Arrived, Overlap

LEMMA EndedStep ==
    ASSUME RunsIInv, NEW q \in Posts, Step(q)
    PROVE  EndedInv'
  <1>1. RunsTypeOK /\ HandlerInv /\ HistoryInv /\ EndedInv
    BY DEF RunsIInv
  <1> SUFFICES ASSUME NEW o \in Posts, request[o].kind = "complete",
                      pc'[o] \in {"fetch", "store", "graphiti"} \/ answer'[o] = "200"
               PROVE  /\ Exists(o)' /\ OldRow(o)'.ended
                      /\ \E p \in Posts :
                            /\ SameRun(o, p)' /\ Arrived(p)' /\ request[p].kind = "complete"
                            /\ p = o \/ p \notin before'[o]
                            /\ OldRow(o)'.status = request[p].status
    BY <1>1, StepFrame DEF EndedInv
  <1>2. CASE pc[o] \in {"fetch", "store", "graphiti"} \/ answer[o] = "200"
    <2>1. PICK p \in Posts :
            /\ SameRun(o, p) /\ Arrived(p) /\ request[p].kind = "complete"
            /\ p = o \/ p \notin before[o]
            /\ OldRow(o).status = request[p].status
      BY <1>1, <1>2 DEF EndedInv
    <2>2. Exists(o) /\ OldRow(o).ended /\ Arrived(o)
      BY <1>1, <1>2 DEF EndedInv, HandlerInv, Arrived
    <2>3. /\ SameRun(o, p)' /\ Arrived(p)' /\ before'[o] = before[o]
          /\ SameRun(o, q)' = SameRun(o, q)
      BY <1>1, <2>1, <2>2, StepFrame, HistoryKept DEF SameRun
    <2>4. Exists(o)' /\ OldRow(o)' = row'[request[o].run]
      BY <1>1, <2>2, RowOf, StepFrame DEF Exists, OldRow
    <2>5. CASE SameRun(o, q) /\ pc[q] = "complete" /\ Exists(q) /\ OldRow(o)' = Completed(q)
      <3>1. OldRow(o)'.ended /\ OldRow(o)'.status = request[q].status
        BY <1>1, <2>5, CompletedColumns
      <3>2. request[q].kind = "complete" /\ q \notin before'[o] /\ Arrived(q)'
        BY <1>1, <2>2, <2>3, <2>5, HistoryKept, StepFrame DEF HandlerInv, Arrived
      <3> QED
        BY <2>3, <2>4, <2>5, <3>1, <3>2
    <2>6. CASE \/ OldRow(o)' = OldRow(o)
               \/ /\ Exists(q) /\ OldRow(q) = OldRow(o)
                  /\ OldRow(o)' \in {Linked(q), Synced(q)}
      <3>1. OldRow(o)'.ended /\ OldRow(o)'.status = OldRow(o).status
        BY <1>1, <2>2, <2>6, LinkedColumns, SyncedColumns
      <3> QED
        BY <2>1, <2>3, <2>4, <3>1
    <2> QED
      BY <1>1, <2>2, <2>4, <2>5, <2>6, RowOf
  <1>3. CASE ~(pc[o] \in {"fetch", "store", "graphiti"} \/ answer[o] = "200")
    <2>1. o = q
      BY <1>1, <1>3, StepFrame
    <2>2. Complete(q)
      <3>1. CASE Receive(q)
        BY <1>1, <2>1, <3>1, ReceiveGoesTo, StepFrame DEF FirstPoint, RunsTypeOK, HandlerInv
      <3>2. CASE Link(q) \/ ReadTrace(q)
        BY <1>1, <2>1, <3>2 DEF Link, ReadTrace, HandlerInv
      <3>3. CASE Fetch(q) \/ Store(q) \/ Graphiti(q)
        BY <1>3, <2>1, <3>3 DEF Fetch, Store, Graphiti
      <3>4. CASE Crash(q)
        BY <1>1, <2>1, <3>4 DEF Crash, Reply, RunsTypeOK
      <3> QED
        BY <3>1, <3>2, <3>3, <3>4 DEF Step
    <2>3. pc[q] = "complete" /\ answer[q] = "none"
      BY <1>1, <2>2 DEF Complete, HandlerInv
    <2>4. PICK outcome \in Outcomes :
            /\ ~TooEarly(q) /\ Update(q, Completed(q), outcome)
            /\ outcome \notin {"refused", "unknown"} /\ Exists(q)
      <3>1. ~(Reply(q, "500") \/ Reply(q, "404") \/ Reply(q, "unsure"))
        BY <1>1, <2>1 DEF Reply, RunsTypeOK
      <3> QED
        BY <2>2, <3>1 DEF Complete, Completed
    <2>5. row' = [row EXCEPT ![request[q].run] = Completed(q)]
      BY <2>4 DEF Update, Takes
    <2>6. OldRow(q)' = Completed(q) /\ Exists(q)'
      <3>1. request[q].run \in Runs /\ request' = request /\ row \in [Runs -> RowType \cup {Null}]
        BY <1>1, BodyFields, StepFrame DEF RunsTypeOK
      <3>2. Completed(q) # Null
        BY <1>1, <2>4, BodyFields, RowColumns
      <3> QED
        BY <2>5, <3>1, <3>2 DEF OldRow, Exists
    <2>7. OldRow(q)'.ended /\ OldRow(q)'.status = request[q].status
      BY <1>1, <2>4, <2>6, CompletedColumns
    <2> QED
      BY <1>1, <2>1, <2>6, <2>7, StepFrame DEF SameRun, Arrived
  <1> QED
    BY <1>2, <1>3

LEMMA ExcusedStays ==
    ASSUME RunsIInv, NEW q \in Posts, Step(q), NEW o \in Posts, Arrived(o), Excused(o)
    PROVE  Excused(o)'
  <1>1. PICK p \in Posts \ {o} :
          /\ SameRun(o, p) /\ Arrived(p) /\ p \notin before[o]
          /\ request[p].trace # Null \/ Overlap(o, p)
    BY DEF Excused
  <1>2. RunsTypeOK
    BY DEF RunsIInv
  <1>3. SameRun(o, p)' /\ Arrived(p)' /\ p \notin before'[o] /\ request'[p] = request[p]
    BY <1>1, <1>2, StepFrame, HistoryKept DEF SameRun
  <1>4. Overlap(o, p) => Overlap(o, p)'
    BY HistoryKept
  <1> QED
    BY <1>1, <1>3, <1>4 DEF Excused

LEMMA LinkStep ==
    ASSUME RunsIInv, NEW q \in Posts, Step(q)
    PROVE  LinkInv'
  <1>1. RunsTypeOK /\ HandlerInv /\ HistoryInv /\ LinkInv /\ request' = request
    BY StepFrame DEF RunsIInv
  <1> SUFFICES ASSUME NEW o \in Posts, request[o].kind = "link", answer'[o] = "200",
                      ~Excused(o)'
               PROVE  /\ Exists(o)' /\ OldRow(o)'.trace = request[o].trace
                      /\ \A p \in Posts : SameRun(o, p) /\ pc'[p] \in {"fetch", "store"} =>
                            target'[p] = request[o].trace
    BY <1>1 DEF LinkInv, SameRun
  <1>2. CASE o = q
    <2>1. Link(q)
      <3>1. pc[q] \in {"idle", "link"} /\ answer[q] = "none"
        BY <1>1, <1>2, StepFrame DEF HandlerInv
      <3>2. ~Receive(q)
        BY <1>1, <1>2, <3>1, ReceiveGoesTo
      <3>3. ~Crash(q)
        BY <1>1, <1>2 DEF Crash, Reply, RunsTypeOK
      <3> QED
        BY <3>1, <3>2, <3>3 DEF Step, ReadTrace, Fetch, Store, Complete, Graphiti
    <2>2. Exists(q) /\ row' = [row EXCEPT ![request[q].run] = Linked(q)]
      BY <1>1, <1>2, <2>1 DEF Link, Linked, Update, Takes, Reply, RunsTypeOK
    <2>3. Exists(q)' /\ OldRow(q)' = Linked(q)
      <3>1. request[q].run \in Runs /\ row \in [Runs -> RowType \cup {Null}]
        BY <1>1, BodyFields DEF RunsTypeOK
      <3>2. Linked(q) # Null
        BY <1>1, <2>2, BodyFields, RowColumns
      <3> QED
        BY <1>1, <2>2, <3>1, <3>2 DEF OldRow, Exists
    <2>4. OldRow(q)'.trace = request[q].trace
      BY <1>1, <2>2, <2>3, LinkedColumns
    <2>5. ASSUME NEW p \in Posts, SameRun(q, p), pc'[p] \in {"fetch", "store"}
          PROVE  FALSE
      <3>1. pc[q] = "link" /\ pc'[q] = "done"
        BY <1>1, <2>1 DEF Link, Reply, RunsTypeOK
      <3>2. p # q /\ pc[p] \in {"fetch", "store"}
        BY <1>1, <2>5, <3>1, StepFrame
      <3>3. Arrived(p) /\ Arrived(q) /\ p \notin before[q] /\ q \notin before[p]
        BY <1>1, <3>1, <3>2 DEF HistoryInv, Arrived
      <3>4. Overlap(q, p)' /\ Arrived(p)' /\ p \notin before'[q]
        BY <3>3, HistoryKept DEF Overlap
      <3>5. SameRun(q, p)'
        BY <1>1, <2>5 DEF SameRun
      <3> QED
        BY <1>2, <3>2, <3>4, <3>5 DEF Excused
    <2> QED
      BY <1>2, <2>3, <2>4, <2>5
  <1>3. CASE o # q
    <2>1. answer[o] = "200" /\ pc[o] = "done" /\ Arrived(o)
      BY <1>1, <1>3, StepFrame DEF HandlerInv, Arrived
    <2>2. ~Excused(o)
      BY <2>1, ExcusedStays
    <2>3. /\ Exists(o) /\ OldRow(o).trace = request[o].trace
          /\ \A p \in Posts : SameRun(o, p) /\ pc[p] \in {"fetch", "store"} =>
                target[p] = request[o].trace
      BY <1>1, <2>1, <2>2 DEF LinkInv
    <2>4. SameRun(o, q) => request[q].trace = Null /\ request[q].kind # "link"
      <3>1. SUFFICES ASSUME SameRun(o, q)
                     PROVE  request[q].trace = Null
        BY <1>1, BodyFields
      <3>2. q \notin before'[o] /\ Arrived(q)' /\ SameRun(o, q)'
        BY <1>1, <2>1, <3>1, HistoryKept, StepFrame DEF SameRun, Arrived
      <3> QED
        BY <1>1, <1>3, <3>2 DEF Excused
    <2>5. Exists(o)' /\ OldRow(o)' = row'[request[o].run]
      BY <1>1, <2>3, RowOf DEF Exists, OldRow
    <2>6. OldRow(o)'.trace = request[o].trace
      <3>1. CASE OldRow(o)' = OldRow(o)
        BY <2>3, <3>1
      <3>2. CASE OldRow(o)' # OldRow(o)
        <4>1. /\ SameRun(o, q) /\ Exists(q) /\ OldRow(q) = OldRow(o)
              /\ \/ pc[q] = "link"
                 \/ pc[q] = "store" /\ OldRow(o)' = Synced(q)
                 \/ pc[q] = "complete" /\ OldRow(o)' = Completed(q)
          BY <1>1, <2>3, <2>5, <3>2, RowOf
        <4>2. pc[q] # "link"
          BY <1>1, <2>4, <4>1 DEF HandlerInv
        <4>3. CASE pc[q] = "store" /\ OldRow(o)' = Synced(q)
          BY <1>1, <2>3, <4>1, <4>3, SyncedColumns
        <4>4. CASE pc[q] = "complete" /\ OldRow(o)' = Completed(q)
          BY <1>1, <2>3, <2>4, <4>1, <4>4, CompletedColumns DEF Coalesce
        <4> QED
          BY <4>1, <4>2, <4>3, <4>4
      <3> QED
        BY <3>1, <3>2
    <2>7. ASSUME NEW p \in Posts, SameRun(o, p), pc'[p] \in {"fetch", "store"}
          PROVE  target'[p] = request[o].trace
      <3>1. CASE p # q
        BY <1>1, <2>3, <2>7, <3>1, StepFrame
      <3>2. CASE p = q
        <4>1. request[q].trace = Null /\ OldRow(q) = OldRow(o)
          BY <2>4, <2>7, <3>2 DEF SameRun, OldRow
        <4>2. CASE Receive(q)
          BY <1>1, <2>7, <3>2, <4>1, <4>2, ReceiveGoesTo DEF FirstPoint, RunsTypeOK
        <4>3. CASE ReadTrace(q)
          BY <1>1, <2>3, <2>7, <3>2, <4>1, <4>3 DEF ReadTrace, Reply, RunsTypeOK
        <4>4. CASE Fetch(q)
          BY <1>1, <2>3, <2>7, <3>2, <4>4 DEF Fetch
        <4>5. CASE Complete(q)
          <5>1. pc'[q] # "done"
            BY <2>7, <3>2
          <5>2. target' = [target EXCEPT ![q] = Completed(q).trace] /\ Exists(q)
            BY <1>1, <4>5, <5>1 DEF Complete, Completed, Reply, RunsTypeOK
          <5>3. Completed(q).trace = OldRow(q).trace
            BY <1>1, <4>1, <5>2, CompletedColumns DEF Coalesce
          <5> QED
            BY <1>1, <2>3, <3>2, <4>1, <5>2, <5>3 DEF RunsTypeOK
        <4>6. CASE Link(q) \/ Store(q) \/ Graphiti(q) \/ Crash(q)
          BY <1>1, <2>7, <3>2, <4>6 DEF Link, Store, Graphiti, Crash, Reply, Goto, AfterSync,
                                        RunsTypeOK
        <4> QED
          BY <4>2, <4>3, <4>4, <4>5, <4>6 DEF Step
      <3> QED
        BY <3>1, <3>2
    <2> QED
      BY <2>5, <2>6, <2>7
  <1> QED
    BY <1>2, <1>3

LEMMA SyncStep ==
    ASSUME RunsIInv, NEW q \in Posts, Step(q)
    PROVE  SyncInv'
  <1>1. RunsTypeOK /\ HandlerInv /\ HistoryInv /\ SyncInv /\ request' = request
    BY StepFrame DEF RunsIInv
  <1> SUFFICES ASSUME NEW o \in Posts, "trace_synced" \in flags'[o]
               PROVE  /\ Exists(o)' /\ OldRow(o)'.trace # Null
                      /\ reading'[o] # Null =>
                            /\ OldRow(o)'.cost # Null
                            /\ IsAsFresh(o)' \/ IsFromBeside(o)'
    BY DEF SyncInv
  <1>2. CASE "trace_synced" \notin flags[o]
    <2>1. o = q
      BY <1>1, <1>2, StepFrame
    <2>2. Store(q)
      <3>1. ~Graphiti(q)
        BY <1>1, <1>2, <2>1 DEF Graphiti, RunsTypeOK
      <3> QED
        BY <1>2, <2>1, <3>1 DEF Step, Receive, Link, ReadTrace, Fetch, Complete, Crash, handler
    <2>3. Exists(q) /\ row' = [row EXCEPT ![request[q].run] = Synced(q)]
      <3>1. PICK outcome \in Outcomes :
              Update(q, Synced(q), outcome) /\ outcome = "ok" /\ Exists(q)
        BY <1>2, <2>1, <2>2 DEF Store, Synced
      <3> QED
        BY <3>1 DEF Update, Takes
    <2>4. Exists(q)' /\ OldRow(q)' = Synced(q)
      <3>1. request[q].run \in Runs /\ row \in [Runs -> RowType \cup {Null}]
        BY <1>1, BodyFields DEF RunsTypeOK
      <3>2. Synced(q) # Null
        BY <1>1, <2>3, BodyFields, RowColumns
      <3> QED
        BY <1>1, <2>3, <3>1, <3>2 DEF OldRow, Exists
    <2>5. pc[q] = "store" /\ reading' = reading /\ known'[q] = known[q]
      BY <1>1, <2>2, StepFrame DEF Store
    <2>6. OldRow(q)'.trace = target[q] /\ target[q] # Null
          /\ (reading[q] # Null => OldRow(q)'.cost = reading[q])
      BY <1>1, <2>3, <2>4, <2>5, SyncedColumns DEF HandlerInv, Coalesce
    <2>7. reading[q] # Null => reading[q] \in Nat
      BY <1>1 DEF RunsTypeOK
    <2> QED
      BY <1>1, <2>1, <2>4, <2>5, <2>6, <2>7, ConstantsAssumption DEF IsAsFresh
  <1>3. CASE "trace_synced" \in flags[o]
    <2>1. pc[o] \in {"graphiti", "done"} /\ Arrived(o)
      BY <1>1, <1>3 DEF HandlerInv, Arrived
    <2>2. reading'[o] = reading[o] /\ known'[o] = known[o]
      <3>1. CASE o # q
        BY <1>1, <3>1, StepFrame
      <3>2. CASE o = q
        <4>1. known'[o] = known[o]
          BY <1>1, <2>1, HistoryKept
        <4>2. Graphiti(q) \/ Crash(q)
          BY <2>1, <3>2 DEF Step, Receive, Link, ReadTrace, Fetch, Store, Complete
        <4>3. reading' = reading
          BY <4>2 DEF Graphiti, Crash, handler
        <4> QED
          BY <4>1, <4>3
      <3> QED
        BY <3>1, <3>2
    <2>3. /\ Exists(o) /\ OldRow(o).trace # Null
          /\ reading[o] # Null =>
                /\ OldRow(o).cost # Null
                /\ IsAsFresh(o) \/ IsFromBeside(o)
      BY <1>1, <1>3 DEF SyncInv
    <2>4. \A p \in Posts : SameRun(o, p)' = SameRun(o, p) /\ (Overlap(o, p) => Overlap(o, p)')
      BY <1>1, <2>1, HistoryKept DEF SameRun
    <2>5. Exists(o)' /\ OldRow(o)' = row'[request[o].run]
      BY <1>1, <2>3, RowOf DEF Exists, OldRow
    <2>8. ASSUME OldRow(o)'.cost = OldRow(o).cost, IsFromBeside(o)
          PROVE  IsFromBeside(o)'
      <3>1. PICK p \in Posts \ {o} :
              /\ SameRun(o, p) /\ Overlap(o, p)
              /\ reading[p] # Null /\ reading[p] >= known[p]
              /\ OldRow(o).cost = reading[p]
        BY <2>8 DEF IsFromBeside
      <3>2. reading'[p] = reading[p] /\ known'[p] = known[p]
        BY <3>1, ReadingStays
      <3>3. SameRun(o, p)' /\ Overlap(o, p)'
        BY <2>4, <3>1
      <3> QED
        BY <2>8, <3>1, <3>2, <3>3 DEF IsFromBeside
    <2>9. ASSUME OldRow(o)'.trace # Null, OldRow(o)'.cost = OldRow(o).cost
          PROVE  /\ Exists(o)' /\ OldRow(o)'.trace # Null
                 /\ reading'[o] # Null =>
                       /\ OldRow(o)'.cost # Null
                       /\ IsAsFresh(o)' \/ IsFromBeside(o)'
      <3>1. Exists(o)' /\ OldRow(o)'.trace # Null
        BY <2>5, <2>9
      <3>2. ASSUME reading'[o] # Null
            PROVE  /\ OldRow(o)'.cost # Null
                   /\ IsAsFresh(o)' \/ IsFromBeside(o)'
        <4>1. OldRow(o).cost # Null /\ reading'[o] = reading[o]
          BY <2>2, <2>3, <3>2
        <4>2. CASE IsAsFresh(o)
          BY <2>9, <4>1, <4>2 DEF IsAsFresh
        <4>3. CASE IsFromBeside(o)
          BY <2>8, <2>9, <4>1, <4>3
        <4> QED
          BY <2>2, <2>3, <3>2, <4>2, <4>3
      <3> QED
        BY <3>1, <3>2
    <2>6. CASE OldRow(o)' = OldRow(o)
      BY <2>3, <2>6, <2>9
    <2>7. CASE OldRow(o)' # OldRow(o)
      <3>1. /\ SameRun(o, q) /\ Exists(q) /\ OldRow(q) = OldRow(o)
            /\ \/ pc[q] = "link" /\ OldRow(o)' = Linked(q)
               \/ pc[q] = "store" /\ OldRow(o)' = Synced(q)
               \/ pc[q] = "complete" /\ OldRow(o)' = Completed(q)
        BY <1>1, <2>3, <2>5, <2>7, RowOf
      <3>2. CASE pc[q] = "link" /\ OldRow(o)' = Linked(q)
        <4>1. OldRow(o)'.trace # Null /\ OldRow(o)'.cost = OldRow(o).cost
          BY <1>1, <3>1, <3>2, LinkedColumns, BodyFields DEF HandlerInv
        <4> QED
          BY <2>9, <4>1
      <3>3. CASE pc[q] = "complete" /\ OldRow(o)' = Completed(q)
        <4>1. OldRow(o)'.trace # Null /\ OldRow(o)'.cost = OldRow(o).cost
          <5>1. /\ Completed(q).trace = Coalesce(request[q].trace, OldRow(q).trace)
                /\ Completed(q).cost = OldRow(q).cost
            BY <1>1, <3>1, CompletedColumns
          <5>2. Coalesce(request[q].trace, OldRow(q).trace) # Null
            BY <2>3, <3>1 DEF Coalesce
          <5> QED
            BY <3>1, <3>3, <5>1, <5>2
        <4> QED
          BY <2>9, <4>1
      <3>4. CASE pc[q] = "store" /\ OldRow(o)' = Synced(q)
        <4>1. OldRow(o)'.trace # Null
          BY <1>1, <3>1, <3>4, SyncedColumns DEF HandlerInv
        <4>2. OldRow(o)'.cost = IF reading[q] # Null THEN reading[q] ELSE OldRow(o).cost
          BY <1>1, <3>1, <3>4, SyncedColumns DEF Coalesce
        <4>3. CASE reading[q] = Null
          BY <2>9, <4>1, <4>2, <4>3
        <4>4. CASE reading[q] # Null /\ o \in before[q]
          <5>1. reading[o] # Null => reading[o] <= known[q] /\ known[q] <= reading[q]
            BY <1>1, <4>4 DEF HistoryInv
          <5>2. /\ known[q] \in Nat /\ reading[q] \in Nat /\ Null \notin Nat
                /\ reading[o] # Null => reading[o] \in Nat
            BY <1>1, <4>4, ConstantsAssumption DEF RunsTypeOK
          <5>3. reading[o] # Null => IsAsFresh(o)'
            BY <2>2, <4>2, <4>4, <5>1, <5>2 DEF IsAsFresh
          <5> QED
            BY <2>2, <2>5, <4>1, <4>2, <4>4, <5>2, <5>3
        <4>5. CASE reading[q] # Null /\ o \notin before[q]
          <5>1. Overlap(o, q) /\ q # o
            BY <1>1, <2>1, <3>4, <4>5, HistoryKept DEF Overlap, Arrived
          <5>2. reading'[q] = reading[q] /\ known'[q] = known[q] /\ reading[q] >= known[q]
            <6>1. known[q] \in Nat /\ reading[q] \in Nat /\ known[q] <= reading[q]
              BY <1>1, <4>5 DEF RunsTypeOK, HistoryInv
            <6> QED
              BY <4>5, <6>1, ReadingStays
          <5>3. SameRun(o, q)' /\ Overlap(o, q)'
            BY <2>4, <3>1, <5>1
          <5>4. IsFromBeside(o)'
            BY <4>2, <4>5, <5>1, <5>2, <5>3 DEF IsFromBeside
          <5> QED
            BY <2>5, <4>1, <4>2, <4>5, <5>4
        <4> QED
          BY <4>3, <4>4, <4>5
      <3> QED
        BY <3>1, <3>2, <3>3, <3>4
    <2> QED
      BY <2>6, <2>7
  <1> QED
    BY <1>2, <1>3

\* What the Manager and Langfuse do, and what they leave alone.
Elsewhere ==
    \/ \E r \in Runs : Start(r) \/ \E started \in BOOLEAN : Insert(r, started)
    \/ Ingest
    \/ UNCHANGED vars

LEMMA ElsewhereFrame ==
    ASSUME RunsTypeOK, Elsewhere
    PROVE  /\ UNCHANGED <<request, pc, answer, target, reading, flags, episodes, before, known>>
           /\ cost \in Nat /\ cost' \in Nat /\ cost' >= cost
  <1>0. cost \in Nat
    BY DEF RunsTypeOK
  <1>1. ASSUME NEW r \in Runs, Start(r) \/ \E started \in BOOLEAN : Insert(r, started)
        PROVE  UNCHANGED <<request, pc, answer, target, reading, flags, episodes, before, known, cost>>
    BY <1>1 DEF Start, Insert, handler, world, history
  <1>2. CASE Ingest
    BY <1>0, <1>2 DEF Ingest, handler, history
  <1>3. CASE UNCHANGED vars
    BY <1>0, <1>3 DEF vars, handler, world, history
  <1> QED
    BY <1>0, <1>1, <1>2, <1>3 DEF Elsewhere

LEMMA ElsewhereRows ==
    ASSUME RunsTypeOK, Elsewhere, NEW r \in Runs
    PROVE  /\ row[r] # Null =>
                /\ row'[r] # Null
                /\ row'[r].trace = row[r].trace /\ row'[r].cost = row[r].cost
                /\ row'[r].summary = row[r].summary /\ row'[r].error = row[r].error
                /\ row'[r].ended = row[r].ended
                /\ row[r].ended => row'[r].status = row[r].status
           /\ row[r] = Null /\ row'[r] # Null =>
                row'[r].summary = Null /\ row'[r].error = Null
  <1>0. Null \notin RowType
    BY ConstantsAssumption
  <1>1. CASE row' = row
    BY <1>1
  <1>2. ASSUME NEW s \in Runs, Start(s)
        PROVE  /\ row[r] # Null =>
                    /\ row'[r] # Null
                    /\ row'[r].trace = row[r].trace /\ row'[r].cost = row[r].cost
                    /\ row'[r].summary = row[r].summary /\ row'[r].error = row[r].error
                    /\ row'[r].ended = row[r].ended
                    /\ row[r].ended => row'[r].status = row[r].status
               /\ row[r] = Null => row'[r] = Null
    <2>1. row[s] \in RowType /\ ~row[s].ended
      BY <1>2 DEF Start, RunsTypeOK
    <2>2. row' = [row EXCEPT ![s] = [row[s] EXCEPT !.status = "running", !.started = TRUE]]
      BY <1>2, <2>1 DEF Start, RunsTypeOK, RowType
    <2>3. [row[s] EXCEPT !.status = "running", !.started = TRUE] \in RowType
      BY <2>1 DEF RowType, RunStatuses
    <2>4. CASE r = s
      <3>1. row'[r] = [row[s] EXCEPT !.status = "running", !.started = TRUE]
        BY <2>2, <2>4 DEF RunsTypeOK
      <3>2. row'[r] # Null /\ row[r] # Null
        BY <1>0, <2>1, <2>3, <2>4, <3>1
      <3> QED
        BY <2>1, <2>4, <3>1, <3>2 DEF RowType
    <2>5. CASE r # s
      BY <2>2, <2>5 DEF RunsTypeOK
    <2> QED
      BY <2>4, <2>5
  <1>3. ASSUME NEW s \in Runs, NEW started \in BOOLEAN, Insert(s, started)
        PROVE  /\ row[r] # Null => row'[r] = row[r]
               /\ row[r] = Null /\ row'[r] # Null =>
                    row'[r].summary = Null /\ row'[r].error = Null
    BY <1>3 DEF Insert, NewRow, RunsTypeOK
  <1>4. row' = row \/ \E s \in Runs : Start(s) \/ \E started \in BOOLEAN : Insert(s, started)
    BY DEF Elsewhere, Ingest, vars
  <1>5. CASE \E s \in Runs, started \in BOOLEAN : Insert(s, started)
    <2>1. /\ row[r] # Null => row'[r] = row[r]
          /\ row[r] = Null /\ row'[r] # Null => row'[r].summary = Null /\ row'[r].error = Null
      BY <1>3, <1>5
    <2> QED
      BY <2>1
  <1>6. CASE \E s \in Runs : Start(s)
    BY <1>2, <1>6
  <1> QED
    BY <1>1, <1>4, <1>5, <1>6

LEMMA ElsewhereKeeps ==
    ASSUME RunsIInv, Elsewhere
    PROVE  HandlerInv' /\ HistoryInv' /\ TextInv' /\ EndedInv' /\ LinkInv' /\ SyncInv'
  <1>1. /\ RunsTypeOK /\ HandlerInv /\ HistoryInv /\ TextInv /\ EndedInv /\ LinkInv /\ SyncInv
        /\ \A q \in Posts : request[q].run \in Runs
    BY BodyFields DEF RunsIInv
  <1>2. UNCHANGED <<request, pc, answer, target, reading, flags, episodes, before, known>>
    BY <1>1, ElsewhereFrame
  <1>3. \A q \in Posts : Exists(q) =>
          /\ Exists(q)' /\ OldRow(q)'.trace = OldRow(q).trace
          /\ OldRow(q)'.cost = OldRow(q).cost /\ OldRow(q)'.ended = OldRow(q).ended
          /\ OldRow(q).ended => OldRow(q)'.status = OldRow(q).status
    BY <1>1, <1>2, ElsewhereRows DEF Exists, OldRow
  <1>4. \A q, o \in Posts : SameRun(q, o)' = SameRun(q, o) /\ Overlap(q, o)' = Overlap(q, o)
                            /\ Arrived(o)' = Arrived(o)
    BY <1>2 DEF SameRun, Overlap, Arrived
  <1>5. HandlerInv'
    BY <1>1, <1>2 DEF HandlerInv
  <1>6. HistoryInv'
    <2>1. cost' \in Nat /\ cost \in Nat /\ cost' >= cost
      BY <1>1, ElsewhereFrame
    <2>2. \A q \in Posts :
            /\ known'[q] <= cost'
            /\ reading'[q] # Null => known'[q] <= reading'[q] /\ reading'[q] <= cost'
      <3>1. \A q \in Posts : known[q] \in Nat /\ (reading[q] # Null => reading[q] \in Nat)
        BY <1>1 DEF RunsTypeOK
      <3> QED
        BY <1>1, <1>2, <2>1, <3>1 DEF HistoryInv
    <2> QED
      BY <1>1, <1>2, <2>2 DEF HistoryInv
  <1>7. TextInv'
    <2>1. SUFFICES ASSUME NEW r \in Runs, NEW q \in Posts, row'[r] # Null,
                          row'[r].summary = q \/ row'[r].error = q
                   PROVE  row[r] # Null /\ (row[r].summary = q \/ row[r].error = q)
      BY <1>1, <1>2 DEF TextInv
    <2> QED
      BY <1>1, <2>1, ElsewhereRows, ConstantsAssumption
  <1>8. EndedInv'
    BY <1>1, <1>2, <1>3, <1>4 DEF EndedInv
  <1>9. LinkInv'
    <2>1. \A q \in Posts : Excused(q)' = Excused(q)
      BY <1>2, <1>4 DEF Excused
    <2> QED
      BY <1>1, <1>2, <1>3, <1>4, <2>1 DEF LinkInv
  <1>10. SyncInv'
    <2>1. \A q \in Posts : Exists(q) =>
            IsAsFresh(q)' = IsAsFresh(q) /\ IsFromBeside(q)' = IsFromBeside(q)
      BY <1>2, <1>3, <1>4 DEF IsAsFresh, IsFromBeside
    <2> QED
      BY <1>1, <1>2, <1>3, <2>1 DEF SyncInv
  <1> QED
    BY <1>5, <1>6, <1>7, <1>8, <1>9, <1>10

\* The invariant holds of the first state, and every step keeps it.
LEMMA RunsIInvInit == Init => RunsIInv
  <1> SUFFICES ASSUME Init PROVE RunsIInv
    OBVIOUS
  <1>1. RunsTypeOK
    BY TypeInit
  <1>2. HandlerInv /\ HistoryInv
    BY DEF Init, HandlerInv, HistoryInv
  <1>3. TextInv
    BY DEF Init, TextInv
  <1>4. EndedInv /\ LinkInv
    BY DEF Init, EndedInv, LinkInv
  <1>5. SyncInv
    BY DEF Init, SyncInv
  <1> QED
    BY <1>1, <1>2, <1>3, <1>4, <1>5 DEF RunsIInv

LEMMA RunsIInvStep == RunsIInv /\ [Next]_vars => RunsIInv'
  <1> SUFFICES ASSUME RunsIInv, [Next]_vars PROVE RunsIInv'
    OBVIOUS
  <1>1. RunsTypeOK'
    BY TypeStep DEF RunsIInv
  <1>2. ASSUME NEW q \in Posts, Step(q)
        PROVE  RunsIInv'
    BY <1>1, <1>2, HandlerStep, HistoryStep, TextStep, EndedStep, LinkStep, SyncStep
       DEF RunsIInv
  <1>3. CASE Elsewhere
    BY <1>1, <1>3, ElsewhereKeeps DEF RunsIInv
  <1> QED
    BY <1>2, <1>3 DEF Next, Quiescent, Elsewhere

\* What each await of the three endpoints knows of its row, its trace and its numbers,
\* and what the requests that are over left in the row.
THEOREM Inductive == Spec => []RunsIInv
  BY RunsIInvInit, RunsIInvStep, PTL DEF Spec

-----------------------------------------------------------------------------
(* What follows for every behavior.                                         *)

\* Every variable keeps its type: in particular a handler that is told to fetch
\* numbers is told so of a trace, and a row is never half written.
THEOREM RunsTypeCorrect == Spec => []RunsTypeOK
  <1>1. RunsIInv => RunsTypeOK
    BY DEF RunsIInv
  <1> QED
    BY <1>1, Inductive, PTL

\* A completion that /event/complete stored stays stored, however Langfuse and
\* Graphiti fail and whatever other requests do; a rejected one leaves no text.
THEOREM CompletionsAreKept == Spec => []CompletionIsKept
  <1>1. RunsIInv => CompletionIsKept
    <2> SUFFICES ASSUME RunsIInv, NEW q \in Posts, request[q].kind = "complete"
                 PROVE  /\ pc[q] \in {"fetch", "store", "graphiti"} \/ answer[q] = "200" =>
                            /\ Exists(q) /\ OldRow(q).ended
                            /\ \E o \in Posts :
                                /\ SameRun(q, o) /\ Arrived(o) /\ request[o].kind = "complete"
                                /\ o = q \/ o \notin before[q]
                                /\ OldRow(q).status = request[o].status
                        /\ answer[q] = "500" /\ Exists(q) =>
                            OldRow(q).summary # q /\ OldRow(q).error # q
      BY DEF CompletionIsKept
    <2>1. EndedInv /\ TextInv /\ request[q].run \in Runs
      BY BodyFields DEF RunsIInv
    <2> QED
      BY <2>1 DEF EndedInv, TextInv, Exists, OldRow
  <1> QED
    BY <1>1, Inductive, PTL

\* A trace that /trace/link stored stays in the row: a later sync or completion
\* that names none reads it back and stores the same.
THEOREM LinkedTracesSurvive == Spec => []LinksSurvive
  <1>1. RunsIInv => LinksSurvive
    BY DEF RunsIInv, LinkInv, LinksSurvive, Excused
  <1> QED
    BY <1>1, Inductive, PTL

\* The numbers that a synchronization reported, or newer ones, stay in the row; where
\* a request beside it left others, this request had read them after it arrived.
THEOREM SyncsStayFresh == Spec => []SyncsAreFresh
  <1>1. RunsIInv => SyncsAreFresh
    <2> SUFFICES ASSUME RunsIInv, NEW q \in Posts,
                        "trace_synced" \in flags[q], reading[q] # Null
                 PROVE  /\ reading[q] >= known[q]
                        /\ Exists(q) /\ OldRow(q).cost # Null
                        /\ IsAsFresh(q) \/ IsFromBeside(q)
      BY DEF SyncsAreFresh
    <2>1. known[q] \in Nat /\ reading[q] \in Nat /\ known[q] <= reading[q]
      BY DEF RunsIInv, RunsTypeOK, HistoryInv
    <2> QED
      BY <2>1 DEF RunsIInv, SyncInv
  <1> QED
    BY <1>1, Inductive, PTL

\* The flags trace_synced and graphiti_completed of an answer are true of the row
\* and of Graphiti.
THEOREM FlagsStayTruthful == Spec => []FlagsAreTruthful
  <1>1. RunsIInv => FlagsAreTruthful
    BY DEF RunsIInv, SyncInv, HandlerInv, FlagsAreTruthful
  <1> QED
    BY <1>1, Inductive, PTL

\* What a step does to a row that is there already.
RowsKept ==
    \A r \in {o \in Runs : row[o] # Null} :
        /\ row'[r] # Null
        /\ row[r].ended => row'[r].ended
        /\ \A col \in {"trace", "cost", "summary", "error"} :
            row[r][col] # Null => row'[r][col] # Null

LEMMA StepKeepsRows ==
    ASSUME RunsIInv, NEW q \in Posts, Step(q)
    PROVE  RowsKept
  <1>1. RunsTypeOK /\ HandlerInv
    BY DEF RunsIInv
  <1> SUFFICES ASSUME NEW r \in Runs, row[r] # Null
               PROVE  /\ row'[r] # Null
                      /\ row[r].ended => row'[r].ended
                      /\ row[r].trace # Null => row'[r].trace # Null
                      /\ row[r].cost # Null => row'[r].cost # Null
                      /\ row[r].summary # Null => row'[r].summary # Null
                      /\ row[r].error # Null => row'[r].error # Null
    BY DEF RowsKept
  <1>2. row'[r] # Null /\ q # Null
    BY <1>1, RowChanges, ConstantsAssumption
  <1>3. CASE row'[r] = row[r]
    BY <1>2, <1>3
  <1>4. CASE row'[r] # row[r]
    <2>1. r = request[q].run /\ Exists(q) /\ row[r] = OldRow(q)
      BY <1>1, <1>4, RowChanges DEF RunsTypeOK, OldRow
    <2>2. \/ pc[q] = "link" /\ row'[r] = Linked(q)
          \/ pc[q] = "store" /\ row'[r] = Synced(q)
          \/ pc[q] = "complete" /\ row'[r] = Completed(q)
      BY <1>1, <1>4, <2>1, RowChanges, BodyFields DEF RunsTypeOK
    <2>3. CASE pc[q] = "link" /\ row'[r] = Linked(q)
      BY <1>1, <1>2, <2>1, <2>3, LinkedColumns, BodyFields DEF HandlerInv
    <2>4. CASE pc[q] = "store" /\ row'[r] = Synced(q)
      BY <1>1, <1>2, <2>1, <2>4, SyncedColumns DEF HandlerInv, Coalesce
    <2>5. CASE pc[q] = "complete" /\ row'[r] = Completed(q)
      <3>1. /\ row'[r].ended = TRUE
            /\ row'[r].trace = Coalesce(request[q].trace, row[r].trace)
            /\ row'[r].cost = row[r].cost
            /\ row'[r].summary \in {q, row[r].summary}
            /\ row'[r].error \in {q, row[r].error}
        BY <1>1, <2>1, <2>5, CompletedColumns
      <3> QED
        BY <1>2, <3>1 DEF Coalesce
    <2> QED
      BY <2>2, <2>3, <2>4, <2>5
  <1> QED
    BY <1>3, <1>4

\* No request, no start of a run and no failure clears a column of a task run or
\* takes its end back: the COALESCE of each statement does what it is there for.
THEOREM RecordsStay == Spec => RecordsAreKept
  <1>1. RunsIInv /\ [Next]_vars => RowsKept
    <2> SUFFICES ASSUME RunsIInv, [Next]_vars PROVE RowsKept
      OBVIOUS
    <2>1. CASE Elsewhere
      BY <2>1, ElsewhereRows DEF RunsIInv, RowsKept
    <2> QED
      BY <2>1, StepKeepsRows DEF Next, Quiescent, Elsewhere
  <1> QED
    BY <1>1, Inductive, PTL DEF Spec, RecordsAreKept, RowsKept

-----------------------------------------------------------------------------
(* Why every request ends.                                                  *)

\* How far a handler is at each of its awaits.
Rank(point) ==
    CASE point = "idle" -> 0
      [] point \in {"link", "read_trace", "complete"} -> 1
      [] point = "fetch" -> 2
      [] point = "store" -> 3
      [] point = "graphiti" -> 4
      [] point = "done" -> 5

\* A step of the handler of q takes it on, and no step takes it back.
MovesOn(q) ==
    /\ Step(q) => Rank(pc'[q]) > Rank(pc[q])
    /\ pc'[q] = pc[q] \/ Rank(pc'[q]) > Rank(pc[q])

LEMMA RankRises ==
    ASSUME RunsIInv, NEW q \in Posts, Step(q)
    PROVE  Rank(pc'[q]) > Rank(pc[q])
  <1>1. RunsTypeOK
    BY DEF RunsIInv
  <1> USE <1>1 DEF RunsTypeOK, Rank, Goto, Reply, AfterSync
  <1>2. CASE Receive(q)
    BY <1>2 DEF Receive
  <1>3. CASE Link(q) \/ ReadTrace(q)
    BY <1>3 DEF Link, ReadTrace
  <1>4. CASE Fetch(q) \/ Store(q)
    BY <1>4 DEF Fetch, Store
  <1>5. CASE Complete(q)
    BY <1>5 DEF Complete
  <1>6. CASE Graphiti(q)
    BY <1>6 DEF Graphiti
  <1>7. CASE Crash(q)
    BY <1>7 DEF Crash, InFlightPoints
  <1> QED
    BY <1>2, <1>3, <1>4, <1>5, <1>6, <1>7 DEF Step

\* Every step of a handler brings its request nearer the answer, and no other step takes
\* it back: a request takes at most five steps, whatever Langfuse, Graphiti and the
\* database do.
THEOREM RequestsMoveOn ==
    Spec => [][\A q \in Posts : MovesOn(q)]_vars
  <1>1. RunsIInv /\ [Next]_vars => [\A q \in Posts : MovesOn(q)]_vars
    <2> SUFFICES ASSUME RunsIInv, Next, NEW q \in Posts
                 PROVE  pc'[q] = pc[q] \/ Rank(pc'[q]) > Rank(pc[q])
      BY RankRises DEF MovesOn
    <2>1. ASSUME NEW o \in Posts, Step(o)
          PROVE  pc'[q] = pc[q] \/ Rank(pc'[q]) > Rank(pc[q])
      BY <2>1, RankRises, StepFrame DEF RunsIInv
    <2>2. CASE ~ \E o \in Posts : Step(o)
      BY <2>2 DEF Next, Start, Insert, Ingest, Quiescent, vars
    <2> QED
      BY <2>1, <2>2
  <1> QED
    BY <1>1, Inductive, PTL DEF Spec

=============================================================================
