-------------------------------- MODULE Intake --------------------------------
(***************************************************************************)
(* The intake-bridge: two webhooks, POST /work-items and GET /health, the  *)
(* rows of clawcluster.work_items, the specs in MinIO and what the HiClaw  *)
(* Manager is told.                                                        *)
(*                                                                         *)
(* An action is the code between two awaits.  The writes to MinIO and to   *)
(* the Manager are two tasks that run side by side.  An event that is      *)
(* delivered again is another request with an equal body.                  *)
(***************************************************************************)
EXTENDS Normalization

CONSTANTS
    Requests,    \* the requests that may arrive
    Ids,         \* work item ids callers of POST /work-items may choose
    Bodies,      \* what a request may carry
    Sends,       \* what the requests may carry together
    Faults,      \* what the environment may do to the bridge
    MaxInFlight  \* bound on the requests handled at the same time

\* A work item without an id of the caller gets a fresh one: the request stands for it.
AllIds == Ids \cup Requests

\* check: whether the signature and the body are accepted; mr: a merge request;
\* id and item: what a caller of POST /work-items asks for.
BodyType ==
    [route : {"outline", "gitlab", "manual", "health"},
     check : {"ok", "unsigned", "invalid"}, mr : BOOLEAN,
     words : SUBSET Words, lines : Seq(LineType \cup {Blank}),
     id : Ids \cup {Null}, item : ItemType \cup {Null}]

ASSUME BodiesAssumption ==
    /\ Bodies \subseteq BodyType
    /\ Sends \subseteq [Requests -> Bodies]
    /\ \A b \in Bodies : b.route = "manual" => b.item # Null
ASSUME FaultsAssumption == Faults \subseteq {"refused", "unknown", "crash"}
ASSUME ConstantsAssumption ==
    /\ MaxInFlight \in Nat \ {0}
    /\ IsFiniteSet(Requests)
    /\ Ids \cap Requests = {} /\ Null \notin AllIds

VARIABLES
    body,     \* body[r]: what request r carries
    pc,       \* pc[r]: the await at which the handler of r is suspended
    fan,      \* fan[r]: how its two tasks stand
    answer,   \* answer[r]: the status code it was answered with
    pooled,   \* whether the process has a connection pool
    opened,   \* the pools it has opened
    rows,     \* clawcluster.work_items: the item stored for an id, and its request
    specs,    \* the item whose spec.md is staged for an id
    told      \* told[i]: how often the Manager was told of i

pools == <<pooled, opened>>
world == <<specs, told>>
vars == <<body, pc, fan, answer, pools, rows, world>>

InFlightPoints == {"connect", "insert", "fanout", "ping"}

Legs == {"storage", "manager"}

\* "unsure" is a 503 after an answer of the database was lost.
Answers == {"none", "200", "201", "202", "400", "422", "503", "unsure", "lost"}

RowType == [item : ItemType, by : Requests]

Stored(i) == i \in DOMAIN rows

IntakeTypeOK ==
    /\ body \in Sends
    /\ pc \in [Requests -> InFlightPoints \cup {"idle", "done"}]
    /\ fan \in [Requests -> [Legs -> {"pending", "ok", "error"}]]
    /\ answer \in [Requests -> Answers]
    /\ pooled \in BOOLEAN /\ opened \in Nat
    /\ DOMAIN rows \subseteq AllIds /\ \A i \in DOMAIN rows : rows[i] \in RowType
    /\ DOMAIN specs \subseteq AllIds /\ \A i \in DOMAIN specs : specs[i] \in ItemType
    /\ told \in [AllIds -> Nat]

Init ==
    /\ body \in Sends
    /\ pc = [r \in Requests |-> "idle"]
    /\ fan = [r \in Requests |-> [leg \in Legs |-> "pending"]]
    /\ answer = [r \in Requests |-> "none"]
    /\ pooled = FALSE /\ opened = 0
    /\ rows = [i \in {} |-> Null]
    /\ specs = [i \in {} |-> Null]
    /\ told = [i \in AllIds |-> 0]

-----------------------------------------------------------------------------

Outcomes == {"ok"} \cup (Faults \cap {"refused", "unknown"})

Takes(outcome) == outcome # "refused"

IdOf(r) == IF body[r].id # Null THEN body[r].id ELSE r

\* create_manual_work_item resets the source.
ItemOf(r) ==
    LET b == body[r] IN
    CASE b.route = "outline" -> ToWorkItem("outline_document", b.words, b.lines)
      [] b.route = "gitlab" ->
            ToWorkItem(IF b.mr THEN "gitlab_mr" ELSE "gitlab_issue", b.words, b.lines)
      [] b.route = "manual" -> [b.item EXCEPT !.source = "manual"]

\* The function with x at i.
Put(f, i, x) == [j \in DOMAIN f \cup {i} |-> IF j = i THEN x ELSE f[j]]

NewRow(r) == [item |-> ItemOf(r), by |-> r]

Goto(r, point) == pc' = [pc EXCEPT ![r] = point] /\ UNCHANGED answer

Reply(r, code) ==
    /\ pc' = [pc EXCEPT ![r] = "done"]
    /\ answer' = [answer EXCEPT ![r] = code]

InFlight == {r \in Requests : pc[r] \in InFlightPoints}

\* The statement a request waits for once it has a pool.
FirstQuery(r) == IF body[r].route = "health" THEN "ping" ELSE "insert"

\* Mutant of Receive: every request makes a pool of its own.
ReceiveWithoutPool(r) ==
    /\ pc[r] = "idle"
    /\ Cardinality(InFlight) < MaxInFlight
    /\ Goto(r, "connect")
    /\ UNCHANGED <<body, fan, pools, rows, world>>

\* The signature and the body are checked before anything is awaited.
Receive(r) ==
    /\ pc[r] = "idle"
    /\ Cardinality(InFlight) < MaxInFlight
    /\ CASE body[r].check = "unsigned" -> Reply(r, "400")
         [] body[r].check = "invalid" -> Reply(r, "422")
         [] body[r].check = "ok" -> Goto(r, IF pooled THEN FirstQuery(r) ELSE "connect")
    /\ UNCHANGED <<body, fan, pools, rows, world>>

\* connect, after _pool was found to be None: whoever else found it so makes a
\* pool too, and the last one is kept.
CreatePool(r) ==
    /\ pc[r] = "connect"
    /\ \/ /\ pooled' = TRUE
          /\ opened' = opened + 1
          /\ Goto(r, FirstQuery(r))
       \/ /\ "refused" \in Faults
          /\ Reply(r, "503")
          /\ UNCHANGED pools
    /\ UNCHANGED <<body, fan, rows, world>>

\* Mutant of Insert: an id that is taken is given to the later item.
InsertOrUpdate(r) ==
    /\ pc[r] = "insert"
    /\ \E outcome \in Outcomes :
        /\ rows' = IF Takes(outcome) THEN Put(rows, IdOf(r), NewRow(r)) ELSE rows
        /\ IF outcome = "ok" THEN Goto(r, "fanout")
           ELSE Reply(r, IF outcome = "unknown" THEN "unsure" ELSE "503")
    /\ UNCHANGED <<body, fan, pools, world>>

\* insert_work_item; an id that is taken violates the primary key.  The spec is
\* rendered and the two tasks are created before the next await.
Insert(r) ==
    /\ pc[r] = "insert"
    /\ \E outcome \in Outcomes :
        /\ rows' = IF Takes(outcome) /\ ~Stored(IdOf(r)) THEN Put(rows, IdOf(r), NewRow(r))
                   ELSE rows
        /\ IF outcome = "ok" /\ ~Stored(IdOf(r)) THEN Goto(r, "fanout")
           ELSE Reply(r, IF outcome = "unknown" THEN "unsure" ELSE "503")
    /\ UNCHANGED <<body, fan, pools, world>>

\* Mutant of Settle: the answer does not wait for the other task.
SettleAlone(r, leg, outcome) ==
    /\ fan' = [fan EXCEPT ![r][leg] = IF outcome = "ok" THEN "ok" ELSE "error"]
    /\ Reply(r, IF outcome = "ok" THEN "201" ELSE "202")

\* Mutant of Settle: only a success is answered.
SettleOnSuccess(r, leg, outcome) ==
    /\ fan' = [fan EXCEPT ![r][leg] = IF outcome = "ok" THEN "ok" ELSE "error"]
    /\ IF \A l \in Legs : fan'[r][l] = "ok" THEN Reply(r, "201") ELSE UNCHANGED <<pc, answer>>

\* gather returns when both tasks are done; the answer tells how they ended.
Settle(r, leg, outcome) ==
    /\ fan' = [fan EXCEPT ![r][leg] = IF outcome = "ok" THEN "ok" ELSE "error"]
    /\ IF \E other \in Legs \ {leg} : fan[r][other] = "pending"
       THEN UNCHANGED <<pc, answer>>
       ELSE Reply(r, IF \A l \in Legs : fan'[r][l] = "ok" THEN "201" ELSE "202")

\* stage_work_item_spec, of the item of the request.
Stage(r) ==
    /\ pc[r] = "fanout" /\ fan[r]["storage"] = "pending"
    /\ \E outcome \in Outcomes :
        /\ specs' = IF Takes(outcome) THEN Put(specs, IdOf(r), ItemOf(r)) ELSE specs
        /\ Settle(r, "storage", outcome)
    /\ UNCHANGED <<body, pools, rows, told>>

\* notify_work_item, of the item of the row.
Notify(r) ==
    /\ pc[r] = "fanout" /\ fan[r]["manager"] = "pending"
    /\ \E outcome \in Outcomes :
        /\ told' = IF Takes(outcome) THEN [told EXCEPT ![IdOf(r)] = @ + 1] ELSE told
        /\ Settle(r, "manager", outcome)
    /\ UNCHANGED <<body, pools, rows, specs>>

\* healthcheck, after connect: the answer needs the database and the Manager.
Ping(r) ==
    /\ pc[r] = "ping"
    /\ \E outcome \in Outcomes : Reply(r, IF outcome = "ok" THEN "200" ELSE "503")
    /\ UNCHANGED <<body, fan, pools, rows, world>>

\* The process stops: its requests are lost, and its pools are closed with it.
Crash ==
    /\ "crash" \in Faults
    /\ InFlight # {}
    /\ pc' = [r \in Requests |-> IF r \in InFlight THEN "done" ELSE pc[r]]
    /\ answer' = [r \in Requests |-> IF r \in InFlight THEN "lost" ELSE answer[r]]
    /\ pooled' = FALSE /\ opened' = 0
    /\ UNCHANGED <<body, fan, rows, world>>

\* No more requests arrive.
Quiescent ==
    /\ InFlight = {}
    /\ UNCHANGED vars

\* The steps asyncpg, httpx and botocore bound with their timeouts.
TimedStep(r) ==
    CreatePool(r) \/ Insert(r) \/ Stage(r) \/ Notify(r) \/ Ping(r)

Next ==
    \/ \E r \in Requests : Receive(r) \/ TimedStep(r)
    \/ Crash
    \/ Quiescent

Spec == Init /\ [][Next]_vars

FairSpec == Spec /\ \A r \in Requests : WF_vars(TimedStep(r))

-----------------------------------------------------------------------------
(* Safety.                                                                  *)

StoredBy(r) == Stored(IdOf(r)) /\ rows[IdOf(r)].by = r

\* The status code tells what is durable: 201 that the item, its spec and the
\* notification are, 202 that the item is, any other one that nothing is, unless
\* the answer of the database or the process was lost.
AnswersAreTrue ==
    \A r \in Requests :
        /\ answer[r] \in {"201", "202"} => StoredBy(r)
        /\ answer[r] = "201" =>
               /\ IdOf(r) \in DOMAIN specs /\ specs[IdOf(r)] = ItemOf(r)
               /\ told[IdOf(r)] > 0
        /\ answer[r] \in {"200", "400", "422", "503"} => ~StoredBy(r)

\* Workers and the Manager only ever see items that are stored, as they are
\* stored, and the Manager is told of an item once: two requests with one id never
\* mix, whatever order their statements and tasks run in.
FanOutFollowsRows ==
    \A i \in AllIds :
        /\ i \in DOMAIN specs => Stored(i) /\ specs[i] = rows[i].item
        /\ told[i] > 0 => Stored(i)
        /\ told[i] <= 1

\* Requests that find no pool at the same time each make one, and all but the last
\* are leaked; but those a process made and is making are never more than the
\* requests it had at that time.
PoolsAreBounded ==
    opened + Cardinality({r \in Requests : pc[r] = "connect"}) <= MaxInFlight

\* _is_auto_approved of the policy-bridge.
IsAutoApproved(class, risk) ==
    \/ class = "none"
    \/ class = "low" /\ risk \in {"low", "medium"}
    \/ class = "medium" /\ risk = "low"

\* Words of a grave or a high risk.
SensitiveWords ==
    {"sev1", "critical", "security", "incident", "outage", "data loss",
     "auth", "billing", "payments", "production", "migration", "high risk"}

\* An item whose source speaks of a grave or a high risk waits for a human at the
\* policy-bridge, whatever else the source says and whatever kind it makes it.
SensitiveItemsAreGated ==
    \A i \in DOMAIN rows :
        LET b == body[rows[i].by]
            item == rows[i].item
        IN b.route # "manual" /\ b.words \cap SensitiveWords # {} =>
               ~IsAutoApproved(item.policy, item.risk)

\* Line j is an item of a list in a section of criteria: no heading stands between.
UnderCriteria(lines, j) ==
    /\ IsItem(lines[j])
    /\ \E i \in 1..(j - 1) :
        /\ lines[i].name = "criteria"
        /\ \A k \in (i + 1)..j : ~IsHeading(lines[k])

\* A section of criteria has no line of its own before the next heading.
HasEmptySection(lines) ==
    \E i, k \in DOMAIN lines :
        /\ i < k /\ lines[i].name = "criteria" /\ IsHeading(lines[k])
        /\ \A h \in (i + 1)..(k - 1) : lines[h] = Blank

\* Where no section of criteria is empty, the criteria an item is accepted by are
\* those of its source: each is listed in a section of criteria, has a check box or
\* says that something must be; none is taken from the list of another section, and
\* where no section of criteria lists any no check box is lost.  (Of a text with an
\* empty section this is not so: Block goes on to the heading after the next.)
CriteriaAreOfTheSource ==
    \A i \in DOMAIN rows :
        body[rows[i].by].route # "manual" /\ ~HasEmptySection(body[rows[i].by].lines) =>
            LET lines == body[rows[i].by].lines
                criteria == rows[i].item.criteria
                Says(n, j) == lines[j].text = criteria[n]
            IN /\ \A n \in DOMAIN criteria :
                    criteria[n] # Title =>
                        \E j \in DOMAIN lines :
                            /\ Says(n, j)
                            /\ UnderCriteria(lines, j) \/ lines[j].mark = "box" \/ lines[j].must
               /\ \A j \in DOMAIN lines :
                    /\ lines[j].mark = "box"
                    /\ \A k \in DOMAIN lines : ~UnderCriteria(lines, k)
                    => \E n \in DOMAIN criteria : Says(n, j)

-----------------------------------------------------------------------------
(* Liveness.                                                                *)

\* Every request is answered or lost with the process: nothing it waits for waits
\* for another request for ever.
EveryRequestEnds ==
    \A r \in Requests : pc[r] \in InFlightPoints ~> pc[r] = "done"

=============================================================================
