----------------------------- MODULE IntakeProofs -----------------------------
(***************************************************************************)
(* Theorems about Intake, for every set of requests, ids and bodies.       *)
(***************************************************************************)
EXTENDS Intake, SumProofs, FiniteSetTheorems, TLAPS

BeforeInsert == {"idle", "connect", "insert", "ping"}

Control ==
    /\ body \in [Requests -> Bodies]
    /\ pc \in [Requests -> InFlightPoints \cup {"idle", "done"}]
    /\ fan \in [Requests -> [Legs -> {"pending", "ok", "error"}]]
    /\ answer \in [Requests -> Answers]
    /\ pooled \in BOOLEAN /\ opened \in Nat
    /\ DOMAIN rows \subseteq AllIds
    /\ told \in [AllIds -> Nat]

\* A row is what its request asked for, and that request is past its insert.
RowInv(i) ==
    LET r == rows[i].by IN
    /\ r \in Requests /\ IdOf(r) = i
    /\ rows[i] = NewRow(r)
    /\ body[r].route # "health"
    /\ pc[r] \in {"fanout", "done"}

\* What the two tasks of a request that stored its item left outside.
FanInv(r) ==
    LET i == IdOf(r) IN
    /\ StoredBy(r) =>
        /\ fan[r]["storage"] = "ok" => i \in DOMAIN specs
        /\ fan[r]["storage"] = "pending" => i \notin DOMAIN specs
        /\ fan[r]["manager"] = "ok" => told[i] > 0
        /\ fan[r]["manager"] = "pending" => told[i] = 0
    /\ ~StoredBy(r) => \A leg \in Legs : fan[r][leg] = "pending"

\* What the handler of a request knows at each await, and what its answer says.
CallInv(r) ==
    /\ pc[r] # "done" => answer[r] = "none"
    /\ pc[r] = "insert" => body[r].route # "health"
    /\ pc[r] = "fanout" => StoredBy(r)
    /\ answer[r] \in {"201", "202"} => StoredBy(r)
    /\ answer[r] = "201" => \A leg \in Legs : fan[r][leg] = "ok"
    /\ answer[r] \in {"200", "400", "422", "503"} => ~StoredBy(r)

\* Outside there is nothing but what rows tell of.
OutsideInv(i) ==
    /\ i \in DOMAIN specs => Stored(i) /\ specs[i] = rows[i].item
    /\ told[i] > 0 => Stored(i)
    /\ told[i] <= 1

Connecting == {r \in Requests : pc[r] = "connect"}

PoolInv ==
    /\ ~pooled => opened = 0
    /\ opened + Cardinality(Connecting) <= MaxInFlight

IntakeInv ==
    /\ Control
    /\ \A i \in DOMAIN rows : RowInv(i)
    /\ \A r \in Requests : FanInv(r) /\ CallInv(r)
    /\ DOMAIN specs \subseteq AllIds
    /\ \A i \in AllIds : OutsideInv(i)
    /\ PoolInv

-----------------------------------------------------------------------------

\* The id of a request is one of those that rows may have.
LEMMA IdType == ASSUME Control, NEW r \in Requests PROVE IdOf(r) \in AllIds
  <1>1. body[r] \in BodyType
    BY BodiesAssumption DEF Control
  <1> QED
    BY <1>1 DEF IdOf, AllIds, BodyType

\* A step leaves alone what requests carry, and so what they ask for.
LEMMA Frame ==
    ASSUME [Next]_vars
    PROVE  /\ body' = body
           /\ \A r : IdOf(r)' = IdOf(r) /\ ItemOf(r)' = ItemOf(r) /\ NewRow(r)' = NewRow(r)
  <1>1. body' = body
    BY DEF Next, vars, world, pools, TimedStep, Receive, CreatePool, Insert, Stage, Notify,
           Ping, Crash, Quiescent
  <1> QED
    BY <1>1 DEF IdOf, ItemOf, NewRow

-----------------------------------------------------------------------------
(* The control state.                                                       *)

\* Every step keeps the control state well typed.
LEMMA NextControl == IntakeInv /\ [Next]_vars => Control'
  <1> SUFFICES ASSUME IntakeInv, [Next]_vars
               PROVE  Control'
    OBVIOUS
  <1> USE DEF IntakeInv, Control, world, pools
  <1>1. ASSUME NEW r \in Requests, Receive(r) PROVE Control'
    <2>1. FirstQuery(r) \in InFlightPoints
      BY DEF FirstQuery, InFlightPoints
    <2>2. body[r].check \in {"ok", "unsigned", "invalid"}
      BY BodiesAssumption DEF BodyType
    <2>3. \/ \E code \in {"400", "422"} : Reply(r, code)
          \/ \E point \in InFlightPoints : Goto(r, point)
      BY <1>1, <2>1, <2>2 DEF Receive, InFlightPoints
    <2> QED
      BY <1>1, <2>3 DEF Receive, Reply, Goto, Answers
  <1>2. ASSUME NEW r \in Requests, CreatePool(r) PROVE Control'
    <2>1. FirstQuery(r) \in InFlightPoints
      BY DEF FirstQuery, InFlightPoints
    <2>2. CASE pooled' = TRUE /\ opened' = opened + 1 /\ Goto(r, FirstQuery(r))
      BY <1>2, <2>1, <2>2 DEF CreatePool, Goto
    <2>3. CASE Reply(r, "503") /\ UNCHANGED pools
      BY <1>2, <2>3 DEF CreatePool, Reply, Answers
    <2> QED
      BY <1>2, <2>2, <2>3 DEF CreatePool
  <1>3. ASSUME NEW r \in Requests, Insert(r) PROVE Control'
    <2>1. rows' = rows \/ rows' = Put(rows, IdOf(r), NewRow(r))
      BY <1>3 DEF Insert
    <2>2. DOMAIN rows' \subseteq AllIds
      BY <2>1, IdType DEF Put
    <2> QED
      BY <1>3, <2>2 DEF Insert, Reply, Goto, Answers, InFlightPoints
  <1>4. ASSUME NEW r \in Requests, NEW leg \in Legs, NEW outcome, Settle(r, leg, outcome)
        PROVE  /\ fan' \in [Requests -> [Legs -> {"pending", "ok", "error"}]]
               /\ pc' \in [Requests -> InFlightPoints \cup {"idle", "done"}]
               /\ answer' \in [Requests -> Answers]
    <2>1. fan[r] \in [Legs -> {"pending", "ok", "error"}]
      OBVIOUS
    <2>2. [fan[r] EXCEPT ![leg] = IF outcome = "ok" THEN "ok" ELSE "error"]
             \in [Legs -> {"pending", "ok", "error"}]
      BY <2>1
    <2>3. fan' = [fan EXCEPT ![r] =
                     [fan[r] EXCEPT ![leg] = IF outcome = "ok" THEN "ok" ELSE "error"]]
      BY <1>4 DEF Settle
    <2>4. fan' \in [Requests -> [Legs -> {"pending", "ok", "error"}]]
      BY <2>2, <2>3
    <2> QED
      BY <1>4, <2>4 DEF Settle, Reply, Answers
  <1>5. ASSUME NEW r \in Requests, Stage(r) PROVE Control'
    BY <1>4, <1>5 DEF Stage, Legs
  <1>6. ASSUME NEW r \in Requests, Notify(r) PROVE Control'
    <2>1. told' \in [AllIds -> Nat]
      BY <1>6, IdType DEF Notify
    <2> QED
      BY <1>4, <1>6, <2>1 DEF Notify, Legs
  <1>7. ASSUME NEW r \in Requests, Ping(r) PROVE Control'
    BY <1>7 DEF Ping, Reply, Answers
  <1>8. CASE Crash
    BY <1>8 DEF Crash, Answers
  <1>9. CASE UNCHANGED vars
    BY <1>9 DEF vars
  <1> QED
    BY <1>1, <1>2, <1>3, <1>5, <1>6, <1>7, <1>8, <1>9 DEF Next, TimedStep, Quiescent

-----------------------------------------------------------------------------
(* Rows.                                                                    *)

\* What the statement of a request does to the rows.
LEMMA InsertFacts ==
    ASSUME IntakeInv, NEW r \in Requests, Insert(r)
    PROVE  /\ ~StoredBy(r)
           /\ \/ /\ ~Stored(IdOf(r)) /\ rows' = Put(rows, IdOf(r), NewRow(r))
                 /\ Goto(r, "fanout") \/ Reply(r, "unsure")
              \/ /\ rows' = rows
                 /\ Reply(r, "503") \/ Reply(r, "unsure")
  <1>1. pc[r] = "insert"
    BY DEF Insert
  <1>2. ~StoredBy(r)
    BY <1>1 DEF IntakeInv, RowInv, StoredBy, Stored
  <1>3. PICK outcome \in Outcomes :
            /\ rows' = IF Takes(outcome) /\ ~Stored(IdOf(r))
                       THEN Put(rows, IdOf(r), NewRow(r)) ELSE rows
            /\ IF outcome = "ok" /\ ~Stored(IdOf(r)) THEN Goto(r, "fanout")
               ELSE Reply(r, IF outcome = "unknown" THEN "unsure" ELSE "503")
    BY DEF Insert
  <1>4. outcome \in {"ok", "refused", "unknown"}
    BY DEF Outcomes
  <1> QED
    BY <1>2, <1>3, <1>4 DEF Takes

\* Every other step leaves the rows alone.
LEMMA OnlyInserts ==
    ASSUME [Next]_vars, rows' # rows
    PROVE  \E r \in Requests : Insert(r)
  BY DEF Next, vars, TimedStep, Receive, CreatePool, Stage, Notify, Ping, Crash, Quiescent

\* A stored row stays as it is, and a request comes to be stored by its insert alone.
LEMMA RowsStay ==
    ASSUME IntakeInv, [Next]_vars
    PROVE  /\ \A i \in DOMAIN rows : i \in DOMAIN rows' /\ rows'[i] = rows[i]
           /\ \A q \in Requests : ~Insert(q) => StoredBy(q)' = StoredBy(q)
  <1>1. CASE rows' = rows
    BY <1>1, Frame DEF StoredBy, Stored
  <1>2. CASE rows' # rows
    <2>1. PICK r \in Requests : Insert(r)
      BY <1>2, OnlyInserts
    <2>2. ~Stored(IdOf(r)) /\ rows' = Put(rows, IdOf(r), NewRow(r))
      BY <1>2, <2>1, InsertFacts
    <2>3. /\ DOMAIN rows' = DOMAIN rows \cup {IdOf(r)}
          /\ rows'[IdOf(r)] = NewRow(r)
          /\ \A j \in DOMAIN rows : j # IdOf(r) => rows'[j] = rows[j]
      BY <2>2 DEF Put
    <2>4. ASSUME NEW q \in Requests, ~Insert(q) PROVE StoredBy(q)' = StoredBy(q)
      <3>1. q # r
        BY <2>1, <2>4
      <3>2. IdOf(q)' = IdOf(q)
        BY Frame
      <3>3. CASE IdOf(q) = IdOf(r)
        BY <2>2, <2>3, <3>1, <3>2, <3>3 DEF StoredBy, Stored, NewRow
      <3>4. CASE IdOf(q) # IdOf(r)
        BY <2>3, <3>2, <3>4 DEF StoredBy, Stored
      <3> QED
        BY <3>3, <3>4
    <2> QED
      BY <2>2, <2>3, <2>4 DEF Stored
  <1> QED
    BY <1>1, <1>2

\* A row is there from the insert of its request on.
LEMMA NotYetStored ==
    ASSUME IntakeInv, NEW r \in Requests, pc[r] \in BeforeInsert
    PROVE  ~StoredBy(r)
  BY DEF IntakeInv, RowInv, StoredBy, Stored, BeforeInsert

\* The end of a task: the other requests do not notice, and the answer tells.
LEMMA SettleFacts ==
    ASSUME Control, NEW r \in Requests, NEW leg \in Legs, NEW outcome,
           Settle(r, leg, outcome)
    PROVE  /\ \A q \in Requests \ {r} :
                 fan'[q] = fan[q] /\ pc'[q] = pc[q] /\ answer'[q] = answer[q]
           /\ fan'[r][leg] = IF outcome = "ok" THEN "ok" ELSE "error"
           /\ \A other \in Legs \ {leg} : fan'[r][other] = fan[r][other]
           /\ \/ pc'[r] = pc[r] /\ answer'[r] = answer[r]
              \/ pc'[r] = "done" /\ answer'[r] = "202"
              \/ /\ pc'[r] = "done" /\ answer'[r] = "201"
                 /\ \A l \in Legs : fan'[r][l] = "ok"
  <1>1. fan[r] \in [Legs -> {"pending", "ok", "error"}]
    BY DEF Control
  <1>2. \/ UNCHANGED <<pc, answer>>
        \/ Reply(r, "202")
        \/ Reply(r, "201") /\ \A l \in Legs : fan'[r][l] = "ok"
    BY DEF Settle
  <1>3. fan' = [fan EXCEPT ![r] =
                   [fan[r] EXCEPT ![leg] = IF outcome = "ok" THEN "ok" ELSE "error"]]
    BY DEF Settle
  <1>4. fan'[r] = [fan[r] EXCEPT ![leg] = IF outcome = "ok" THEN "ok" ELSE "error"]
    BY <1>3 DEF Control
  <1>5. \A q \in Requests \ {r} : fan'[q] = fan[q]
    BY <1>3 DEF Control
  <1> QED
    BY <1>1, <1>2, <1>4, <1>5 DEF Reply, Control

\* A step of one request leaves the control state of the others alone.
LEMMA OthersStay ==
    ASSUME Control, NEW r \in Requests, NEW q \in Requests, q # r,
           Receive(r) \/ TimedStep(r)
    PROVE  pc'[q] = pc[q] /\ answer'[q] = answer[q] /\ fan'[q] = fan[q]
  <1>1. CASE Receive(r)
    <2>1. body[r].check \in {"ok", "unsigned", "invalid"}
      BY BodiesAssumption DEF BodyType, Control
    <2> QED
      BY <1>1, <2>1 DEF Receive, Reply, Goto, Control
  <1>2. CASE CreatePool(r) \/ Insert(r) \/ Ping(r)
    BY <1>2 DEF CreatePool, Insert, Ping, Reply, Goto, Control
  <1>3. CASE Stage(r) \/ Notify(r)
    BY <1>3, SettleFacts DEF Stage, Notify, Legs
  <1> QED
    BY <1>1, <1>2, <1>3 DEF TimedStep

\* Every row is one that its request asked for.
LEMMA NextRowInv ==
    ASSUME IntakeInv, [Next]_vars, NEW i \in DOMAIN rows'
    PROVE  RowInv(i)'
  <1>1. \A q \in Requests : pc[q] \in {"fanout", "done"} => pc'[q] \in {"fanout", "done"}
    <2> SUFFICES ASSUME NEW q \in Requests, pc[q] \in {"fanout", "done"}
                 PROVE  pc'[q] \in {"fanout", "done"}
      OBVIOUS
    <2>1. CASE Stage(q) \/ Notify(q)
      BY <2>1, SettleFacts DEF Stage, Notify, Legs, IntakeInv
    <2>2. ASSUME NEW r \in Requests, Receive(r) \/ TimedStep(r), q # r
          PROVE  pc'[q] = pc[q]
      BY <2>2, OthersStay DEF IntakeInv
    <2>3. ~(Receive(q) \/ CreatePool(q) \/ Insert(q) \/ Ping(q))
      BY DEF Receive, CreatePool, Insert, Ping
    <2>4. CASE Crash \/ UNCHANGED vars
      BY <2>4 DEF Crash, vars, IntakeInv, Control
    <2> QED
      BY <2>1, <2>2, <2>3, <2>4 DEF Next, TimedStep, Quiescent
  <1>2. CASE i \in DOMAIN rows
    <2>1. rows'[i] = rows[i] /\ RowInv(i)
      BY <1>2, RowsStay DEF IntakeInv
    <2> QED
      BY <1>1, <2>1, Frame DEF RowInv
  <1>3. CASE i \notin DOMAIN rows
    <2>1. PICK r \in Requests : Insert(r)
      BY <1>3, OnlyInserts
    <2>2. /\ rows' = Put(rows, IdOf(r), NewRow(r))
          /\ Goto(r, "fanout") \/ Reply(r, "unsure")
      BY <1>3, <2>1, InsertFacts
    <2>3. i = IdOf(r) /\ rows'[i] = NewRow(r)
      BY <1>3, <2>2 DEF Put
    <2>4. body[r].route # "health"
      BY <2>1 DEF Insert, IntakeInv, CallInv
    <2>5. pc'[r] \in {"fanout", "done"}
      BY <2>2 DEF Goto, Reply, IntakeInv, Control
    <2>6. NewRow(r).by = r
      BY DEF NewRow
    <2> QED
      BY <2>3, <2>4, <2>5, <2>6, Frame DEF RowInv
  <1> QED
    BY <1>2, <1>3

-----------------------------------------------------------------------------
(* Handlers and tasks.                                                      *)

\* What an await implies, and what an answer says, holds after every step.
LEMMA NextCallInv ==
    ASSUME IntakeInv, [Next]_vars, NEW q \in Requests
    PROVE  CallInv(q)'
  <1> USE DEF IntakeInv
  <1>1. CASE /\ pc'[q] = pc[q] /\ answer'[q] = answer[q] /\ fan'[q] = fan[q]
             /\ ~Insert(q)
    BY <1>1, RowsStay, Frame DEF CallInv
  <1>2. CASE Receive(q)
    <2>1. pc[q] = "idle" /\ ~StoredBy(q)
      BY <1>2, NotYetStored DEF Receive, BeforeInsert
    <2>2. ~StoredBy(q)' /\ answer[q] = "none"
      BY <1>2, <2>1, RowsStay DEF Insert, CallInv
    <2>3. body[q].check \in {"ok", "unsigned", "invalid"}
      BY BodiesAssumption DEF BodyType, Control
    <2>4. \/ Reply(q, "400") \/ Reply(q, "422")
          \/ Goto(q, "connect") \/ Goto(q, FirstQuery(q))
      BY <1>2, <2>3 DEF Receive
    <2> QED
      BY <2>2, <2>4, Frame DEF CallInv, Control, Reply, Goto, FirstQuery
  <1>3. CASE CreatePool(q)
    <2>1. pc[q] = "connect" /\ ~StoredBy(q)
      BY <1>3, NotYetStored DEF CreatePool, BeforeInsert
    <2>2. ~StoredBy(q)' /\ answer[q] = "none"
      BY <1>3, <2>1, RowsStay DEF Insert, CallInv
    <2>3. Reply(q, "503") \/ Goto(q, FirstQuery(q))
      BY <1>3 DEF CreatePool
    <2> QED
      BY <2>2, <2>3, Frame DEF CallInv, Control, Reply, Goto, FirstQuery
  <1>4. CASE Insert(q)
    <2>1. answer[q] = "none" /\ ~StoredBy(q)
      BY <1>4, InsertFacts DEF Insert, CallInv
    <2>2. CASE /\ rows' = Put(rows, IdOf(q), NewRow(q))
               /\ Goto(q, "fanout") \/ Reply(q, "unsure")
      <3>1. StoredBy(q)'
        BY <2>2, Frame DEF Put, StoredBy, Stored, NewRow
      <3> QED
        BY <2>1, <2>2, <3>1 DEF CallInv, Control, Goto, Reply
    <2>3. CASE rows' = rows /\ (Reply(q, "503") \/ Reply(q, "unsure"))
      <3>1. ~StoredBy(q)'
        BY <2>1, <2>3, Frame DEF StoredBy, Stored
      <3> QED
        BY <2>1, <2>3, <3>1 DEF CallInv, Control, Reply
    <2> QED
      BY <1>4, <2>2, <2>3, InsertFacts
  <1>5. CASE Stage(q) \/ Notify(q)
    <2>1. pc[q] = "fanout" /\ answer[q] = "none" /\ StoredBy(q)
      BY <1>5 DEF Stage, Notify, CallInv
    <2>2. StoredBy(q)'
      BY <1>5, <2>1, RowsStay DEF Insert
    <2>3. \/ pc'[q] = pc[q] /\ answer'[q] = answer[q]
          \/ pc'[q] = "done" /\ answer'[q] = "202"
          \/ /\ pc'[q] = "done" /\ answer'[q] = "201"
             /\ \A l \in Legs : fan'[q][l] = "ok"
      BY <1>5, SettleFacts DEF Stage, Notify, Legs
    <2> QED
      BY <2>1, <2>2, <2>3 DEF CallInv
  <1>6. CASE Ping(q)
    <2>1. pc[q] = "ping" /\ ~StoredBy(q)
      BY <1>6, NotYetStored DEF Ping, BeforeInsert
    <2>2. ~StoredBy(q)'
      BY <1>6, <2>1, RowsStay DEF Insert
    <2> QED
      BY <1>6, <2>2 DEF Ping, CallInv, Control, Reply
  <1>7. CASE Crash /\ q \in InFlight
    BY <1>7 DEF Crash, CallInv, Control
  <1>8. CASE (Crash /\ q \notin InFlight) \/ UNCHANGED vars
    <2>1. ~Insert(q)
      BY <1>8 DEF Crash, InFlight, InFlightPoints, Insert, vars, Goto, Reply, Control
    <2>2. pc'[q] = pc[q] /\ answer'[q] = answer[q] /\ fan'[q] = fan[q]
      BY <1>8 DEF Crash, vars, Control
    <2> QED
      BY <1>1, <2>1, <2>2
  <1>9. ASSUME NEW r \in Requests, r # q, Receive(r) \/ TimedStep(r), ~Insert(q)
        PROVE  CallInv(q)'
    BY <1>1, <1>9, OthersStay
  <1> QED
    BY <1>2, <1>3, <1>4, <1>5, <1>6, <1>7, <1>8, <1>9 DEF Next, TimedStep, Quiescent

\* Only the tasks of a stored request write outside, and only for its own id.
LEMMA OnlyTasksWrite ==
    ASSUME IntakeInv, [Next]_vars
    PROVE  \/ /\ UNCHANGED world
              /\ \A q \in Requests : fan'[q] = fan[q]
           \/ \E r \in Requests : (Stage(r) \/ Notify(r)) /\ StoredBy(r)
  BY DEF Next, vars, world, TimedStep, Receive, CreatePool, Insert, Stage, Notify, Ping,
         Crash, Quiescent, IntakeInv, CallInv

\* What a task leaves behind.
LEMMA TaskFacts ==
    ASSUME IntakeInv, NEW r \in Requests, Stage(r) \/ Notify(r)
    PROVE  /\ rows' = rows /\ body' = body
           /\ \A q \in Requests \ {r} : fan'[q] = fan[q]
           /\ \/ /\ fan[r]["storage"] = "pending" /\ told' = told
                 /\ fan'[r]["manager"] = fan[r]["manager"]
                 /\ \/ /\ specs' = Put(specs, IdOf(r), ItemOf(r))
                       /\ fan'[r]["storage"] \in {"ok", "error"}
                    \/ specs' = specs /\ fan'[r]["storage"] = "error"
              \/ /\ fan[r]["manager"] = "pending" /\ specs' = specs
                 /\ fan'[r]["storage"] = fan[r]["storage"]
                 /\ \/ /\ told' = [told EXCEPT ![IdOf(r)] = @ + 1]
                       /\ fan'[r]["manager"] \in {"ok", "error"}
                    \/ told' = told /\ fan'[r]["manager"] = "error"
  <1>1. CASE Stage(r)
    <2>1. PICK outcome \in Outcomes :
             /\ specs' = IF Takes(outcome) THEN Put(specs, IdOf(r), ItemOf(r)) ELSE specs
             /\ Settle(r, "storage", outcome)
      BY <1>1 DEF Stage
    <2>2. /\ fan'[r]["storage"] = IF outcome = "ok" THEN "ok" ELSE "error"
          /\ fan'[r]["manager"] = fan[r]["manager"]
          /\ \A q \in Requests \ {r} : fan'[q] = fan[q]
      BY <2>1, SettleFacts DEF Legs, IntakeInv
    <2> QED
      BY <1>1, <2>1, <2>2 DEF Stage, Takes
  <1>2. CASE Notify(r)
    <2>1. PICK outcome \in Outcomes :
             /\ told' = IF Takes(outcome) THEN [told EXCEPT ![IdOf(r)] = @ + 1] ELSE told
             /\ Settle(r, "manager", outcome)
      BY <1>2 DEF Notify
    <2>2. /\ fan'[r]["manager"] = IF outcome = "ok" THEN "ok" ELSE "error"
          /\ fan'[r]["storage"] = fan[r]["storage"]
          /\ \A q \in Requests \ {r} : fan'[q] = fan[q]
      BY <2>1, SettleFacts DEF Legs, IntakeInv
    <2> QED
      BY <1>2, <2>1, <2>2 DEF Notify, Takes
  <1> QED
    BY <1>1, <1>2

\* What the tasks of a stored request left outside is known by how they stand.
LEMMA NextFanInv ==
    ASSUME IntakeInv, [Next]_vars, NEW q \in Requests
    PROVE  FanInv(q)'
  <1> USE DEF IntakeInv
  <1>1. IdOf(q) \in AllIds /\ IdOf(q)' = IdOf(q)
    BY IdType, Frame
  <1>2. CASE Insert(q)
    <2>1. ~StoredBy(q) /\ \A leg \in Legs : fan[q][leg] = "pending"
      BY <1>2, InsertFacts DEF FanInv
    <2>2. UNCHANGED <<fan, world>>
      BY <1>2 DEF Insert
    <2>3. CASE ~Stored(IdOf(q))
      <3>1. IdOf(q) \notin DOMAIN specs /\ told[IdOf(q)] = 0
        BY <1>1, <2>3 DEF OutsideInv, Control
      <3> QED
        BY <1>1, <2>1, <2>2, <3>1 DEF FanInv, Legs, world
    <2>4. CASE rows' = rows
      <3>1. ~StoredBy(q)'
        BY <1>1, <2>1, <2>4 DEF StoredBy, Stored
      <3> QED
        BY <2>1, <2>2, <3>1 DEF FanInv
    <2> QED
      BY <1>2, <2>3, <2>4, InsertFacts
  <1>3. CASE ~Insert(q) /\ UNCHANGED world /\ fan'[q] = fan[q]
    <2>1. StoredBy(q)' = StoredBy(q)
      BY <1>3, RowsStay
    <2> QED
      BY <1>1, <1>3, <2>1 DEF FanInv, world
  <1>4. ASSUME NEW r \in Requests, Stage(r) \/ Notify(r), StoredBy(r), ~Insert(q)
        PROVE  FanInv(q)'
    <2>1. StoredBy(q)' = StoredBy(q)
      BY <1>4, RowsStay
    <2>5. specs' = Put(specs, IdOf(r), ItemOf(r)) => DOMAIN specs' = DOMAIN specs \cup {IdOf(r)}
      BY DEF Put
    <2>6. \A i \in AllIds :
             told' = [told EXCEPT ![IdOf(r)] = @ + 1] =>
                 told'[i] = IF i = IdOf(r) THEN told[i] + 1 ELSE told[i]
      BY DEF Control
    <2>7. /\ \/ specs' = specs
             \/ specs' = Put(specs, IdOf(r), ItemOf(r))
          /\ \/ told' = told
             \/ told' = [told EXCEPT ![IdOf(r)] = @ + 1]
      BY <1>4, TaskFacts
    <2>2. CASE q = r
      <3>1. told[IdOf(q)] \in Nat
        BY <1>1 DEF Control
      <3>2. FanInv(q) /\ StoredBy(q) /\ StoredBy(q)'
        BY <1>4, <2>1, <2>2
      <3>3. CASE /\ fan[r]["storage"] = "pending" /\ told' = told
                 /\ fan'[r]["manager"] = fan[r]["manager"]
                 /\ \/ /\ specs' = Put(specs, IdOf(r), ItemOf(r))
                       /\ fan'[r]["storage"] \in {"ok", "error"}
                    \/ specs' = specs /\ fan'[r]["storage"] = "error"
        BY <1>1, <2>2, <2>5, <3>2, <3>3 DEF FanInv
      <3>4. CASE /\ fan[r]["manager"] = "pending" /\ specs' = specs
                 /\ fan'[r]["storage"] = fan[r]["storage"]
                 /\ \/ /\ told' = [told EXCEPT ![IdOf(r)] = @ + 1]
                       /\ fan'[r]["manager"] \in {"ok", "error"}
                    \/ told' = told /\ fan'[r]["manager"] = "error"
        BY <1>1, <2>2, <2>6, <3>1, <3>2, <3>4 DEF FanInv
      <3> QED
        BY <1>4, <3>3, <3>4, TaskFacts
    <2>3. CASE q # r /\ StoredBy(q)
      <3>1. IdOf(q) # IdOf(r)
        BY <1>4, <2>3 DEF StoredBy
      <3>2. /\ IdOf(q) \in DOMAIN specs' <=> IdOf(q) \in DOMAIN specs
            /\ told'[IdOf(q)] = told[IdOf(q)]
        BY <1>1, <2>5, <2>6, <2>7, <3>1
      <3>3. fan'[q] = fan[q]
        BY <1>4, <2>3, TaskFacts
      <3> QED
        BY <1>1, <2>1, <3>2, <3>3 DEF FanInv
    <2>4. CASE q # r /\ ~StoredBy(q)
      <3>1. fan'[q] = fan[q]
        BY <1>4, <2>4, TaskFacts
      <3> QED
        BY <2>1, <2>4, <3>1 DEF FanInv
    <2> QED
      BY <2>2, <2>3, <2>4
  <1> QED
    BY <1>2, <1>3, <1>4, OnlyTasksWrite

\* What is outside is what a row tells of.
LEMMA NextOutsideInv ==
    ASSUME IntakeInv, [Next]_vars
    PROVE  DOMAIN specs' \subseteq AllIds /\ \A i \in AllIds : OutsideInv(i)'
  <1> USE DEF IntakeInv
  <1>1. CASE UNCHANGED world
    BY <1>1, RowsStay DEF OutsideInv, Stored, world
  <1>2. ASSUME NEW r \in Requests, Stage(r) \/ Notify(r), StoredBy(r)
        PROVE  DOMAIN specs' \subseteq AllIds /\ \A i \in AllIds : OutsideInv(i)'
    <2>1. /\ IdOf(r) \in AllIds /\ IdOf(r) \in DOMAIN rows
          /\ rows[IdOf(r)].item = ItemOf(r)
      <3>1. rows[IdOf(r)] = NewRow(r)
        BY <1>2 DEF StoredBy, Stored, RowInv
      <3> QED
        BY <1>2, <3>1, IdType DEF StoredBy, Stored, NewRow
    <2>2. rows' = rows
      BY <1>2, TaskFacts
    <2>3. /\ DOMAIN specs' \subseteq AllIds
          /\ \A i \in DOMAIN specs' : Stored(i) /\ specs'[i] = rows[i].item
      <3>1. specs' = specs \/ specs' = Put(specs, IdOf(r), ItemOf(r))
        BY <1>2, TaskFacts
      <3>2. \A i \in DOMAIN specs : Stored(i) /\ specs[i] = rows[i].item
        BY DEF OutsideInv
      <3> QED
        BY <2>1, <3>1, <3>2 DEF Put, Stored
    <2>4. ASSUME NEW i \in AllIds PROVE (told'[i] > 0 => Stored(i)) /\ told'[i] <= 1
      <3>1. CASE told' = told
        BY <3>1 DEF OutsideInv
      <3>2. CASE /\ told' = [told EXCEPT ![IdOf(r)] = @ + 1]
                 /\ fan[r]["manager"] = "pending"
        <4>1. told[IdOf(r)] = 0
          BY <1>2, <3>2 DEF FanInv
        <4> QED
          BY <2>1, <3>2, <4>1 DEF OutsideInv, Control, Stored
      <3> QED
        BY <1>2, <3>1, <3>2, TaskFacts
    <2> QED
      BY <2>2, <2>3, <2>4 DEF OutsideInv, Stored
  <1> QED
    BY <1>1, <1>2, OnlyTasksWrite

-----------------------------------------------------------------------------
(* Pools.                                                                   *)

\* What is known of the sets of requests that are counted.
LEMMA CountFacts ==
    /\ IsFiniteSet(Connecting) /\ Cardinality(Connecting) \in Nat
    /\ Cardinality(Connecting) <= Cardinality(InFlight) /\ Cardinality(InFlight) \in Nat
  <1>1. IsFiniteSet(InFlight)
    BY ConstantsAssumption, FS_Subset DEF InFlight
  <1>2. Connecting \in SUBSET InFlight
    BY DEF Connecting, InFlight, InFlightPoints
  <1> QED
    BY <1>1, <1>2, FS_Subset, FS_CardinalityType

\* A process never makes more pools than it may have requests.
LEMMA NextPoolInv == IntakeInv /\ [Next]_vars => PoolInv'
  <1> SUFFICES ASSUME IntakeInv, [Next]_vars
               PROVE  PoolInv'
    OBVIOUS
  <1> USE DEF IntakeInv
  <1>1. CASE Connecting' \subseteq Connecting /\ UNCHANGED pools
    <2>1. IsFiniteSet(Connecting) /\ Cardinality(Connecting) \in Nat
      BY CountFacts
    <2>2. Cardinality(Connecting') <= Cardinality(Connecting) /\ Cardinality(Connecting') \in Nat
      BY <1>1, <2>1, FS_Subset, FS_CardinalityType
    <2> QED
      BY <1>1, <2>1, <2>2, ConstantsAssumption DEF PoolInv, pools, Control
  <1>2. ASSUME NEW r \in Requests, Receive(r) PROVE PoolInv'
    <2>1. body[r].check \in {"ok", "unsigned", "invalid"}
      BY BodiesAssumption DEF BodyType, Control
    <2>2. CASE Connecting' \subseteq Connecting
      BY <1>1, <1>2, <2>2 DEF Receive
    <2>3. CASE ~pooled /\ Goto(r, "connect")
      <3>1. Connecting' = Connecting \cup {r}
        BY <2>3 DEF Goto, Connecting, Control
      <3>2. Cardinality(Connecting') <= Cardinality(Connecting) + 1
            /\ Cardinality(Connecting') \in Nat
        BY <3>1, CountFacts, FS_AddElement
      <3>3. Cardinality(InFlight) < MaxInFlight
        BY <1>2 DEF Receive
      <3>4. opened = 0 /\ UNCHANGED pools
        BY <1>2, <2>3 DEF Receive, PoolInv
      <3> QED
        BY <2>3, <3>2, <3>3, <3>4, CountFacts, ConstantsAssumption DEF PoolInv, pools
    <2>4. CASE Reply(r, "400") \/ Reply(r, "422") \/ Goto(r, FirstQuery(r))
      <3>1. Connecting' \subseteq Connecting
        BY <2>4 DEF Connecting, Reply, Goto, FirstQuery, Control
      <3> QED
        BY <2>2, <3>1
    <2> QED
      BY <1>2, <2>1, <2>3, <2>4 DEF Receive
  <1>3. ASSUME NEW r \in Requests, CreatePool(r) PROVE PoolInv'
    <2>1. pc[r] = "connect"
      BY <1>3 DEF CreatePool
    <2>2. Connecting' = Connecting \ {r} /\ r \in Connecting
      BY <1>3, <2>1 DEF CreatePool, Connecting, Reply, Goto, FirstQuery, Control
    <2>3. Cardinality(Connecting') = Cardinality(Connecting) - 1
      BY <2>2, CountFacts, FS_RemoveElement
    <2>4. \/ pooled' = TRUE /\ opened' = opened + 1
          \/ UNCHANGED pools
      BY <1>3 DEF CreatePool
    <2> QED
      BY <2>3, <2>4, CountFacts, ConstantsAssumption DEF PoolInv, pools, Control
  <1>4. ASSUME NEW r \in Requests, Insert(r) \/ Ping(r) PROVE PoolInv'
    <2>1. Connecting' \subseteq Connecting
      BY <1>4 DEF Insert, Ping, Reply, Goto, Connecting, Control
    <2> QED
      BY <1>1, <1>4, <2>1 DEF Insert, Ping
  <1>5. ASSUME NEW r \in Requests, Stage(r) \/ Notify(r) PROVE PoolInv'
    <2>1. \A q \in Requests : pc'[q] = pc[q] \/ pc'[q] = "done"
      BY <1>5, SettleFacts DEF Stage, Notify, Legs
    <2> QED
      BY <1>1, <1>5, <2>1 DEF Stage, Notify, Connecting
  <1>6. CASE Crash
    <2>1. Connecting' = {}
      BY <1>6 DEF Crash, Connecting, InFlight, InFlightPoints, Control
    <2>2. Cardinality(Connecting') = 0
      BY <2>1, FS_EmptySet
    <2> QED
      BY <1>6, <2>2, ConstantsAssumption DEF Crash, PoolInv
  <1>7. CASE UNCHANGED vars
    BY <1>1, <1>7 DEF vars, Connecting
  <1> QED
    BY <1>2, <1>3, <1>4, <1>5, <1>6, <1>7 DEF Next, TimedStep, Quiescent

-----------------------------------------------------------------------------
(* The theorems.                                                            *)

\* The inductive invariant of the intake-bridge: what each await of a request
\* implies about its row, its spec and its notification, and how many pools there
\* are.
THEOREM IntakeInductive == Spec => []IntakeInv
  <1>1. Init => IntakeInv
    <2> SUFFICES ASSUME Init PROVE IntakeInv
      OBVIOUS
    <2>1. Control
      BY BodiesAssumption DEF Init, Control, Answers
    <2>2. DOMAIN rows = {} /\ DOMAIN specs = {}
      BY DEF Init
    <2>3. \A r \in Requests : FanInv(r) /\ CallInv(r)
      BY <2>2 DEF Init, FanInv, CallInv, StoredBy, Stored
    <2>4. \A i \in AllIds : OutsideInv(i)
      BY <2>2 DEF Init, OutsideInv
    <2>5. PoolInv
      <3>1. Connecting = {}
        BY DEF Init, Connecting
      <3> QED
        BY <3>1, FS_EmptySet, ConstantsAssumption DEF Init, PoolInv
    <2> QED
      BY <2>1, <2>2, <2>3, <2>4, <2>5 DEF IntakeInv
  <1>2. IntakeInv /\ [Next]_vars => IntakeInv'
    BY NextControl, NextRowInv, NextFanInv, NextCallInv, NextOutsideInv, NextPoolInv
       DEF IntakeInv
  <1> QED
    BY <1>1, <1>2, PTL DEF Spec

\* What the status code of an answer says of the row, the spec and the notification
\* is so, for any number of requests and under any faults.
THEOREM AnswersTrue == Spec => []AnswersAreTrue
  <1>1. IntakeInv => AnswersAreTrue
    <2> SUFFICES ASSUME IntakeInv, NEW r \in Requests
                 PROVE  /\ answer[r] \in {"201", "202"} => StoredBy(r)
                        /\ answer[r] = "201" =>
                               /\ IdOf(r) \in DOMAIN specs /\ specs[IdOf(r)] = ItemOf(r)
                               /\ told[IdOf(r)] > 0
                        /\ answer[r] \in {"200", "400", "422", "503"} => ~StoredBy(r)
      BY DEF AnswersAreTrue
    <2>1. CallInv(r) /\ FanInv(r) /\ IdOf(r) \in AllIds
      BY IdType DEF IntakeInv
    <2>2. ASSUME answer[r] = "201"
          PROVE  /\ IdOf(r) \in DOMAIN specs /\ specs[IdOf(r)] = ItemOf(r)
                 /\ told[IdOf(r)] > 0
      <3>1. StoredBy(r) /\ fan[r]["storage"] = "ok" /\ fan[r]["manager"] = "ok"
        BY <2>1, <2>2 DEF CallInv, Legs
      <3>2. IdOf(r) \in DOMAIN specs /\ told[IdOf(r)] > 0
        BY <2>1, <3>1 DEF FanInv
      <3>3. rows[IdOf(r)] = NewRow(r)
        BY <3>1 DEF IntakeInv, RowInv, StoredBy, Stored
      <3>4. specs[IdOf(r)] = rows[IdOf(r)].item
        BY <2>1, <3>2 DEF IntakeInv, OutsideInv
      <3> QED
        BY <3>2, <3>3, <3>4 DEF NewRow
    <2> QED
      BY <2>1, <2>2 DEF CallInv
  <1> QED
    BY <1>1, IntakeInductive, PTL

\* Whatever requests share an id, specs and notifications are those of the one item
\* that is stored under it.
THEOREM FanOutFollows == Spec => []FanOutFollowsRows
  <1>1. IntakeInv => FanOutFollowsRows
    BY DEF IntakeInv, OutsideInv, FanOutFollowsRows
  <1> QED
    BY <1>1, IntakeInductive, PTL

\* The pools a process made and is making are never more than the requests it may
\* handle at the same time.
THEOREM PoolsBounded == Spec => []PoolsAreBounded
  <1>1. IntakeInv => PoolsAreBounded
    BY DEF IntakeInv, PoolInv, PoolsAreBounded, Connecting
  <1> QED
    BY <1>1, IntakeInductive, PTL

\* A text with a word of a grave or a high risk is of critical or of high risk.
LEMMA SensitiveRisk ==
    ASSUME NEW words, words \cap SensitiveWords # {}
    PROVE  DetermineRisk(words) \in {"critical", "high"}
  <1> DEFINE hits == {i \in DOMAIN RiskTable : RiskTable[i].words \cap words # {}}
  <1>1. DOMAIN RiskTable = 1..3
    BY DEF RiskTable
  <1>2. RiskTable[1].value = "critical" /\ RiskTable[2].value = "high"
    BY DEF RiskTable, Row
  <1>3. SensitiveWords = RiskTable[1].words \cup RiskTable[2].words
    BY DEF RiskTable, Row, SensitiveWords
  <1>4. hits \subseteq 1..3 /\ (1 \in hits \/ 2 \in hits)
    BY <1>1, <1>3
  <1>5. Min(hits) \in {1, 2}
    <2>1. \E x \in hits : \A y \in hits : x =< y
      <3>1. CASE 1 \in hits
        BY <1>4, <3>1
      <3>2. CASE 1 \notin hits
        BY <1>4, <3>2
      <3> QED
        BY <3>1, <3>2
    <2>2. Min(hits) \in hits /\ \A y \in hits : Min(hits) =< y
      BY <2>1 DEF Min
    <2> QED
      BY <1>4, <2>2
  <1>6. hits # {}
    BY <1>4
  <1>7. DetermineRisk(words) = RiskTable[Min(hits)].value
    BY <1>6 DEF DetermineRisk, FirstMatch
  <1> QED
    BY <1>2, <1>5, <1>7

\* Whatever else a document, an issue or a merge request says, one that speaks of
\* a grave or a high risk becomes an item that the policy-bridge does not approve by
\* itself.
THEOREM SensitiveGated == Spec => []SensitiveItemsAreGated
  <1>1. IntakeInv => SensitiveItemsAreGated
    <2> SUFFICES ASSUME IntakeInv, NEW i \in DOMAIN rows,
                        body[rows[i].by].route # "manual",
                        body[rows[i].by].words \cap SensitiveWords # {}
                 PROVE  ~IsAutoApproved(rows[i].item.policy, rows[i].item.risk)
      BY DEF SensitiveItemsAreGated
    <2> DEFINE r == rows[i].by
               words == body[r].words
    <2>1. r \in Requests /\ rows[i].item = ItemOf(r) /\ body[r].route # "health"
      BY DEF IntakeInv, RowInv, NewRow
    <2>2. body[r].route \in {"outline", "gitlab"}
      BY <2>1, BodiesAssumption DEF IntakeInv, Control, BodyType
    <2>3. \E source : ItemOf(r) = ToWorkItem(source, words, body[r].lines)
      BY <2>2 DEF ItemOf
    <2>4. PICK source : ItemOf(r) = ToWorkItem(source, words, body[r].lines)
      BY <2>3
    <2>5. /\ ItemOf(r).risk = DetermineRisk(words)
          /\ ItemOf(r).policy =
                 DetermineApprovalPolicy(DetermineRisk(words), ClassifyKind(source, words))
      BY <2>4 DEF ToWorkItem
    <2>6. DetermineRisk(words) \in {"critical", "high"}
      BY SensitiveRisk
    <2>7. ItemOf(r).policy = ItemOf(r).risk /\ ItemOf(r).risk \in {"critical", "high"}
      BY <2>5, <2>6 DEF DetermineApprovalPolicy
    <2> QED
      BY <2>1, <2>7 DEF IsAutoApproved
  <1> QED
    BY <1>1, IntakeInductive, PTL

-----------------------------------------------------------------------------
(* The acceptance criteria.                                                 *)

\* How many of these positions are not after i.
Upto(J, i) == Cardinality({j \in J : j <= i})

\* Every number up to that of the positions is that of one of them, and of no other.
LEMMA Numbering ==
    ASSUME NEW m \in Nat, NEW J \in SUBSET (1..m)
    PROVE  /\ Cardinality(J) \in Nat
           /\ \A i \in J : Upto(J, i) \in 1..Cardinality(J)
           /\ \A i, k \in J : Upto(J, i) = Upto(J, k) => i = k
           /\ \A n \in 1..Cardinality(J) : \E i \in J : Upto(J, i) = n
  <1>1. IsFiniteSet(J) /\ Cardinality(J) \in Nat
    <2>1. IsFiniteSet(1..m)
      BY FS_Interval
    <2> QED
      BY <2>1, FS_Subset, FS_CardinalityType
  <1>0. \A i \in J : i \in Int
    OBVIOUS
  <1>2. \A i \in J : /\ IsFiniteSet({j \in J : j <= i})
                     /\ Upto(J, i) \in 1..Cardinality(J)
    <2> SUFFICES ASSUME NEW i \in J
                 PROVE  /\ IsFiniteSet({j \in J : j <= i})
                        /\ Upto(J, i) \in 1..Cardinality(J)
      OBVIOUS
    <2> DEFINE S == {j \in J : j <= i}
    <2>1. S \subseteq J /\ i \in S
      OBVIOUS
    <2> HIDE DEF S
    <2>2. IsFiniteSet(S) /\ Cardinality(S) \in Nat /\ Cardinality(S) <= Cardinality(J)
      BY <1>1, <2>1, FS_Subset, FS_CardinalityType
    <2>3. Cardinality(S) # 0
      BY <2>1, <2>2, FS_EmptySet
    <2> QED
      BY <1>1, <2>2, <2>3 DEF S, Upto
  <1>3. \A i, k \in J : i < k => Upto(J, i) # Upto(J, k)
    <2> SUFFICES ASSUME NEW i \in J, NEW k \in J, i < k
                 PROVE  Upto(J, i) # Upto(J, k)
      OBVIOUS
    <2> DEFINE S == {j \in J : j <= i}
    <2> DEFINE T == {j \in J : j <= k}
    <2>1. S \subseteq T /\ k \in T /\ k \notin S
      <3>1. i \in Int /\ k \in Int /\ ~(k <= i) /\ k <= k
        BY <1>0
      <3>2. \A j \in J : j <= i => j <= k
        BY <1>0, <3>1
      <3> QED
        BY <3>1, <3>2
    <2>2. IsFiniteSet(T)
      BY <1>2
    <2> HIDE DEF S, T
    <2>3. Cardinality(S) # Cardinality(T)
      BY <2>1, <2>2, FS_Subset
    <2> QED
      BY <2>3 DEF S, T, Upto
  <1>4. \A i, k \in J : Upto(J, i) = Upto(J, k) => i = k
    BY <1>3
  <1>5. \A n \in 1..Cardinality(J) : \E i \in J : Upto(J, i) = n
    <2> DEFINE f == [i \in J |-> Upto(J, i)]
    <2> DEFINE T == {Upto(J, i) : i \in J}
    <2>1. f \in Bijection(J, T)
      BY <1>4 DEF Bijection, Injection, Surjection, IsInjective
    <2>2. T \subseteq 1..Cardinality(J)
      BY <1>2
    <2> HIDE DEF f, T
    <2>3. Cardinality(T) = Cardinality(J)
      BY <1>1, <2>1, FS_Bijection DEF ExistsBijection
    <2>4. IsFiniteSet(1..Cardinality(J)) /\ Cardinality(1..Cardinality(J)) = Cardinality(J)
      BY <1>1, FS_Interval
    <2>5. T = 1..Cardinality(J)
      BY <2>2, <2>3, <2>4, FS_Subset
    <2> QED
      BY <2>5 DEF T
  <1> QED
    BY <1>1, <1>2, <1>4, <1>5

\* What is kept of a sequence is what stands at the positions, and all of that.
LEMMA KeptFacts ==
    ASSUME NEW s, NEW m \in Nat, NEW J \in SUBSET (1..m)
    PROVE  /\ Cardinality(J) \in Nat
           /\ DOMAIN Kept(s, J) = 1..Cardinality(J)
           /\ \A n \in DOMAIN Kept(s, J) : \E i \in J : Kept(s, J)[n] = s[i]
           /\ \A i \in J : \E n \in DOMAIN Kept(s, J) : Kept(s, J)[n] = s[i]
  <1>1. Kept(s, J) = [n \in 1..Cardinality(J) |-> s[CHOOSE i \in J : Upto(J, i) = n]]
    BY DEF Kept, Upto
  <1>2. ASSUME NEW i \in J
        PROVE  (CHOOSE k \in J : Upto(J, k) = Upto(J, i)) = i
    BY Numbering
  <1>3. ASSUME NEW i \in J
        PROVE  /\ Upto(J, i) \in DOMAIN Kept(s, J)
               /\ Kept(s, J)[Upto(J, i)] = s[i]
    <2> DEFINE n == Upto(J, i)
    <2>1. n \in 1..Cardinality(J)
      BY Numbering
    <2>2. (CHOOSE k \in J : Upto(J, k) = n) = i
      BY <1>2
    <2> HIDE DEF n
    <2>3. n \in DOMAIN Kept(s, J) /\ Kept(s, J)[n] = s[CHOOSE k \in J : Upto(J, k) = n]
      BY <1>1, <2>1
    <2> QED
      BY <2>2, <2>3 DEF n
  <1>4. ASSUME NEW n \in DOMAIN Kept(s, J)
        PROVE  \E i \in J : Kept(s, J)[n] = s[i]
    <2>1. n \in 1..Cardinality(J)
      BY <1>1
    <2>2. PICK i \in J : Upto(J, i) = n
      BY <2>1, Numbering
    <2> QED
      BY <1>3, <2>2
  <1>5. DOMAIN Kept(s, J) = 1..Cardinality(J) /\ Cardinality(J) \in Nat
    BY <1>1, Numbering
  <1> QED
    BY <1>3, <1>4, <1>5

\* Nothing is kept only if there is nothing to keep.
LEMMA KeptEmpty ==
    ASSUME NEW s, NEW m \in Nat, NEW J \in SUBSET (1..m)
    PROVE  Kept(s, J) = <<>> <=> J = {}
  <1>1. CASE J = {}
    <2>1. Kept(s, {}) = [n \in 1..0 |-> s[CHOOSE i \in {} : Cardinality({j \in {} : j <= i}) = n]]
      BY FS_EmptySet DEF Kept
    <2>2. Kept(s, {}) = <<>>
      BY <2>1
    <2> QED
      BY <1>1, <2>2
  <1>2. CASE J # {}
    <2>1. \E n : n \in DOMAIN Kept(s, J)
      BY <1>2, KeptFacts
    <2>2. DOMAIN << >> = {}
      OBVIOUS
    <2> QED
      BY <1>2, <2>1, <2>2
  <1> QED
    BY <1>1, <1>2

\* A least position there always is.
LEMMA LeastPosition ==
    ASSUME NEW m \in Nat, NEW J \in SUBSET (1..m), J # {}
    PROVE  Min(J) \in J /\ \A y \in J : Min(J) <= y
  <1>1. IsFiniteSet(J)
    <2>1. IsFiniteSet(1..m)
      BY FS_Interval
    <2> QED
      BY <2>1, FS_Subset
  <1>2. \A x \in J : x \in Int
    OBVIOUS
  <1> QED
    BY <1>1, <1>2, MinIsElement

\* Dropping what was said before drops no text.
LEMMA UniqueFacts ==
    ASSUME NEW texts, NEW m \in Nat, DOMAIN texts = 1..m
    PROVE  /\ \A n \in DOMAIN Unique(texts) : \E i \in 1..m : Unique(texts)[n] = texts[i]
           /\ \A i \in 1..m : \E n \in DOMAIN Unique(texts) : Unique(texts)[n] = texts[i]
           /\ Unique(texts) = <<>> <=> m = 0
  <1> DEFINE J == {i \in 1..m : \A j \in 1..(i - 1) : texts[j] # texts[i]}
  <1>1. Unique(texts) = Kept(texts, J) /\ J \in SUBSET (1..m)
    BY DEF Unique
  <1>2. \A i \in 1..m : \E k \in J : texts[k] = texts[i]
    <2> SUFFICES ASSUME NEW i \in 1..m PROVE \E k \in J : texts[k] = texts[i]
      OBVIOUS
    <2> DEFINE S == {k \in 1..m : texts[k] = texts[i]}
    <2>1. S \in SUBSET (1..m) /\ S # {}
      OBVIOUS
    <2>2. PICK k \in S : \A y \in S : k <= y
      <3> HIDE DEF S
      <3> QED
        BY <2>1, LeastPosition
    <2>3. \A j \in 1..(k - 1) : texts[j] # texts[k]
      <3> SUFFICES ASSUME NEW j \in 1..(k - 1), texts[j] = texts[k] PROVE FALSE
        OBVIOUS
      <3>1. j \in S /\ ~(k <= j)
        BY <2>2
      <3> QED
        BY <2>2, <3>1
    <2> QED
      BY <2>2, <2>3
  <1> HIDE DEF J
  <1>3. /\ \A n \in DOMAIN Kept(texts, J) : \E i \in J : Kept(texts, J)[n] = texts[i]
        /\ \A i \in J : \E n \in DOMAIN Kept(texts, J) : Kept(texts, J)[n] = texts[i]
        /\ Kept(texts, J) = <<>> <=> J = {}
    <2>1. /\ \A n \in DOMAIN Kept(texts, J) : \E i \in J : Kept(texts, J)[n] = texts[i]
          /\ \A i \in J : \E n \in DOMAIN Kept(texts, J) : Kept(texts, J)[n] = texts[i]
      BY <1>1, KeptFacts, Zenon
    <2>2. Kept(texts, J) = <<>> <=> J = {}
      BY <1>1, KeptEmpty, Zenon
    <2> QED
      BY <2>1, <2>2
  <1>4. J = {} <=> m = 0
    <2>1. m # 0 => 1 \in 1..m
      OBVIOUS
    <2>2. m = 0 => 1..m = {}
      OBVIOUS
    <2> QED
      BY <1>1, <1>2, <2>1, <2>2
  <1>5. \A n \in DOMAIN Kept(texts, J) : \E i \in 1..m : Kept(texts, J)[n] = texts[i]
    BY <1>1, <1>3
  <1>6. \A i \in 1..m : \E n \in DOMAIN Kept(texts, J) : Kept(texts, J)[n] = texts[i]
    BY <1>2, <1>3
  <1> QED
    BY <1>1, <1>3, <1>4, <1>5, <1>6

\* The texts of the lines at these positions, each once.
LEMMA UniqueTexts ==
    ASSUME NEW lines, NEW m \in Nat, DOMAIN lines = 1..m, NEW J \in SUBSET (1..m),
           NEW u, u = Unique(Kept(TextsIn(lines), J))
    PROVE  /\ \A n \in DOMAIN u : \E j \in J : u[n] = lines[j].text
           /\ \A j \in J : \E n \in DOMAIN u : u[n] = lines[j].text
           /\ u = <<>> <=> J = {}
  <1> DEFINE k == Kept(TextsIn(lines), J)
  <1>1. \A j \in J : TextsIn(lines)[j] = lines[j].text
    BY DEF TextsIn
  <1>2. /\ Cardinality(J) \in Nat /\ DOMAIN k = 1..Cardinality(J)
        /\ \A n \in DOMAIN k : \E i \in J : k[n] = TextsIn(lines)[i]
        /\ \A i \in J : \E n \in DOMAIN k : k[n] = TextsIn(lines)[i]
    BY KeptFacts
  <1> HIDE DEF k
  <1>3. u = Unique(k)
    BY DEF k
  <1>4. /\ \A n \in DOMAIN u : \E i \in DOMAIN k : u[n] = k[i]
        /\ \A i \in DOMAIN k : \E n \in DOMAIN u : u[n] = k[i]
        /\ u = <<>> <=> Cardinality(J) = 0
    <2>1. PICK c \in Nat : c = Cardinality(J)
      BY <1>2
    <2>2. DOMAIN k = 1..c
      BY <1>2, <2>1
    <2>3. /\ \A n \in DOMAIN Unique(k) : \E i \in 1..c : Unique(k)[n] = k[i]
          /\ \A i \in 1..c : \E n \in DOMAIN Unique(k) : Unique(k)[n] = k[i]
          /\ Unique(k) = <<>> <=> c = 0
      BY <2>2, UniqueFacts, Zenon
    <2>4. \A n \in DOMAIN u : \E i \in DOMAIN k : u[n] = k[i]
      BY <1>3, <2>2, <2>3, Zenon
    <2>5. \A i \in DOMAIN k : \E n \in DOMAIN u : u[n] = k[i]
      BY <1>3, <2>2, <2>3, Zenon
    <2>6. u = <<>> <=> Cardinality(J) = 0
      BY <1>3, <2>1, <2>3, Zenon
    <2> QED
      BY <2>4, <2>5, <2>6, Zenon
  <1>5. Cardinality(J) = 0 <=> J = {}
    <2>1. Cardinality(J) = 0 => DOMAIN k = {}
      BY <1>2
    <2> QED
      BY <1>2, <2>1, FS_EmptySet
  <1>6. \A n \in DOMAIN u : \E j \in J : u[n] = lines[j].text
    <2> SUFFICES ASSUME NEW n \in DOMAIN u PROVE \E j \in J : u[n] = lines[j].text
      OBVIOUS
    <2>1. PICK i \in DOMAIN k : u[n] = k[i]
      BY <1>4
    <2>2. PICK j \in J : k[i] = TextsIn(lines)[j]
      BY <1>2
    <2> QED
      BY <1>1, <2>1, <2>2
  <1>7. \A j \in J : \E n \in DOMAIN u : u[n] = lines[j].text
    <2> SUFFICES ASSUME NEW j \in J PROVE \E n \in DOMAIN u : u[n] = lines[j].text
      OBVIOUS
    <2>1. PICK i \in DOMAIN k : k[i] = TextsIn(lines)[j]
      BY <1>2
    <2>2. PICK n \in DOMAIN u : u[n] = k[i]
      BY <1>4
    <2> QED
      BY <1>1, <2>1, <2>2
  <1> QED
    BY <1>4, <1>5, <1>6, <1>7

\* No heading stands between a heading and what is in its section, unless right
\* below it.
LEMMA BlockFacts ==
    ASSUME NEW lines, NEW m \in Nat, DOMAIN lines = 1..m, NEW i \in 1..m
    PROVE  /\ \E c \in Nat : DOMAIN Block(lines, i) = 1..c
           /\ \A n \in DOMAIN Block(lines, i) :
                \E j \in (i + 1)..m :
                    /\ Block(lines, i)[n] = lines[j]
                    /\ \A k \in (i + 1)..j :
                        IsHeading(lines[k]) => \A h \in (i + 1)..(k - 1) : lines[h] = Blank
  <1> DEFINE filled == {j \in 1..m : lines[j] # Blank /\ j > i}
             Ends(j) == IsHeading(lines[j]) /\ \E first \in filled : first < j
             J == {k \in filled : ~ \E j \in filled : j <= k /\ Ends(j)}
  <1>1. Block(lines, i) = Kept(lines, J)
    <2>1. {j \in Filled(lines) : j > i} = filled
      BY DEF Filled
    <2> QED
      BY <2>1 DEF Block
  <1>2. J \in SUBSET (1..m)
    OBVIOUS
  <1>3. ASSUME NEW j \in J
        PROVE  /\ j \in (i + 1)..m
               /\ \A k \in (i + 1)..j :
                    IsHeading(lines[k]) => \A h \in (i + 1)..(k - 1) : lines[h] = Blank
    <2>1. j \in (i + 1)..m
      OBVIOUS
    <2>2. ASSUME NEW k \in (i + 1)..j, IsHeading(lines[k]), NEW h \in (i + 1)..(k - 1),
                 lines[h] # Blank
          PROVE  FALSE
      <3>1. lines[k] # Blank
        BY <2>2 DEF IsHeading, Blank
      <3>2. k \in filled /\ h \in filled /\ h < k /\ k <= j
        BY <2>1, <2>2, <3>1
      <3> QED
        BY <2>2, <3>2
    <2> QED
      BY <2>1, <2>2
  <1> HIDE DEF J
  <1>4. /\ Cardinality(J) \in Nat /\ DOMAIN Kept(lines, J) = 1..Cardinality(J)
        /\ \A n \in DOMAIN Kept(lines, J) : \E j \in J : Kept(lines, J)[n] = lines[j]
    BY <1>2, KeptFacts
  <1> QED
    BY <1>1, <1>3, <1>4

\* What is listed as criteria is from a list of criteria, if none of them is empty.
LEMMA ListedCriteria ==
    ASSUME NEW lines, NEW m \in Nat, DOMAIN lines = 1..m, ~HasEmptySection(lines),
           NEW n \in DOMAIN Items(NamedSection(lines, "criteria"))
    PROVE  \E j \in 1..m : /\ Items(NamedSection(lines, "criteria"))[n] = lines[j].text
                           /\ UnderCriteria(lines, j)
  <1> DEFINE starts == {i \in 1..m : lines[i].name = "criteria" /\ Block(lines, i) # <<>>}
             section == NamedSection(lines, "criteria")
  <1>1. section = IF starts = {} THEN <<>> ELSE Block(lines, Min(starts))
    BY DEF NamedSection
  <1>2. ASSUME NEW s, s = <<>>
        PROVE  DOMAIN Items(s) = {}
    <2> DEFINE J == {i \in DOMAIN s : IsItem(s[i])}
    <2>1. DOMAIN s = 1..0 /\ J = {} /\ J \in SUBSET (1..0)
      BY <1>2
    <2>2. Items(s) = Unique(Kept(TextsIn(s), J))
      BY DEF Items
    <2> HIDE DEF J
    <2>3. Items(s) = <<>>
      BY <2>1, <2>2, UniqueTexts
    <2> QED
      BY <2>3
  <1>3. starts # {}
    BY <1>1, <1>2
  <1>4. starts \in SUBSET (1..m)
    OBVIOUS
  <1>5. PICK i \in starts : section = Block(lines, i)
    <2> HIDE DEF starts
    <2> QED
      BY <1>1, <1>3, <1>4, LeastPosition
  <1>6. i \in 1..m /\ lines[i].name = "criteria"
    OBVIOUS
  <1> HIDE DEF section
  <1>7. PICK c \in Nat : DOMAIN section = 1..c
    BY <1>5, <1>6, BlockFacts
  <1>8. PICK k \in {d \in DOMAIN section : IsItem(section[d])} :
            Items(section)[n] = section[k].text
    <2> DEFINE J == {d \in DOMAIN section : IsItem(section[d])}
    <2>1. J \in SUBSET (1..c)
      BY <1>7
    <2>2. Items(section) = Unique(Kept(TextsIn(section), J))
      BY DEF Items
    <2>3. n \in DOMAIN Items(section)
      BY DEF section
    <2> HIDE DEF J
    <2>4. \A d \in DOMAIN Items(section) : \E k \in J : Items(section)[d] = section[k].text
      <3> DEFINE u == Unique(Kept(TextsIn(section), J))
      <3> HIDE DEF u
      <3>1. u = Unique(Kept(TextsIn(section), J))
        BY DEF u
      <3>2. \A d \in DOMAIN u : \E k \in J : u[d] = section[k].text
        BY <1>7, <2>1, <3>1, UniqueTexts, SMTT(30)
      <3> QED
        BY <2>2, <3>1, <3>2
    <2> QED
      BY <2>3, <2>4 DEF J
  <1>9. PICK j \in (i + 1)..m :
            /\ section[k] = lines[j]
            /\ \A h \in (i + 1)..j :
                IsHeading(lines[h]) => \A g \in (i + 1)..(h - 1) : lines[g] = Blank
    <2>1. \A d \in DOMAIN Block(lines, i) :
              \E j \in (i + 1)..m :
                  /\ Block(lines, i)[d] = lines[j]
                  /\ \A h \in (i + 1)..j :
                      IsHeading(lines[h]) => \A g \in (i + 1)..(h - 1) : lines[g] = Blank
      BY <1>6, BlockFacts, Zenon
    <2> QED
      BY <1>5, <1>8, <2>1
  <1>10. UnderCriteria(lines, j)
    <2>1. i \in 1..(j - 1) /\ IsItem(lines[j])
      BY <1>6, <1>8, <1>9
    <2>2. ASSUME NEW h \in (i + 1)..j, IsHeading(lines[h])
          PROVE  FALSE
      <3>1. h \in DOMAIN lines /\ i \in DOMAIN lines /\ i < h
        BY <1>6, <1>9, <2>2
      <3>2. \A g \in (i + 1)..(h - 1) : lines[g] = Blank
        BY <1>9, <2>2
      <3> QED
        BY <1>6, <2>2, <3>1, <3>2 DEF HasEmptySection
    <2> QED
      BY <1>6, <2>1, <2>2 DEF UnderCriteria
  <1> QED
    BY <1>6, <1>8, <1>9, <1>10 DEF section

\* A section without items lists nothing.
LEMMA ListedOrNot ==
    ASSUME NEW lines, NEW m \in Nat, DOMAIN lines = 1..m
    PROVE  LET listed == Items(NamedSection(lines, "criteria"))
           IN listed # <<>> => \E n : n \in DOMAIN listed
  <1> DEFINE starts == {i \in 1..m : lines[i].name = "criteria" /\ Block(lines, i) # <<>>}
             section == NamedSection(lines, "criteria")
  <1>1. section = IF starts = {} THEN <<>> ELSE Block(lines, Min(starts))
    BY DEF NamedSection
  <1>2. \E c \in Nat : DOMAIN section = 1..c
    <2>1. CASE starts = {}
      <3>1. DOMAIN section = 1..0
        BY <1>1, <2>1
      <3> QED
        BY <3>1
    <2>2. CASE starts # {}
      <3>1. Min(starts) \in 1..m
        <4>1. starts \in SUBSET (1..m)
          OBVIOUS
        <4> HIDE DEF starts
        <4> QED
          BY <2>2, <4>1, LeastPosition
      <3> QED
        BY <1>1, <2>2, <3>1, BlockFacts
    <2> QED
      BY <2>1, <2>2
  <1> HIDE DEF section
  <1>3. PICK c \in Nat : DOMAIN section = 1..c
    BY <1>2
  <1> DEFINE J == {d \in DOMAIN section : IsItem(section[d])}
             u == Unique(Kept(TextsIn(section), J))
  <1>4. J \in SUBSET (1..c) /\ Items(section) = u
    BY <1>3 DEF Items
  <1> HIDE DEF J
  <1>5. u # <<>> => \E n : n \in DOMAIN u
    <2>0. u = Unique(Kept(TextsIn(section), J))
      OBVIOUS
    <2> HIDE DEF u
    <2>1. u = <<>> <=> J = {}
      BY <1>3, <1>4, <2>0, UniqueTexts, ZenonT(60)
    <2>2. \A j \in J : \E n \in DOMAIN u : u[n] = section[j].text
      BY <1>3, <1>4, <2>0, UniqueTexts
    <2> QED
      BY <2>1, <2>2
  <1> QED
    BY <1>4, <1>5 DEF section

\* Of what is kept of a sequence, the start is a part.
LEMMA ShortenedFacts ==
    ASSUME NEW s, NEW c \in Nat, DOMAIN s = 1..c, s = [i \in 1..c |-> s[i]],
           NEW short, short = SubSeq(s, 1, Min({5, Len(s)}))
    PROVE  \E d \in 0..c : DOMAIN short = 1..d /\ \A i \in 1..d : short[i] = s[i]
  <1> DEFINE T == {s[i] : i \in 1..c}
  <1>1. s \in Seq(T) /\ Len(s) = c
    <2>1. s \in [1..c -> T]
      OBVIOUS
    <2> HIDE DEF T
    <2> QED
      BY <2>1
  <1> HIDE DEF T
  <1>2. Min({5, c}) = IF 5 <= c THEN 5 ELSE c
    BY DEF Min
  <1> DEFINE d == Min({5, c})
  <1>3. d \in 0..c
    BY <1>2
  <1>4. short = SubSeq(s, 1, d)
    BY <1>1
  <1> HIDE DEF d
  <1>5. DOMAIN short = 1..d /\ \A i \in 1..d : short[i] = s[i]
    <2>0. d \in 0..Len(s) /\ s \in Seq(T)
      BY <1>1, <1>3
    <2>1. DOMAIN SubSeq(s, 1, d) = 1..d
      BY <2>0
    <2>2. \A i \in 1..d : SubSeq(s, 1, d)[i] = s[i]
      BY <2>0
    <2> QED
      BY <1>4, <2>1, <2>2
  <1> QED
    BY <1>3, <1>5

\* Where the criteria of a text are from, and that no check box is lost.
LEMMA CriteriaFacts ==
    ASSUME NEW lines, NEW m \in Nat, DOMAIN lines = 1..m, ~HasEmptySection(lines),
           NEW criteria, criteria = ExtractAcceptanceCriteria(lines)
    PROVE  /\ \A n \in DOMAIN criteria :
                 criteria[n] # Title =>
                    \E j \in DOMAIN lines :
                        /\ lines[j].text = criteria[n]
                        /\ UnderCriteria(lines, j) \/ lines[j].mark = "box" \/ lines[j].must
           /\ \A j \in DOMAIN lines :
                 /\ lines[j].mark = "box"
                 /\ \A k \in DOMAIN lines : ~UnderCriteria(lines, k)
                 => \E n \in DOMAIN criteria : lines[j].text = criteria[n]
  <1> DEFINE listed == Items(NamedSection(lines, "criteria"))
             boxed == {i \in DOMAIN lines : lines[i].mark = "box"}
             musts == {i \in DOMAIN lines : lines[i].must}
             boxes == Unique(Kept(TextsIn(lines), boxed))
             sentences == Kept(TextsIn(lines), musts)
             short == SubSeq(sentences, 1, Min({5, Len(sentences)}))
  <1>1. criteria = IF listed # <<>> THEN listed
                   ELSE IF boxes # <<>> THEN boxes
                   ELSE IF sentences # <<>> THEN Unique(short)
                   ELSE <<Title>>
    <2>1. Boxes(lines) = boxes /\ Musts(lines) = sentences
      BY DEF Boxes, Musts
    <2> HIDE DEF boxes, sentences, listed
    <2> DEFINE l == Items(NamedSection(lines, "criteria"))
               b == Boxes(lines)
               s == Musts(lines)
               sh == SubSeq(s, 1, Min({5, Len(s)}))
    <2>2. criteria = CASE l # <<>> -> l
                       [] l = <<>> /\ b # <<>> -> b
                       [] l = <<>> /\ b = <<>> /\ s # <<>> -> Unique(sh)
                       [] OTHER -> <<Title>>
      BY DEF ExtractAcceptanceCriteria, DefaultCriteria
    <2>3. l = listed /\ b = boxes /\ s = sentences /\ sh = short
      BY <2>1 DEF listed
    <2> HIDE DEF l, b, s, sh, short
    <2> QED
      BY <2>2, <2>3
  <1>2. boxed \in SUBSET (1..m) /\ musts \in SUBSET (1..m)
    OBVIOUS
  <1>3. /\ \A n \in DOMAIN listed :
               \E j \in 1..m : listed[n] = lines[j].text /\ UnderCriteria(lines, j)
        /\ listed # <<>> => \E n : n \in DOMAIN listed
    BY ListedCriteria, ListedOrNot
  <1> HIDE DEF listed
  <1>4. /\ \A n \in DOMAIN boxes : \E j \in boxed : boxes[n] = lines[j].text
        /\ \A j \in boxed : \E n \in DOMAIN boxes : boxes[n] = lines[j].text
        /\ boxes = <<>> <=> boxed = {}
    <2>1. boxes = Unique(Kept(TextsIn(lines), boxed))
      OBVIOUS
    <2> HIDE DEF boxes, boxed
    <2>2. \A n \in DOMAIN boxes : \E j \in boxed : boxes[n] = lines[j].text
      BY <1>2, <2>1, UniqueTexts, SMTT(30)
    <2>3. \A j \in boxed : \E n \in DOMAIN boxes : boxes[n] = lines[j].text
      BY <1>2, <2>1, UniqueTexts, SMTT(30)
    <2>4. boxes = <<>> <=> boxed = {}
      BY <1>2, <2>1, UniqueTexts
    <2> QED
      BY <2>2, <2>3, <2>4
  <1>5. \A n \in DOMAIN Unique(short) : \E j \in musts : Unique(short)[n] = lines[j].text
    <2> HIDE DEF musts
    <2>1. PICK c \in Nat : c = Cardinality(musts) /\ DOMAIN sentences = 1..c
      BY <1>2, KeptFacts
    <2>2. \A n \in 1..c : \E j \in musts : sentences[n] = TextsIn(lines)[j]
      <3>1. \A n \in DOMAIN Kept(TextsIn(lines), musts) :
               \E j \in musts : Kept(TextsIn(lines), musts)[n] = TextsIn(lines)[j]
        BY <1>2, KeptFacts, Zenon
      <3> QED
        BY <2>1, <3>1
    <2>3. sentences = [i \in 1..c |-> sentences[i]]
      BY <2>1 DEF Kept
    <2> HIDE DEF sentences
    <2>4. PICK d \in 0..c : DOMAIN short = 1..d /\ \A i \in 1..d : short[i] = sentences[i]
      BY <2>1, <2>3, ShortenedFacts
    <2> HIDE DEF short
    <2>5. \A n \in DOMAIN Unique(short) : \E i \in 1..d : Unique(short)[n] = short[i]
      <3>1. d \in Nat /\ DOMAIN short = 1..d
        BY <2>1, <2>4
      <3> QED
        BY <3>1, UniqueFacts, Zenon
    <2>6. \A j \in musts : TextsIn(lines)[j] = lines[j].text
      BY <1>2 DEF TextsIn
    <2> SUFFICES ASSUME NEW n \in DOMAIN Unique(short)
                 PROVE  \E j \in musts : Unique(short)[n] = lines[j].text
      OBVIOUS
    <2>7. PICK i \in 1..d : Unique(short)[n] = short[i]
      BY <2>5
    <2>8. PICK j \in musts : sentences[i] = TextsIn(lines)[j]
      BY <2>2, <2>4
    <2> QED
      BY <2>4, <2>6, <2>7, <2>8
  <1> HIDE DEF boxes, sentences, short
  <1>6. ASSUME NEW n \in DOMAIN criteria, criteria[n] # Title
        PROVE  \E j \in DOMAIN lines :
                   /\ lines[j].text = criteria[n]
                   /\ UnderCriteria(lines, j) \/ lines[j].mark = "box" \/ lines[j].must
    <2>1. CASE listed # <<>>
      BY <1>1, <1>3, <1>6, <2>1
    <2>2. CASE listed = <<>> /\ boxes # <<>>
      BY <1>1, <1>4, <1>6, <2>2
    <2>3. CASE listed = <<>> /\ boxes = <<>> /\ sentences # <<>>
      BY <1>1, <1>5, <1>6, <2>3
    <2>4. CASE listed = <<>> /\ boxes = <<>> /\ sentences = <<>>
      <3>1. criteria = <<Title>>
        BY <1>1, <2>4
      <3> QED
        BY <1>6, <3>1
    <2> QED
      BY <2>1, <2>2, <2>3, <2>4
  <1>7. ASSUME NEW j \in DOMAIN lines, lines[j].mark = "box",
               \A k \in DOMAIN lines : ~UnderCriteria(lines, k)
        PROVE  \E n \in DOMAIN criteria : lines[j].text = criteria[n]
    <2>1. listed = <<>>
      BY <1>3, <1>7
    <2>2. j \in boxed
      BY <1>7
    <2> HIDE DEF boxed
    <2>3. boxes # <<>>
      BY <1>4, <2>2
    <2> QED
      BY <1>1, <1>4, <2>1, <2>2, <2>3
  <1> QED
    BY <1>6, <1>7

\* The criteria of every item that a webhook made are from the lists of criteria, the
\* check boxes or the sentences of its text that ask for something, for texts of any
\* length in which no section of criteria is empty.
THEOREM CriteriaAreKept == Spec => []CriteriaAreOfTheSource
  <1>1. IntakeInv => CriteriaAreOfTheSource
    <2> SUFFICES ASSUME IntakeInv, NEW i \in DOMAIN rows,
                        body[rows[i].by].route # "manual",
                        ~HasEmptySection(body[rows[i].by].lines)
                 PROVE  LET lines == body[rows[i].by].lines
                            criteria == rows[i].item.criteria
                            Says(n, j) == lines[j].text = criteria[n]
                        IN /\ \A n \in DOMAIN criteria :
                                criteria[n] # Title =>
                                    \E j \in DOMAIN lines :
                                        /\ Says(n, j)
                                        /\ \/ UnderCriteria(lines, j)
                                           \/ lines[j].mark = "box" \/ lines[j].must
                           /\ \A j \in DOMAIN lines :
                                /\ lines[j].mark = "box"
                                /\ \A k \in DOMAIN lines : ~UnderCriteria(lines, k)
                                => \E n \in DOMAIN criteria : Says(n, j)
      BY DEF CriteriaAreOfTheSource
    <2> DEFINE r == rows[i].by
               lines == body[r].lines
    <2>1. r \in Requests /\ rows[i].item = ItemOf(r) /\ body[r].route # "health"
      BY DEF IntakeInv, RowInv, NewRow
    <2>2. body[r].route \in {"outline", "gitlab"} /\ lines \in Seq(LineType \cup {Blank})
      BY <2>1, BodiesAssumption DEF IntakeInv, Control, BodyType
    <2>3. \E source : ItemOf(r) = ToWorkItem(source, body[r].words, lines)
      BY <2>2 DEF ItemOf
    <2>4. rows[i].item.criteria = ExtractAcceptanceCriteria(lines)
      BY <2>1, <2>3 DEF ToWorkItem
    <2>5. DOMAIN lines = 1..Len(lines) /\ Len(lines) \in Nat
      BY <2>2
    <2> QED
      BY <2>4, <2>5, CriteriaFacts
  <1> QED
    BY <1>1, IntakeInductive, PTL

-----------------------------------------------------------------------------
(* The safety half of EveryRequestEnds.                                     *)

IsOver(r, leg) == IF fan[r][leg] = "pending" THEN 0 ELSE 1

\* How far the handler of r is: its awaits, and those of its two tasks that are over.
Progress(r) ==
    CASE pc[r] = "idle" -> 0
      [] pc[r] = "connect" -> 1
      [] pc[r] \in {"insert", "ping"} -> 2
      [] pc[r] = "fanout" -> 3 + IsOver(r, "storage") + IsOver(r, "manager")
      [] pc[r] = "done" -> 6

\* A step of the handler of r takes it on, and no step takes it back.
MovesOn(r) ==
    /\ Receive(r) \/ TimedStep(r) => Progress(r)' > Progress(r)
    /\ Progress(r)' = Progress(r) \/ Progress(r)' > Progress(r)

LEMMA ProgressType ==
    ASSUME Control, NEW r \in Requests
    PROVE  Progress(r) \in 0..6 /\ (pc[r] # "done" => Progress(r) < 6)
  <1>1. pc[r] \in InFlightPoints \cup {"idle", "done"}
    BY DEF Control
  <1> QED
    BY <1>1 DEF Progress, InFlightPoints, IsOver

LEMMA ProgressRises ==
    ASSUME IntakeInv, NEW r \in Requests, Receive(r) \/ TimedStep(r)
    PROVE  Progress(r)' > Progress(r)
  <1>1. Control /\ body[r].check \in {"ok", "unsigned", "invalid"}
    BY BodiesAssumption DEF BodyType, IntakeInv, Control
  <1>2. Progress(r) \in 0..6 /\ (pc[r] # "done" => Progress(r) < 6)
    BY <1>1, ProgressType
  <1> USE <1>1 DEF Control, Goto, Reply, FirstQuery
  <1>3. CASE pc[r] # "done" /\ pc'[r] = "done"
    BY <1>2, <1>3 DEF Progress
  <1>4. CASE Receive(r) /\ pc'[r] # "done"
    <2>1. pc[r] = "idle" /\ pc'[r] \in {"connect", "insert", "ping"}
      BY <1>4 DEF Receive
    <2> QED
      BY <2>1 DEF Progress
  <1>5. CASE CreatePool(r) /\ pc'[r] # "done"
    BY <1>5 DEF CreatePool, Progress
  <1>6. CASE Insert(r) /\ pc'[r] # "done"
    BY <1>6 DEF Insert, Progress, IsOver
  <1>7. ASSUME NEW leg \in Legs, NEW outcome, Settle(r, leg, outcome), pc[r] = "fanout",
               fan[r][leg] = "pending", pc'[r] # "done"
        PROVE  Progress(r)' > Progress(r)
    <2>1. pc' = pc /\ fan'[r] = [fan[r] EXCEPT ![leg] = IF outcome = "ok" THEN "ok" ELSE "error"]
      BY <1>7 DEF Settle
    <2> QED
      BY <1>7, <2>1 DEF Progress, IsOver, Legs
  <1>8. CASE (Stage(r) \/ Notify(r)) /\ pc'[r] # "done"
    BY <1>7, <1>8 DEF Stage, Notify, Legs
  <1>9. CASE Ping(r) /\ pc'[r] # "done"
    BY <1>9 DEF Ping
  <1>10. pc[r] # "done"
    BY DEF Receive, TimedStep, CreatePool, Insert, Stage, Notify, Ping
  <1> QED
    BY <1>3, <1>4, <1>5, <1>6, <1>8, <1>9, <1>10 DEF TimedStep

\* Every step of a handler or of one of its two tasks brings its request nearer the
\* answer, and neither other requests nor a crash take it back: a request takes at most
\* five steps, and one that waits for its tasks waits for one that is not over.
THEOREM RequestsMoveOn ==
    Spec => /\ [][\A r \in Requests : MovesOn(r)]_vars
            /\ [](\A r \in Requests : pc[r] = "fanout" =>
                      \E leg \in Legs : fan[r][leg] = "pending")
  <1>1. IntakeInv /\ [Next]_vars => [\A r \in Requests : MovesOn(r)]_vars
    <2> SUFFICES ASSUME IntakeInv, Next, NEW r \in Requests, ~Receive(r), ~TimedStep(r)
                 PROVE  Progress(r)' = Progress(r) \/ Progress(r)' > Progress(r)
      BY ProgressRises DEF MovesOn
    <2>1. Control /\ (pc[r] # "done" => Progress(r) < 6)
      BY ProgressType DEF IntakeInv
    <2>2. ASSUME NEW q \in Requests, q # r, Receive(q) \/ TimedStep(q)
          PROVE  pc'[r] = pc[r] /\ fan'[r] = fan[r]
      BY <2>1, <2>2, OthersStay
    <2>3. CASE Crash /\ r \in InFlight
      <3>1. pc[r] # "done" /\ pc'[r] = "done"
        BY <2>3 DEF Crash, InFlight, InFlightPoints
      <3>2. Progress(r)' = 6
        BY <3>1 DEF Progress
      <3> QED
        BY <2>1, <3>1, <3>2
    <2>4. CASE Crash /\ r \notin InFlight
      BY <2>4 DEF Crash, Progress, IsOver
    <2>5. CASE UNCHANGED vars
      BY <2>5 DEF vars, Progress, IsOver
    <2> QED
      BY <2>2, <2>3, <2>4, <2>5 DEF Next, Quiescent, Progress, IsOver
  <1> DEFINE Waits == \A r \in Requests : pc[r] = "fanout" =>
                         \E leg \in Legs : fan[r][leg] = "pending"
  <1>2. Init => Waits
    BY DEF Init
  <1>3. IntakeInv /\ Waits /\ [Next]_vars => Waits'
    <2> SUFFICES ASSUME IntakeInv, Waits, Next, NEW r \in Requests, pc'[r] = "fanout"
                 PROVE  \E leg \in Legs : fan'[r][leg] = "pending"
      BY DEF vars
    <2>1. Control /\ FanInv(r) /\ body[r].check \in {"ok", "unsigned", "invalid"}
      BY BodiesAssumption DEF BodyType, IntakeInv, Control
    <2> USE <2>1 DEF Control, Goto, Reply, FirstQuery
    <2>2. CASE Receive(r) \/ CreatePool(r) \/ Ping(r)
      BY <2>2 DEF Receive, CreatePool, Ping
    <2>3. CASE Insert(r)
      BY <2>3 DEF Insert, FanInv, StoredBy, Legs
    <2>4. CASE Stage(r) \/ Notify(r)
      BY <2>4 DEF Stage, Notify, Settle, Legs
    <2>5. ASSUME NEW q \in Requests, q # r, Receive(q) \/ TimedStep(q)
          PROVE  \E leg \in Legs : fan'[r][leg] = "pending"
      BY <2>5, OthersStay
    <2>6. CASE Crash \/ UNCHANGED vars
      BY <2>6 DEF Crash, InFlight, vars
    <2> QED
      BY <2>2, <2>3, <2>4, <2>5, <2>6 DEF Next, TimedStep, Quiescent
  <1> QED
    BY <1>1, <1>2, <1>3, IntakeInductive, PTL DEF Spec

=============================================================================
