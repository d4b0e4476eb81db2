----------------------------- MODULE PolicyProofs -----------------------------
(***************************************************************************)
(* Theorems about PolicyBridge, for every set of evaluations, decisions,   *)
(* requests and policies.                                                  *)
(***************************************************************************)
EXTENDS PolicyGate, SumProofs, FiniteSetTheorems, TLAPS

\* The fields of a request that was sent.
LEMMA RequestFields ==
    ASSUME ControlTypeOK, NEW e \in Evaluations
    PROVE  /\ request[e] \in Requests
           /\ request[e].has_run \in BOOLEAN
           /\ request[e].scope["global"] = "global"
           /\ request[e].scope["workspace"] # Null
           /\ request[e].scope["work_item_kind"] # Null
  <1>1. request[e] \in Requests /\ request[e] \in RequestType
    BY RequestsAssumption DEF ControlTypeOK
  <1> QED
    BY <1>1, ScopesAssumption DEF RequestType

\* The fields of a policy.
LEMMA PolicyFields ==
    ASSUME NEW p \in Policies
    PROVE  /\ p.type \in ScopeTypes /\ p.id # Null
           /\ p.type = "global" => p.id = "global"
           /\ p.concurrency \in Nat \ {0}
  <1>1. p \in PolicyType
    BY PoliciesAssumption
  <1> QED
    BY <1>1, PoliciesAssumption, NullAssumption DEF PolicyType

\* What a step of an evaluation, of a decision, of the Manager leaves alone.
LEMMA Frame ==
    ASSUME ControlTypeOK, [Next]_vars
    PROVE  request' = request /\ ruling' = ruling
  BY DEF Next, vars, evaluation, decision, gates, runs, Evaluate, Receive, FetchPolicy,
         ReadSpend, ReadActive, QueryFails, Create, Notify, Crash, Decide, MakeRow,
         StartRun, EndRun, RecordCost, Reopen, Midnight, Quiescent

\* Every scope that e is evaluated in comes before or at its last.
LEMMA PositionInScope ==
    ASSUME ControlTypeOK, NEW e \in Evaluations, NEW p \in Policies, InScope(p, e)
    PROVE  /\ Position[p.type] \in 1..LastScope(e)
           /\ p.type = ScopeOrder[at[e]] <=> at[e] = Position[p.type]
           /\ at[e] = Position[p.type] => p \in Applicable(e)
  <1>1. /\ p.type \in ScopeTypes /\ request[e].scope[p.type] = p.id /\ p.id # Null
    BY RequestFields, PolicyFields DEF InScope
  <1>2. at[e] \in 1..4
    BY DEF ControlTypeOK
  <1>3. p.type = ScopeOrder[at[e]] <=> at[e] = Position[p.type]
    <2>1. \A n \in 1..4 : \A t \in ScopeTypes : t = ScopeOrder[n] <=> n = Position[t]
      BY DEF ScopeOrder, Position, ScopeTypes
    <2> QED
      BY <1>1, <1>2, <2>1
  <1>4. Position[p.type] \in 1..LastScope(e)
    BY <1>1 DEF Position, ScopeTypes, LastScope
  <1> QED
    BY <1>1, <1>2, <1>3, <1>4 DEF Applicable

-----------------------------------------------------------------------------
(* Type correctness.                                                        *)

\* A turn of the loop ends at a known point, in a known scope.
LEMMA AfterScopeType ==
    ASSUME ControlTypeOK, NEW e \in Evaluations, NEW exceeded \in SUBSET Limits,
           AfterScope(e, exceeded)
    PROVE  /\ pc' \in [Evaluations -> InFlightPoints \cup {"idle", "done"}]
           /\ at' \in [Evaluations -> 1..4]
           /\ violated' \in [Evaluations -> SUBSET Limits]
           /\ answer' \in [Evaluations -> Answers]
  <1> USE DEF AfterScope, ControlTypeOK
  <1>1. at[e] \in 1..4 /\ LastScope(e) \in {3, 4}
    BY DEF LastScope
  <1>2. violated' \in [Evaluations -> SUBSET Limits]
    OBVIOUS
  <1>3. CASE at[e] < LastScope(e)
    BY <1>1, <1>2, <1>3 DEF Goto, InFlightPoints
  <1>4. CASE ~(at[e] < LastScope(e)) /\ Goto(e, "create")
    BY <1>2, <1>4 DEF Goto, InFlightPoints
  <1>5. CASE ~(at[e] < LastScope(e))
             /\ \E what \in {"rejected", "approved"} : Reply(e, what)
    BY <1>2, <1>5 DEF Reply, Answers
  <1> QED
    BY <1>3, <1>4, <1>5

\* The control state is well typed initially ...
LEMMA InitType == Init => ControlTypeOK
  BY BoundsAssumption DEF Init, ControlTypeOK, Answers

\* ... and every step keeps it so.
LEMMA NextType == ControlTypeOK /\ [Next]_vars => ControlTypeOK'
  <1> SUFFICES ASSUME ControlTypeOK, [Next]_vars
               PROVE  ControlTypeOK'
    OBVIOUS
  <1> USE DEF decision, gates, runs
  <1>1. ASSUME NEW e \in Evaluations, FetchPolicy(e) PROVE ControlTypeOK'
    <2>1. CASE Applicable(e) = {} /\ AfterScope(e, violated[e]) /\ UNCHANGED asOf
      <3>1. violated[e] \in SUBSET Limits
        BY DEF ControlTypeOK
      <3> QED
        BY <1>1, <2>1, <3>1, AfterScopeType DEF FetchPolicy, ControlTypeOK
    <2>2. CASE Goto(e, "spend") /\ asOf' = [asOf EXCEPT ![e] = today]
               /\ UNCHANGED <<at, violated>>
      BY <1>1, <2>2 DEF FetchPolicy, Goto, ControlTypeOK, InFlightPoints
    <2> QED
      BY <1>1, <2>1, <2>2 DEF FetchPolicy
  <1>2. ASSUME NEW e \in Evaluations, ReadActive(e) PROVE ControlTypeOK'
    <2>1. PICK p \in Applicable(e) :
             AfterScope(e, violated[e] \cup
                           LimitsExceeded(p, e, spend[e], Cardinality(Active(p))))
      BY <1>2 DEF ReadActive
    <2>2. violated[e] \cup LimitsExceeded(p, e, spend[e], Cardinality(Active(p)))
             \in SUBSET Limits
      BY DEF ControlTypeOK, LimitsExceeded
    <2> QED
      BY <1>2, <2>1, <2>2, AfterScopeType DEF ReadActive, ControlTypeOK
  <1>3. ASSUME NEW e \in Evaluations,
               Receive(e) \/ ReadSpend(e) \/ QueryFails(e) \/ Notify(e) \/ Crash(e)
        PROVE  ControlTypeOK'
    <2>1. CASE Receive(e) \/ ReadSpend(e)
      BY <2>1 DEF Receive, ReadSpend, Goto, ControlTypeOK, InFlightPoints
    <2>2. CASE QueryFails(e)
      BY <2>2 DEF QueryFails, Reply, ControlTypeOK, Answers
    <2>3. CASE Notify(e)
      BY <2>3 DEF Notify, Reply, ControlTypeOK, Answers
    <2>4. CASE Crash(e)
      BY <2>4 DEF Crash, Reply, ControlTypeOK, Answers
    <2> QED
      BY <1>3, <2>1, <2>2, <2>3, <2>4
  <1>4. ASSUME NEW e \in Evaluations, Create(e) PROVE ControlTypeOK'
    BY <1>4 DEF Create, Goto, Reply, ControlTypeOK, InFlightPoints, Answers
  <1>5. ASSUME NEW d \in Decisions, Decide(d) PROVE ControlTypeOK'
    <2>1. ruling[d].approval \in Evaluations /\ ruling[d].verdict \in {"approved", "rejected"}
      BY DEF ControlTypeOK
    <2> QED
      BY <1>5, <2>1 DEF Decide, evaluation, ControlTypeOK
  <1>6. ASSUME NEW e \in Evaluations, MakeRow(e) \/ StartRun(e) PROVE ControlTypeOK'
    <2>1. CASE MakeRow(e)
      BY <2>1 DEF MakeRow, evaluation, ControlTypeOK
    <2>2. CASE StartRun(e)
      BY <2>2 DEF StartRun, evaluation, ControlTypeOK
    <2> QED
      BY <1>6, <2>1, <2>2
  <1>7. ASSUME NEW e \in Evaluations, EndRun(e) \/ RecordCost(e) \/ Reopen(e)
        PROVE  ControlTypeOK'
    <2>1. CASE EndRun(e)
      BY <2>1 DEF EndRun, evaluation, ControlTypeOK
    <2>2. CASE RecordCost(e)
      <3>1. 0..MaxCost \subseteq Nat
        BY BoundsAssumption
      <3>2. PICK settles \in BOOLEAN :
               run' = [run EXCEPT ![e] = IF settles /\ @ = "unsettled" THEN "ended" ELSE @]
        BY <2>2 DEF RecordCost
      <3>3. PICK c \in Nat : cost' = [cost EXCEPT ![e] = c]
        BY <2>2, <3>1 DEF RecordCost
      <3>4. run' \in [Evaluations -> {"none", "pending", "running", "unsettled", "ended"}]
        BY <3>2 DEF ControlTypeOK
      <3>5. cost' \in [Evaluations -> Nat]
        BY <3>3 DEF ControlTypeOK
      <3> QED
        BY <2>2, <3>4, <3>5 DEF RecordCost, evaluation, ControlTypeOK
    <2>3. CASE Reopen(e)
      BY <2>3, BoundsAssumption DEF Reopen, evaluation, ControlTypeOK
    <2> QED
      BY <1>7, <2>1, <2>2, <2>3
  <1>8. CASE Midnight
    BY <1>8, BoundsAssumption DEF Midnight, evaluation, ControlTypeOK
  <1>9. CASE UNCHANGED vars
    BY <1>9 DEF vars, evaluation, ControlTypeOK
  <1> QED
    BY <1>1, <1>2, <1>3, <1>4, <1>5, <1>6, <1>7, <1>8, <1>9 DEF Next, Evaluate, Quiescent

-----------------------------------------------------------------------------
(* What each point of the handler implies.                                  *)

\* After a turn of the loop the handler asks for a human, or has answered.
LEMMA AfterScopeInv ==
    ASSUME ControlTypeOK, NEW e \in Evaluations, NEW exceeded \in SUBSET Limits,
           EvaluationInv(e), pc[e] \in LoopPoints, AfterScope(e, exceeded),
           UNCHANGED <<request, gates, runs>>
    PROVE  EvaluationInv(e)'
  <1>1. request[e].has_run \in BOOLEAN /\ at[e] \in 1..4 /\ LastScope(e)' = LastScope(e)
        /\ LastScope(e) \in {3, 4} /\ AutoApproved(e)' = AutoApproved(e)
    BY RequestFields DEF LastScope, ControlTypeOK, AutoApproved
  <1> USE DEF EvaluationInv, LoopPoints, AfterScope, gates, runs, ControlTypeOK
  <1>2. CASE at[e] < LastScope(e)
    BY <1>1, <1>2 DEF Goto
  <1>3. CASE ~(at[e] < LastScope(e)) /\ exceeded # {}
    BY <1>1, <1>3 DEF Reply
  <1>4. CASE ~(at[e] < LastScope(e)) /\ exceeded = {} /\ AutoApproved(e)
    BY <1>1, <1>4 DEF Reply
  <1>5. CASE ~(at[e] < LastScope(e)) /\ exceeded = {} /\ ~AutoApproved(e)
    BY <1>1, <1>5 DEF Goto
  <1> QED
    BY <1>2, <1>3, <1>4, <1>5

\* A step of evaluation e, or of its run, keeps what the points of e imply.
LEMMA EvaluationStep ==
    ASSUME ControlTypeOK, NEW e \in Evaluations, EvaluationInv(e),
           Evaluate(e) \/ MakeRow(e) \/ StartRun(e) \/ EndRun(e) \/ RecordCost(e) \/ Reopen(e)
    PROVE  EvaluationInv(e)'
  <1>1. request[e].has_run \in BOOLEAN /\ at[e] \in 1..4 /\ violated[e] \in SUBSET Limits
    BY RequestFields DEF ControlTypeOK
  <1>2. request' = request
    BY DEF Evaluate, Receive, FetchPolicy, ReadSpend, ReadActive, QueryFails, Create,
           Notify, Crash, MakeRow, StartRun, EndRun, RecordCost, Reopen
  <1>3. LastScope(e)' = LastScope(e) /\ AutoApproved(e)' = AutoApproved(e)
    BY <1>2 DEF LastScope, AutoApproved
  <1> USE DEF decision, gates, runs, ControlTypeOK
  <1>4. CASE Receive(e)
    BY <1>1, <1>2, <1>3, <1>4 DEF Receive, Goto, EvaluationInv
  <1>5. CASE FetchPolicy(e)
    <2>1. CASE AfterScope(e, violated[e])
      BY <1>1, <1>5, <2>1, AfterScopeInv DEF FetchPolicy, LoopPoints
    <2>2. CASE Goto(e, "spend") /\ UNCHANGED <<at, violated>>
      BY <1>1, <1>2, <1>3, <1>5, <2>2 DEF FetchPolicy, Goto, EvaluationInv
    <2> QED
      BY <1>5, <2>1, <2>2 DEF FetchPolicy
  <1>6. CASE ReadSpend(e)
    BY <1>1, <1>2, <1>3, <1>6 DEF ReadSpend, Goto, EvaluationInv
  <1>7. CASE ReadActive(e)
    <2>1. PICK p \in Applicable(e) :
             AfterScope(e, violated[e] \cup
                           LimitsExceeded(p, e, spend[e], Cardinality(Active(p))))
      BY <1>7 DEF ReadActive
    <2>2. violated[e] \cup LimitsExceeded(p, e, spend[e], Cardinality(Active(p)))
             \in SUBSET Limits
      BY <1>1 DEF LimitsExceeded
    <2> QED
      BY <1>7, <2>1, <2>2, AfterScopeInv DEF ReadActive, LoopPoints
  <1>8. CASE QueryFails(e) \/ Notify(e) \/ Crash(e)
    <2>1. CASE QueryFails(e)
      BY <1>1, <1>2, <1>3, <2>1 DEF QueryFails, Reply, EvaluationInv
    <2>2. CASE Notify(e)
      BY <1>1, <1>2, <1>3, <2>2 DEF Notify, Reply, EvaluationInv
    <2>3. CASE Crash(e)
      BY <1>1, <1>2, <1>3, <2>3 DEF Crash, Reply, EvaluationInv, InFlightPoints
    <2> QED
      BY <1>8, <2>1, <2>2, <2>3
  <1>9. CASE Create(e)
    <2>1. /\ pc[e] = "create" /\ violated[e] = {} /\ ~AutoApproved(e)
          /\ approvals[e] = Null
          /\ at' = at /\ violated' = violated /\ run' = run
          /\ approvals'[e] \in {Null, "pending"}
      BY <1>9 DEF Create, EvaluationInv
    <2>2. CASE Reply(e, "error") \/ Reply(e, "unsure")
      BY <1>1, <1>2, <1>3, <2>1, <2>2 DEF Reply, EvaluationInv
    <2>3. CASE (RowsValidate /\ approvals'[e] = "pending")
               /\ (Goto(e, "notify") \/ Reply(e, "pending_approval"))
      BY <1>1, <1>2, <1>3, <2>1, <2>3, NullAssumption DEF Goto, Reply, EvaluationInv
    <2> QED
      BY <1>9, <2>1, <2>2, <2>3, FiniteAssumption DEF Create, Takes
  <1>10. CASE MakeRow(e) \/ StartRun(e) \/ EndRun(e) \/ RecordCost(e) \/ Reopen(e)
    <2>1. CASE MakeRow(e)
      BY <1>1, <1>2, <1>3, <2>1 DEF MakeRow, evaluation, EvaluationInv, Started
    <2>2. CASE StartRun(e)
      <3>1. pc[e] \in {"notify", "done"}
        BY <2>2, NullAssumption DEF StartRun, EvaluationInv
      <3> QED
        BY <1>1, <1>2, <1>3, <2>2, <3>1 DEF StartRun, evaluation, EvaluationInv
    <2>3. CASE EndRun(e) \/ RecordCost(e) \/ Reopen(e)
      BY <1>1, <1>2, <1>3, <2>3 DEF EndRun, RecordCost, Reopen, evaluation, EvaluationInv, Started
    <2> QED
      BY <1>10, <2>1, <2>2, <2>3
  <1> QED
    BY <1>4, <1>5, <1>6, <1>7, <1>8, <1>9, <1>10 DEF Evaluate

\* The state of evaluation e that its points are about.
View(e) == <<pc[e], at[e], violated[e], answer[e], approvals[e], run[e], created[e]>>

\* A step of one evaluation, or of its run, does not touch the others.
LEMMA OthersUntouched ==
    ASSUME ControlTypeOK, NEW e \in Evaluations,
           Evaluate(e) \/ MakeRow(e) \/ StartRun(e) \/ EndRun(e) \/ RecordCost(e) \/ Reopen(e)
    PROVE  \A o \in Evaluations \ {e} : View(o)' = View(o)
  BY DEF View, Evaluate, Receive, FetchPolicy, ReadSpend, ReadActive, QueryFails, Create,
         Notify, Crash, MakeRow, StartRun, EndRun, RecordCost, Reopen, AfterScope, Goto, Reply,
         ControlTypeOK,
         evaluation, decision, gates, runs

\* A decision changes an approval row that exists, and nothing else of an evaluation.
LEMMA DecideView ==
    ASSUME ControlTypeOK, NEW d \in Decisions, Decide(d), NEW e \in Evaluations
    PROVE  /\ UNCHANGED <<request, evaluation, runs>>
           /\ approvals[e] = Null <=> approvals'[e] = Null
  <1>1. ruling[d].approval \in Evaluations /\ ruling[d].verdict \in {"approved", "rejected"}
    BY DEF ControlTypeOK
  <1> QED
    BY <1>1, NullAssumption DEF Decide, ControlTypeOK

-----------------------------------------------------------------------------
(* The places of a policy.                                                  *)

\* The evaluations whose run may start, and the places of a policy, depend on
\* the view alone.
LEMMA ViewDecides ==
    ASSUME ControlTypeOK, request' = request, NEW e \in Evaluations, View(e)' = View(e)
    PROVE  /\ e \in Granting' <=> e \in Granting
           /\ \A p \in Policies : e \in Held(p)' <=> e \in Held(p)
           /\ EvaluationInv(e)' <=> EvaluationInv(e)
  BY DEF View, Granting, Held, InScope, Counted, EvaluationInv, LastScope, AutoApproved

\* Only Receive lets a further run start.
LEMMA GrantingShrinks ==
    ASSUME ControlTypeOK, \A e \in Evaluations : EvaluationInv(e), [Next]_vars,
           \A e \in Evaluations : ~Receive(e)
    PROVE  Granting' \subseteq Granting
  <1>1. request' = request
    BY Frame
  <1>2. ASSUME NEW e \in Evaluations,
               Evaluate(e) \/ MakeRow(e) \/ StartRun(e) \/ EndRun(e) \/ RecordCost(e) \/ Reopen(e)
        PROVE  Granting' \subseteq Granting
    <2>1. \A o \in Evaluations \ {e} : o \in Granting' <=> o \in Granting
      BY <1>1, <1>2, OthersUntouched, ViewDecides
    <2>2. e \in Granting' => e \in Granting
      <3>1. CASE Evaluate(e)
        <4>1. pc[e] \in InFlightPoints /\ run' = run
          BY <3>1 DEF Evaluate, FetchPolicy, ReadSpend, ReadActive, QueryFails, Create,
                      Notify, Crash, InFlightPoints, runs
        <4> QED
          BY <4>1 DEF Granting
      <3>2. CASE MakeRow(e)
        <4>1. answer[e] = "none" /\ approvals[e] = Null
          BY <3>2 DEF MakeRow, EvaluationInv
        <4> QED
          BY <3>2, <4>1 DEF MakeRow, Granting, evaluation, gates, InFlightPoints
      <3>3. CASE StartRun(e) \/ EndRun(e) \/ RecordCost(e) \/ Reopen(e)
        BY <3>3 DEF StartRun, EndRun, RecordCost, Reopen, Granting, ControlTypeOK
      <3> QED
        BY <1>2, <3>1, <3>2, <3>3
    <2> QED
      BY <2>1, <2>2 DEF Granting
  <1>3. ASSUME NEW d \in Decisions, Decide(d) PROVE Granting' \subseteq Granting
    BY <1>3, DecideView DEF Granting, evaluation, runs
  <1>4. CASE Midnight \/ UNCHANGED vars
    BY <1>4 DEF Midnight, vars, Granting, evaluation, gates, runs
  <1> QED
    BY <1>2, <1>3, <1>4 DEF Next, Quiescent

\* Only a count of active runs, or an ended run called running again, takes a place.
LEMMA HeldShrinks ==
    ASSUME ControlTypeOK, \A e \in Evaluations : EvaluationInv(e), [Next]_vars,
           \A e \in Evaluations : ~ReadActive(e) /\ ~Reopen(e), NEW p \in Policies
    PROVE  Held(p)' \subseteq Held(p)
  <1>1. request' = request
    BY Frame
  <1>2. ASSUME NEW e \in Evaluations,
               Evaluate(e) \/ MakeRow(e) \/ StartRun(e) \/ EndRun(e) \/ RecordCost(e)
        PROVE  Held(p)' \subseteq Held(p)
    <2>1. \A o \in Evaluations \ {e} : o \in Held(p)' <=> o \in Held(p)
      BY <1>1, <1>2, OthersUntouched, ViewDecides
    <2> SUFFICES ASSUME e \in Held(p)'
                 PROVE  e \in Held(p)
      BY <2>1 DEF Held
    <2>2. EvaluationInv(e) /\ InScope(p, e)
      BY <1>1 DEF Held, InScope
    <2>3. /\ Position[p.type] \in 1..LastScope(e) /\ LastScope(e) \in {3, 4}
          /\ at[e] \in 1..4
          /\ at[e] = Position[p.type] => p \in Applicable(e)
      BY <2>2, PositionInScope DEF LastScope, ControlTypeOK
    <2> USE DEF decision, gates, runs, ControlTypeOK
    <2>4. CASE Receive(e)
      <3>1. pc'[e] = "policy" /\ at'[e] = 1 /\ run' = run
        BY <2>2, <2>4 DEF Receive, Goto, EvaluationInv
      <3> QED
        BY <2>2, <2>3, <3>1 DEF Held, Counted, LoopPoints
    <2>5. CASE FetchPolicy(e)
      <3>1. /\ run' = run /\ violated'[e] = violated[e]
            /\ pc[e] = "policy" /\ pc[e] \in InFlightPoints
        BY <2>5 DEF FetchPolicy, AfterScope, InFlightPoints
      <3>2. CASE Goto(e, "spend") /\ UNCHANGED at
        BY <2>2, <3>1, <3>2 DEF Held, Counted, LoopPoints, Goto, Granting
      <3>3. CASE Applicable(e) = {} /\ AfterScope(e, violated[e])
        <4>1. at[e] > Position[p.type] \/ at[e] < Position[p.type]
          BY <2>3, <3>3
        <4>2. run[e] # "running" => Counted(p, e)'
          BY <3>1 DEF Held
        <4>3. at[e] < Position[p.type] => at'[e] = at[e] + 1 /\ pc'[e] = "policy"
          BY <2>3, <3>3 DEF AfterScope, Goto
        <4>4. run[e] # "running" => Counted(p, e)
          BY <2>3, <4>1, <4>2, <4>3 DEF Counted, LoopPoints
        <4> QED
          BY <2>2, <3>1, <4>4 DEF Held, Granting
      <3> QED
        BY <2>5, <3>2, <3>3 DEF FetchPolicy
    <2>6. CASE ReadSpend(e)
      BY <2>2, <2>6 DEF ReadSpend, Goto, Held, Counted, LoopPoints, Granting, InFlightPoints
    <2>7. CASE QueryFails(e) \/ Crash(e)
      <3>1. /\ run' = run /\ violated' = violated /\ approvals' = approvals
            /\ pc[e] \in InFlightPoints
            /\ answer'[e] \in {"error", "lost"} /\ pc'[e] = "done"
        BY <2>7 DEF QueryFails, Crash, Reply, InFlightPoints
      <3>2. CASE run[e] = "running"
        BY <2>2, <3>2 DEF Held
      <3>3. CASE run[e] # "running"
        <4>1. approvals[e] # Null /\ run[e] \in {"none", "pending"} /\ violated[e] = {}
          BY <3>1, <3>3 DEF Held, Granting, InFlightPoints
        <4>2. pc[e] = "notify"
          BY <2>2, <3>1, <4>1 DEF EvaluationInv, InFlightPoints
        <4> QED
          BY <2>2, <4>1, <4>2 DEF Held, Granting, Counted, LoopPoints
      <3> QED
        BY <3>2, <3>3
    <2>8. CASE Create(e) \/ Notify(e)
      BY <2>2, <2>8 DEF Create, Notify, Held, Counted, LoopPoints, Granting,
                        InFlightPoints, EvaluationInv
    <2>9. CASE MakeRow(e)
      BY <2>2, <2>9 DEF MakeRow, Held, Granting, InFlightPoints, EvaluationInv, evaluation
    <2>10. CASE StartRun(e)
      <3>1. /\ run[e] \in {"none", "pending"} /\ violated[e] = {} /\ pc[e] \notin LoopPoints \cup {"idle"}
            /\ answer[e] = "approved" \/ approvals[e] # Null
        BY <2>2, <2>10, NullAssumption DEF StartRun, EvaluationInv, LoopPoints
      <3> QED
        BY <2>2, <3>1 DEF Held, Granting, Counted
    <2>11. CASE EndRun(e)
      BY <2>2, <2>11 DEF EndRun, Held, Granting
    <2>12. CASE RecordCost(e)
      BY <2>2, <2>12 DEF RecordCost, Held, Granting, InScope, Counted, evaluation, gates
    <2> QED
      BY <1>2, <2>4, <2>5, <2>6, <2>7, <2>8, <2>9, <2>10, <2>11, <2>12 DEF Evaluate
  <1>3. ASSUME NEW d \in Decisions, Decide(d) PROVE Held(p)' \subseteq Held(p)
    BY <1>3, DecideView DEF Held, InScope, Counted, Granting, evaluation, runs
  <1>4. CASE Midnight \/ UNCHANGED vars
    BY <1>4 DEF Midnight, vars, Held, InScope, Counted, Granting, evaluation, gates, runs
  <1> QED
    BY <1>2, <1>3, <1>4 DEF Next, Quiescent

\* What p let past has been found to fit.
LEMMA LetPast ==
    ASSUME ControlTypeOK, \A e \in Evaluations : EvaluationInv(e),
           NEW e \in Evaluations, ReadActive(e), NEW p \in Policies,
           e \in Held(p)', e \notin Held(p)
    PROVE  /\ InScope(p, e) /\ pc[e] = "active" /\ at[e] = Position[p.type]
           /\ run[e] \in {"none", "pending"}
           /\ LimitsExceeded(p, e, spend[e], Cardinality(Active(p))) = {}
  <1>1. /\ request' = request /\ run' = run /\ approvals' = approvals
        /\ EvaluationInv(e) /\ pc[e] = "active"
    BY Frame DEF ReadActive, runs, gates, Next, Evaluate
  <1>3. PICK q \in Applicable(e) :
           AfterScope(e, violated[e] \cup
                         LimitsExceeded(q, e, spend[e], Cardinality(Active(q))))
    BY DEF ReadActive
  <1>4. InScope(p, e) /\ run[e] # "running" /\ Counted(p, e)' /\ violated'[e] = {}
        /\ run[e] \in {"none", "pending"}
    BY <1>1 DEF Held, InScope, Granting
  <1>5. violated[e] = {} /\ LimitsExceeded(q, e, spend[e], Cardinality(Active(q))) = {}
    BY <1>3, <1>4 DEF AfterScope, ControlTypeOK
  <1>6. e \in Granting
    BY <1>1, <1>4 DEF Granting, InFlightPoints
  <1>7. ~Counted(p, e)
    BY <1>4, <1>5, <1>6 DEF Held
  <1>8. /\ Position[p.type] \in 1..LastScope(e) /\ LastScope(e) \in {3, 4} /\ at[e] \in 1..4
        /\ at[e] = Position[p.type] => p \in Applicable(e)
    BY <1>4, PositionInScope DEF LastScope, ControlTypeOK
  <1>9. at[e] <= Position[p.type]
    BY <1>1, <1>7, <1>8 DEF Counted, LoopPoints
  <1>10. at[e] = Position[p.type]
    <2>1. at[e] < Position[p.type] => at'[e] = at[e] + 1 /\ pc'[e] = "policy"
      BY <1>3, <1>8 DEF AfterScope, Goto, ControlTypeOK
    <2> QED
      BY <1>4, <1>8, <1>9, <2>1 DEF Counted, LoopPoints
  <1>11. p = q
    BY <1>8, <1>10, PoliciesAssumption DEF Applicable
  <1> QED
    BY <1>1, <1>4, <1>5, <1>10, <1>11

\* A turn of the loop that counts the active runs of p lets e past only when
\* they are fewer than the limit.
LEMMA CountedMeansRoom ==
    ASSUME ControlTypeOK, \A e \in Evaluations : EvaluationInv(e),
           NEW e \in Evaluations, ReadActive(e), NEW p \in Policies
    PROVE  \/ Held(p)' \subseteq Held(p)
           \/ ~(Cardinality(Active(p)) >= p.concurrency)
  <1>1. request' = request /\ \A o \in Evaluations \ {e} : o \in Held(p)' <=> o \in Held(p)
    BY OthersUntouched, ViewDecides, Frame DEF Evaluate, Next
  <1> SUFFICES ASSUME e \in Held(p)', e \notin Held(p)
               PROVE  ~(Cardinality(Active(p)) >= p.concurrency)
    BY <1>1 DEF Held
  <1> QED
    BY LetPast DEF LimitsExceeded, Limits

\* The count of reopened runs never falls.
LEMMA ReopenedGrows ==
    ASSUME ControlTypeOK, [Next]_vars
    PROVE  reopened' = reopened \/ reopened' = reopened + 1
  BY DEF Next, vars, runs, Evaluate, Receive, FetchPolicy, ReadSpend, ReadActive,
         QueryFails, Create, Notify, Crash, Decide, MakeRow, StartRun, EndRun, RecordCost,
         Reopen, Midnight, Quiescent

\* The places of a policy stay within its bound.
LEMMA HeldStep ==
    ASSUME PolicyInv, [Next]_vars
    PROVE  Cardinality(Granting') <= MaxGrants /\ HeldIsBounded'
  <1>1. /\ ControlTypeOK /\ request' = request /\ MaxGrants \in Nat \ {0}
        /\ \A e \in Evaluations : EvaluationInv(e)
    BY Frame, BoundsAssumption DEF PolicyInv
  <1>2. /\ IsFiniteSet(Granting) /\ IsFiniteSet(Granting')
        /\ \A p \in Policies : /\ IsFiniteSet(Held(p)) /\ IsFiniteSet(Held(p)')
                               /\ IsFiniteSet(Active(p))
    BY FiniteAssumption, FS_Subset DEF Granting, Held, Active
  <1>3. Cardinality(Granting') <= MaxGrants
    <2>1. CASE \A e \in Evaluations : ~Receive(e)
      BY <1>1, <1>2, <2>1, GrantingShrinks, FS_Subset, FS_CardinalityType DEF PolicyInv
    <2>2. ASSUME NEW e \in Evaluations, Receive(e)
          PROVE  Cardinality(Granting') <= MaxGrants
      <3>1. \A o \in Evaluations \ {e} : o \in Granting' <=> o \in Granting
        BY <1>1, <2>2, OthersUntouched, ViewDecides DEF Evaluate
      <3>2. Granting' \subseteq Granting \cup {e}
        BY <3>1 DEF Granting
      <3>3. /\ IsFiniteSet(Granting \cup {e})
            /\ Cardinality(Granting \cup {e}) <= Cardinality(Granting) + 1
        <4>1. Cardinality(Granting) \in Nat
          BY <1>2, FS_CardinalityType
        <4>2. /\ IsFiniteSet(Granting \cup {e})
              /\ Cardinality(Granting \cup {e}) =
                    IF e \in Granting THEN Cardinality(Granting) ELSE Cardinality(Granting) + 1
          BY <1>2, FS_AddElement
        <4> QED
          BY <4>1, <4>2
      <3>4. Cardinality(Granting') <= Cardinality(Granting \cup {e})
        BY <3>2, <3>3, FS_Subset
      <3> QED
        BY <1>1, <1>2, <2>2, <3>3, <3>4, FS_CardinalityType DEF Receive
    <2> QED
      BY <2>1, <2>2
  <1>4. ASSUME NEW p \in Policies
        PROVE  /\ Cardinality(Held(p)') <= p.concurrency + MaxGrants - 1 + reopened'
               /\ (\A e \in Evaluations : InScope(p, e) => request[e].has_run)
                      => Cardinality(Held(p)') <= p.concurrency - 1 + reopened'
    <2>1. p.concurrency \in Nat \ {0} /\ reopened \in Nat
      BY <1>1, PolicyFields, BoundsAssumption DEF ControlTypeOK
    <2>2. /\ Cardinality(Held(p)) \in Nat /\ Cardinality(Held(p)') \in Nat
          /\ Cardinality(Active(p)) \in Nat
      BY <1>2, FS_CardinalityType
    <2>3. CASE Held(p)' \subseteq Held(p)
      <3>1. Cardinality(Held(p)') <= Cardinality(Held(p))
        BY <1>2, <2>3, FS_Subset
      <3>2. reopened' = reopened \/ reopened' = reopened + 1
        BY <1>1, ReopenedGrows
      <3> QED
        BY <1>1, <2>1, <2>2, <3>1, <3>2 DEF PolicyInv, HeldIsBounded
    <2>5. ASSUME NEW e \in Evaluations, Reopen(e)
          PROVE  /\ Cardinality(Held(p)') <= Cardinality(Held(p)) + 1
                 /\ reopened' = reopened + 1
      <3>1. \A o \in Evaluations \ {e} : o \in Held(p)' <=> o \in Held(p)
        BY <1>1, <2>5, OthersUntouched, ViewDecides
      <3>2. Held(p)' \subseteq Held(p) \cup {e}
        BY <3>1 DEF Held
      <3>3. /\ IsFiniteSet(Held(p) \cup {e})
            /\ Cardinality(Held(p) \cup {e}) =
                  IF e \in Held(p) THEN Cardinality(Held(p)) ELSE Cardinality(Held(p)) + 1
        BY <1>2, FS_AddElement
      <3>4. Cardinality(Held(p)') <= Cardinality(Held(p) \cup {e})
        BY <3>2, <3>3, FS_Subset
      <3> QED
        BY <2>2, <2>5, <3>3, <3>4 DEF Reopen
    <2>6. CASE \E e \in Evaluations : Reopen(e)
      BY <1>1, <2>1, <2>2, <2>5, <2>6 DEF PolicyInv, HeldIsBounded
    <2>4. CASE ~(Held(p)' \subseteq Held(p)) /\ \A e \in Evaluations : ~Reopen(e)
      <3>1. PICK e \in Evaluations : ReadActive(e)
        BY <1>1, <2>4, HeldShrinks
      <3>10. reopened' = reopened
        BY <3>1 DEF ReadActive, runs
      <3>2. Cardinality(Active(p)) < p.concurrency
        BY <1>1, <2>1, <2>2, <2>4, <3>1, CountedMeansRoom
      <3>3. run' = run /\ Granting' \subseteq Granting
        <4>1. run' = run /\ pc[e] \in InFlightPoints
          BY <3>1 DEF ReadActive, runs, InFlightPoints
        <4>2. \A o \in Evaluations \ {e} : o \in Granting' <=> o \in Granting
          BY <1>1, <3>1, OthersUntouched, ViewDecides DEF Evaluate
        <4> QED
          BY <4>1, <4>2 DEF Granting
      <3>4. Held(p)' \subseteq Active(p) \cup Granting
        BY <1>1, <3>3 DEF Held, Active, InScope
      <3>5. Cardinality(Held(p)') <= Cardinality(Active(p) \cup Granting)
        BY <1>2, <3>4, FS_Subset, FS_Union
      <3>6. Cardinality(Active(p) \cup Granting) <= Cardinality(Active(p)) + Cardinality(Granting)
        <4>1. /\ Cardinality(Active(p)) \in Nat /\ Cardinality(Granting) \in Nat
              /\ Cardinality(Active(p) \cap Granting) \in Nat
          BY <1>2, FS_CardinalityType, FS_Intersection
        <4>2. Cardinality(Active(p) \cup Granting) =
                 Cardinality(Active(p)) + Cardinality(Granting)
                    - Cardinality(Active(p) \cap Granting)
          BY <1>2, FS_Union
        <4> QED
          BY <4>1, <4>2
      <3>7. ASSUME \A o \in Evaluations : InScope(p, o) => request[o].has_run
            PROVE  Held(p)' \subseteq Active(p)
        <4>1. \A o \in Evaluations : EvaluationInv(o)'
          <5>1. EvaluationInv(e)'
            BY <1>1, <3>1, EvaluationStep DEF Evaluate
          <5> QED
            BY <1>1, <3>1, <5>1, OthersUntouched, ViewDecides DEF Evaluate
        <4>2. \A o \in Held(p)' : /\ o \in Evaluations /\ InScope(p, o)
                                  /\ run[o] # "running" => run[o] = "pending"
          <5> TAKE o \in Held(p)'
          <5>1. o \in Evaluations /\ InScope(p, o) /\ request[o].has_run
            BY <1>1, <3>7 DEF Held, InScope
          <5>2. CASE o \in Granting'
            <6>1. pc'[o] # "idle"
              BY <4>1, <5>1, <5>2 DEF Granting, EvaluationInv, InFlightPoints
            <6> QED
              BY <1>1, <3>3, <4>1, <5>1, <5>2, <6>1 DEF EvaluationInv, Granting
          <5>3. CASE o \notin Granting'
            BY <3>3, <5>1, <5>3 DEF Held
          <5> QED
            BY <5>1, <5>2, <5>3
        <4> QED
          BY <4>2 DEF Active
      <3>8. (\A o \in Evaluations : InScope(p, o) => request[o].has_run)
               => Cardinality(Held(p)') <= Cardinality(Active(p))
        BY <1>2, <3>7, FS_Subset
      <3>9. Cardinality(Granting) \in Nat /\ Cardinality(Active(p) \cup Granting) \in Nat
        BY <1>2, FS_CardinalityType, FS_Union
      <3> QED
        BY <1>1, <2>1, <2>2, <3>2, <3>5, <3>6, <3>8, <3>9, <3>10 DEF PolicyInv
    <2> QED
      BY <2>3, <2>4, <2>6
  <1> QED
    BY <1>1, <1>3, <1>4 DEF HeldIsBounded, InScope

-----------------------------------------------------------------------------
(* The theorems.                                                            *)

\* The strengthening holds at the start.
LEMMA PolicyInit ==
    ASSUME Init
    PROVE  PolicyInv
  <1>1. ControlTypeOK
    BY InitType
  <1>2. \A e \in Evaluations : EvaluationInv(e)
    BY DEF Init, EvaluationInv, LastScope, Started
  <1>3. Granting = {} /\ \A p \in Policies : Held(p) = {}
    BY DEF Init, Granting, Held, InFlightPoints
  <1>4. Cardinality({}) = 0 /\ reopened = 0
    BY FS_EmptySet DEF Init
  <1>5. HeldIsBounded
    <2> SUFFICES ASSUME NEW p \in Policies
                 PROVE  /\ 0 <= p.concurrency + MaxGrants - 1 + reopened
                        /\ 0 <= p.concurrency - 1 + reopened
      BY <1>3, <1>4 DEF HeldIsBounded
    <2>1. p.concurrency \in Nat \ {0}
      BY PolicyFields
    <2> QED
      BY <1>4, <2>1, BoundsAssumption
  <1>6. Cardinality(Granting) <= MaxGrants
    BY <1>3, <1>4, BoundsAssumption
  <1> QED
    BY <1>1, <1>2, <1>5, <1>6 DEF PolicyInv

\* Every step keeps it.
LEMMA PolicyStep ==
    ASSUME PolicyInv, [Next]_vars
    PROVE  PolicyInv'
  <1>1. ControlTypeOK /\ ControlTypeOK' /\ request' = request
    BY NextType, Frame DEF PolicyInv
  <1>2. \A e \in Evaluations : EvaluationInv(e)'
    <2> TAKE e \in Evaluations
    <2>1. EvaluationInv(e)
      BY DEF PolicyInv
    <2>2. CASE Evaluate(e) \/ MakeRow(e) \/ StartRun(e) \/ EndRun(e) \/ RecordCost(e) \/ Reopen(e)
      BY <1>1, <2>1, <2>2, EvaluationStep
    <2>3. ASSUME NEW o \in Evaluations \ {e},
                 Evaluate(o) \/ MakeRow(o) \/ StartRun(o) \/ EndRun(o) \/ RecordCost(o) \/ Reopen(o)
          PROVE  EvaluationInv(e)'
      BY <1>1, <2>1, <2>3, OthersUntouched, ViewDecides
    <2>4. ASSUME NEW d \in Decisions, Decide(d) PROVE EvaluationInv(e)'
      BY <1>1, <2>1, <2>4, DecideView DEF EvaluationInv, LastScope, AutoApproved, evaluation, runs
    <2>5. CASE Midnight \/ UNCHANGED vars
      BY <2>1, <2>5
      DEF Midnight, vars, EvaluationInv, LastScope, AutoApproved, evaluation, gates, runs
    <2> QED
      BY <2>2, <2>3, <2>4, <2>5 DEF Next, Quiescent
  <1> QED
    BY <1>1, <1>2, HeldStep DEF PolicyInv

\* The inductive invariant: the control state is well typed, each point of the
\* handler implies what it should, and the places of each policy are bounded.
THEOREM PolicyInductive == Spec => []PolicyInv
  <1>1. Init => PolicyInv
    BY PolicyInit
  <1>2. PolicyInv /\ [Next]_vars => PolicyInv'
    BY PolicyStep
  <1> QED
    BY <1>1, <1>2, PTL DEF Spec

\* The running runs of a scope hold places of it.
LEMMA RunningIsHeld ==
    ASSUME NEW p \in Policies, PolicyInv
    PROVE  /\ Cardinality(Running(p)) \in Nat /\ Cardinality(Held(p)) \in Nat
           /\ Cardinality(Running(p)) <= Cardinality(Held(p))
  <1>1. Running(p) \subseteq Held(p) /\ Held(p) \subseteq Evaluations
    BY DEF Running, Held
  <1> QED
    BY <1>1, FiniteAssumption, FS_Subset, FS_CardinalityType

\* A concurrency limit is overrun by fewer runs than there are evaluations
\* between the check and the start of their run, for any limits and policies.
THEOREM OverrunBounded == Spec => []OverrunIsBounded
  <1>1. PolicyInv => OverrunIsBounded
    BY RunningIsHeld, PolicyFields, BoundsAssumption
    DEF PolicyInv, HeldIsBounded, OverrunIsBounded, ControlTypeOK
  <1> QED
    BY <1>1, PolicyInductive, PTL

\* When rows are made before their evaluation the limit is never reached.
THEOREM RowsFirst == Spec => []RowsFirstNeverFillAScope
  <1>1. PolicyInv => RowsFirstNeverFillAScope
    BY RunningIsHeld, PolicyFields, BoundsAssumption
    DEF PolicyInv, HeldIsBounded, RowsFirstNeverFillAScope, ControlTypeOK
  <1> QED
    BY <1>1, PolicyInductive, PTL

\* Budgets are decided before the approval gate.
THEOREM BudgetsFirst == Spec => []GatesFollowBudgets
  <1>1. PolicyInv => GatesFollowBudgets
    BY DEF PolicyInv, EvaluationInv, GatesFollowBudgets
  <1> QED
    BY <1>1, PolicyInductive, PTL

-----------------------------------------------------------------------------
(* Decisions.                                                               *)

\* The rows and the decisions agree, and each decided row names a request that
\* was answered.
GateInv ==
    /\ AnsweredGatesAreDurable
    /\ \A e \in Evaluations : decidedBy[e] # Null =>
           decidedBy[e] \in Decisions /\ told[decidedBy[e]] \in {"recorded", "error"}
    /\ StartedRunsWereCleared

\* A request that decides keeps the rows and the decisions in agreement.
LEMMA DecideKeepsGates ==
    ASSUME PolicyInv, GateInv, NEW d \in Decisions, Decide(d)
    PROVE  GateInv'
  <1> DEFINE e == ruling[d].approval
  <1>1. /\ ControlTypeOK /\ e \in Evaluations
        /\ ruling[d].verdict \in {"approved", "rejected"}
        /\ ruling[d] = [approval |-> e, verdict |-> ruling[d].verdict]
    BY DEF PolicyInv, ControlTypeOK
  <1>2. /\ told[d] = "none" /\ told'[d] \in {"recorded", "not_found", "error"}
        /\ \A o \in Decisions \ {d} : told'[o] = told[o]
        /\ ruling' = ruling /\ UNCHANGED <<request, evaluation, runs>>
    BY <1>1 DEF Decide, ControlTypeOK
  <1>3. \/ /\ approvals' = [approvals EXCEPT ![e] = ruling[d].verdict]
           /\ decidedBy' = [decidedBy EXCEPT ![e] = d]
           /\ approvals[e] # Null /\ told'[d] \in {"recorded", "error"}
        \/ /\ approvals' = approvals /\ decidedBy' = decidedBy
           /\ told'[d] \in {"not_found", "error"}
    BY <1>1 DEF Decide, Outcomes, Takes, ControlTypeOK
  <1>4. \A x \in Evaluations : decidedBy'[x] # Null =>
           decidedBy'[x] \in Decisions /\ told'[decidedBy'[x]] \in {"recorded", "error"}
    BY <1>1, <1>2, <1>3 DEF GateInv, ControlTypeOK
  <1>5. AnsweredGatesAreDurable'
    <2>1. \A x \in Evaluations : answer'[x] = "pending_approval" => approvals'[x] # Null
      BY <1>1, <1>2, <1>3, NullAssumption
      DEF GateInv, AnsweredGatesAreDurable, evaluation, ControlTypeOK
    <2>2. \A o \in Decisions : told'[o] = "recorded" =>
             approvals'[ruling[o].approval] \in {"approved", "rejected"}
      <3> TAKE o \in Decisions
      <3>1. ruling[o].approval \in Evaluations
        BY <1>1 DEF ControlTypeOK
      <3> QED
        BY <1>1, <1>2, <1>3, <3>1 DEF GateInv, AnsweredGatesAreDurable, ControlTypeOK
    <2>3. \A x \in Evaluations : approvals'[x] \in {"approved", "rejected"} =>
             /\ decidedBy'[x] # Null
             /\ ruling[decidedBy'[x]] = [approval |-> x, verdict |-> approvals'[x]]
      BY <1>1, <1>3, NullAssumption DEF GateInv, AnsweredGatesAreDurable, ControlTypeOK
    <2> QED
      BY <1>2, <2>1, <2>2, <2>3 DEF AnsweredGatesAreDurable
  <1>6. StartedRunsWereCleared'
    BY <1>2 DEF GateInv, StartedRunsWereCleared, Started, evaluation, runs
  <1> QED
    BY <1>4, <1>5, <1>6 DEF GateInv

\* A run starts only after it was let through.
LEMMA StartIsCleared ==
    ASSUME PolicyInv, GateInv, NEW e \in Evaluations, StartRun(e)
    PROVE  /\ violated[e] = {}
           /\ <<request[e].approval_policy, request[e].risk_level>> \in HumanCells =>
                  \E d \in Decisions : /\ ruling[d] = [approval |-> e, verdict |-> "approved"]
                                       /\ told[d] \in {"recorded", "error"}
  <1>1. EvaluationInv(e) /\ ControlTypeOK
    BY DEF PolicyInv
  <1>2. CASE answer[e] = "approved"
    BY <1>1, <1>2 DEF EvaluationInv, AutoApproved, IsAutoApproved, HumanCells
  <1>3. CASE approvals[e] = "approved"
    BY <1>1, <1>3, NullAssumption
    DEF GateInv, AnsweredGatesAreDurable, EvaluationInv
  <1> QED
    BY <1>2, <1>3 DEF StartRun

\* Steps of an evaluation and of its run keep the agreement.
LEMMA EvaluationKeepsGates ==
    ASSUME PolicyInv, GateInv, NEW e \in Evaluations,
           Evaluate(e) \/ MakeRow(e) \/ StartRun(e) \/ EndRun(e) \/ RecordCost(e) \/ Reopen(e)
    PROVE  GateInv'
  <1>1. ControlTypeOK /\ EvaluationInv(e)
    BY DEF PolicyInv
  <1>2. UNCHANGED <<request, ruling, told, decidedBy>>
    BY DEF Evaluate, Receive, FetchPolicy, ReadSpend, ReadActive, QueryFails, Create,
           Notify, Crash, MakeRow, StartRun, EndRun, RecordCost, Reopen, decision, gates
  <1>3. \A o \in Evaluations \ {e} : /\ answer'[o] = answer[o] /\ run'[o] = run[o]
                                     /\ approvals'[o] = approvals[o]
                                     /\ violated'[o] = violated[o]
    BY <1>1, OthersUntouched DEF View
  <1>4. approvals'[e] = approvals[e] \/ (approvals[e] = Null /\ approvals'[e] = "pending")
    <2>1. CASE Create(e)
      BY <1>1, <2>1 DEF Create, EvaluationInv, ControlTypeOK
    <2>2. CASE ~Create(e)
      BY <2>2 DEF Evaluate, Receive, FetchPolicy, ReadSpend, ReadActive, QueryFails,
                  Notify, Crash, MakeRow, StartRun, EndRun, RecordCost, Reopen, gates
    <2> QED
      BY <2>1, <2>2
  <1>5. answer'[e] = "pending_approval" => approvals'[e] # Null
    <2>1. CASE FetchPolicy(e) \/ ReadActive(e)
      <3>1. answer'[e] \in {answer[e], "rejected", "approved"} /\ answer[e] = "none"
        BY <1>1, <2>1
        DEF FetchPolicy, ReadActive, AfterScope, Goto, Reply, ControlTypeOK, EvaluationInv
      <3> QED
        BY <3>1
    <2>2. CASE Create(e)
      BY <1>1, <2>2, NullAssumption DEF Create, Goto, Reply, ControlTypeOK, Takes, EvaluationInv
    <2>3. CASE Notify(e)
      BY <1>1, <2>3 DEF Notify, EvaluationInv, gates
    <2>4. CASE Receive(e) \/ ReadSpend(e)
      BY <1>1, <2>4 DEF Receive, ReadSpend, Goto, EvaluationInv
    <2>5. CASE QueryFails(e) \/ Crash(e)
      BY <1>1, <2>5 DEF QueryFails, Crash, Reply, ControlTypeOK
    <2>6. CASE MakeRow(e) \/ StartRun(e) \/ EndRun(e) \/ RecordCost(e) \/ Reopen(e)
      BY <2>6 DEF MakeRow, StartRun, EndRun, RecordCost, Reopen, evaluation, gates, GateInv,
                  AnsweredGatesAreDurable
    <2> QED
      BY <2>1, <2>2, <2>3, <2>4, <2>5, <2>6 DEF Evaluate
  <1>6. AnsweredGatesAreDurable'
    <2>1. \A d \in Decisions : ruling[d].approval \in Evaluations
      BY <1>1 DEF ControlTypeOK
    <2> QED
      BY <1>2, <1>3, <1>4, <1>5, <2>1, NullAssumption DEF GateInv, AnsweredGatesAreDurable
  <1>7. StartedRunsWereCleared'
    <2> SUFFICES run'[e] \in Started =>
                    /\ violated'[e] = {}
                    /\ <<request[e].approval_policy, request[e].risk_level>> \in HumanCells =>
                          \E d \in Decisions :
                             /\ ruling[d] = [approval |-> e, verdict |-> "approved"]
                             /\ told[d] \in {"recorded", "error"}
      BY <1>2, <1>3 DEF GateInv, StartedRunsWereCleared, Started
    <2>1. CASE Evaluate(e)
      <3>1. run' = run
        BY <2>1 DEF Evaluate, Receive, FetchPolicy, ReadSpend, ReadActive, QueryFails,
                    Create, Notify, Crash, runs
      <3>2. run[e] \in Started => violated'[e] = violated[e]
        <4>1. CASE pc[e] \in LoopPoints \cup {"idle", "create"}
          BY <1>1, <4>1 DEF EvaluationInv, LoopPoints
        <4>2. CASE pc[e] \notin LoopPoints \cup {"idle", "create"}
          BY <2>1, <4>2 DEF Evaluate, Receive, FetchPolicy, ReadSpend, ReadActive, QueryFails,
                            Create, Notify, Crash, LoopPoints
        <4> QED
          BY <4>1, <4>2
      <3> QED
        BY <3>1, <3>2 DEF GateInv, StartedRunsWereCleared, Started
    <2>2. CASE MakeRow(e)
      BY <1>1, <2>2 DEF MakeRow, ControlTypeOK, Started
    <2>3. CASE StartRun(e)
      BY <2>3, StartIsCleared DEF StartRun, evaluation
    <2>4. CASE EndRun(e) \/ RecordCost(e) \/ Reopen(e)
      BY <1>1, <2>4
      DEF EndRun, RecordCost, Reopen, evaluation, GateInv, StartedRunsWereCleared, Started, ControlTypeOK
    <2> QED
      BY <2>1, <2>2, <2>3, <2>4
  <1> QED
    BY <1>2, <1>6, <1>7 DEF GateInv

\* The agreement holds at the start and every step keeps it.
THEOREM GatesInductive == Spec => [](PolicyInv /\ GateInv)
  <1>1. Init => GateInv
    BY NullAssumption DEF Init, GateInv, AnsweredGatesAreDurable, StartedRunsWereCleared, Started
  <1>2. PolicyInv /\ GateInv /\ [Next]_vars => GateInv'
    <2> SUFFICES ASSUME PolicyInv, GateInv, [Next]_vars
                 PROVE  GateInv'
      OBVIOUS
    <2>1. ASSUME NEW e \in Evaluations,
               Evaluate(e) \/ MakeRow(e) \/ StartRun(e) \/ EndRun(e) \/ RecordCost(e) \/ Reopen(e)
          PROVE  GateInv'
      BY <2>1, EvaluationKeepsGates
    <2>2. ASSUME NEW d \in Decisions, Decide(d) PROVE GateInv'
      BY <2>2, DecideKeepsGates
    <2>3. CASE Midnight \/ UNCHANGED vars
      BY <2>3 DEF Midnight, vars, evaluation, decision, gates, runs, GateInv,
                  AnsweredGatesAreDurable, StartedRunsWereCleared, Started
    <2> QED
      BY <2>1, <2>2, <2>3 DEF Next, Quiescent
  <1> QED
    BY <1>1, <1>2, PolicyInductive, PTL DEF Spec

\* Whoever was told of a pending approval, or of a recorded decision, can find
\* the row, and every decided row names the request that decided it.
THEOREM GatesDurable == Spec => []AnsweredGatesAreDurable
  <1>1. GateInv => AnsweredGatesAreDurable
    BY DEF GateInv
  <1> QED
    BY <1>1, GatesInductive, PTL

\* A run that has started passed every budget and the gate.
THEOREM RunsCleared == Spec => []StartedRunsWereCleared
  <1>1. GateInv => StartedRunsWereCleared
    BY DEF GateInv
  <1> QED
    BY <1>1, GatesInductive, PTL

\* A decided row stays decided, and only a request that names it changes it.
THEOREM DecisionsStay == Spec => DecidedStaysDecided
  <1> DEFINE Stays == \A e \in Evaluations :
                approvals[e] \in {"approved", "rejected"} /\ approvals'[e] # approvals[e] =>
                    /\ approvals'[e] \in {"approved", "rejected"}
                    /\ \E d \in Decisions : ruling[d].approval = e /\ told'[d] # told[d]
  <1>1. PolicyInv /\ [Next]_vars => [Stays]_vars
    <2> SUFFICES ASSUME PolicyInv, [Next]_vars PROVE Stays
      OBVIOUS
    <2>1. ControlTypeOK /\ \A e \in Evaluations : EvaluationInv(e)
      BY DEF PolicyInv
    <2>2. ASSUME NEW d \in Decisions, Decide(d) PROVE Stays
      <3>1. /\ ruling[d].approval \in Evaluations
            /\ ruling[d].verdict \in {"approved", "rejected"}
        BY <2>1 DEF ControlTypeOK
      <3>2. told[d] = "none" /\ told'[d] # told[d]
        BY <2>1, <2>2 DEF Decide, ControlTypeOK
      <3> QED
        BY <2>1, <2>2, <3>1, <3>2 DEF Decide, ControlTypeOK
    <2>3. ASSUME NEW e \in Evaluations, Create(e) PROVE Stays
      BY <2>1, <2>3, NullAssumption DEF Create, EvaluationInv, ControlTypeOK
    <2>4. ASSUME \A d \in Decisions : ~Decide(d), \A e \in Evaluations : ~Create(e)
          PROVE  Stays
      <3>1. approvals' = approvals
        BY <2>4 DEF Next, vars, evaluation, decision, gates, runs, Evaluate, Receive,
                    FetchPolicy, ReadSpend, ReadActive, QueryFails, Notify, Crash, MakeRow,
                    StartRun, EndRun, RecordCost, Reopen, Midnight, Quiescent
      <3> QED
        BY <3>1
    <2> QED
      BY <2>2, <2>3, <2>4
  <1> QED
    BY <1>1, PolicyInductive, PTL DEF Spec, DecidedStaysDecided

-----------------------------------------------------------------------------
(* The bridge implements ApprovalGate.                                      *)

\* Where the question of e stands, and what its caller heard.
LEMMA GateValue ==
    ASSUME ControlTypeOK, NEW e \in Evaluations
    PROVE  gateOf[e] = IF approvals[e] # Null
                       THEN IF approvals[e] = "pending" THEN "waiting" ELSE approvals[e]
                       ELSE IF pc[e] # "done" THEN "asked"
                       ELSE IF answer[e] = "approved" THEN "cleared" ELSE "barred"
  <1>1. approvals[e] \in {Null, "pending", "approved", "rejected"}
        /\ Null \notin {"pending", "approved", "rejected"}
    BY NullAssumption DEF ControlTypeOK
  <1>2. CASE approvals[e] = Null /\ pc[e] # "done"
    BY <1>1, <1>2 DEF gateOf
  <1>3. CASE approvals[e] = Null /\ pc[e] = "done" /\ answer[e] = "approved"
    BY <1>1, <1>3 DEF gateOf
  <1>4. CASE approvals[e] = Null /\ pc[e] = "done" /\ answer[e] # "approved"
    <2>1. /\ ~(approvals[e] = "pending") /\ ~(approvals[e] \in {"approved", "rejected"})
          /\ ~(approvals[e] = Null /\ pc[e] # "done")
          /\ ~(approvals[e] = Null /\ answer[e] = "approved")
      BY <1>1, <1>4
    <2>2. gateOf[e] = "barred"
      BY <2>1 DEF gateOf
    <2> QED
      BY <1>4, <2>2
  <1>5. CASE approvals[e] = "pending"
    BY <1>1, <1>5 DEF gateOf
  <1>6. CASE approvals[e] \in {"approved", "rejected"}
    BY <1>1, <1>6 DEF gateOf
  <1> QED
    BY <1>1, <1>2, <1>3, <1>4, <1>5, <1>6

\* What the caller of e was told.
LEMMA ToldValue ==
    ASSUME NEW e \in Evaluations
    PROVE  toldOf[e] = IF answer[e] = "none" THEN "none"
                       ELSE IF answer[e] = "approved" THEN "go"
                       ELSE IF answer[e] = "pending_approval" THEN "wait"
                       ELSE IF answer[e] = "rejected" THEN "stop" ELSE "unknown"
  BY DEF toldOf

\* The cells of the documented matrix that the code approves are the others.
LEMMA MatrixIsDocumented ==
    ASSUME ControlTypeOK, NEW e \in Evaluations
    PROVE  AutoApproved(e) <=> e \notin humanOf
  <1>1. request[e].approval_policy \in Levels \cup {"none"} /\ request[e].risk_level \in Levels
    <2>1. request[e] \in RequestType
      BY RequestFields, RequestsAssumption
    <2> QED
      BY <2>1 DEF RequestType
  <1> QED
    BY <1>1 DEF AutoApproved, IsAutoApproved, humanOf, HumanCells, Levels

\* The gates of a state whose requests and rows are those of the one before.
LEMMA GatesAlike ==
    ASSUME ControlTypeOK, ControlTypeOK', request' = request, NEW e \in Evaluations,
           \A o \in Evaluations \ {e} : /\ approvals'[o] = approvals[o] /\ pc'[o] = pc[o]
                                        /\ answer'[o] = answer[o]
    PROVE  /\ humanOf' = humanOf
           /\ gateOf' = [gateOf EXCEPT ![e] = gateOf'[e]]
           /\ toldOf' = [toldOf EXCEPT ![e] = toldOf'[e]]
           /\ answer'[e] = answer[e] => toldOf' = toldOf
           /\ approvals'[e] = approvals[e] /\ answer'[e] = answer[e]
              /\ (pc'[e] = "done" <=> pc[e] = "done") => gateOf' = gateOf
  <1>1. humanOf' = humanOf
    BY DEF humanOf, HumanCells, Levels
  <1>2. \A o \in Evaluations \ {e} : gateOf'[o] = gateOf[o] /\ toldOf'[o] = toldOf[o]
    BY DEF gateOf, toldOf
  <1>3. /\ gateOf = [o \in Evaluations |-> gateOf[o]] /\ toldOf = [o \in Evaluations |-> toldOf[o]]
        /\ gateOf' = [o \in Evaluations |-> gateOf'[o]]
        /\ toldOf' = [o \in Evaluations |-> toldOf'[o]]
    BY DEF gateOf, toldOf
  <1>4. answer'[e] = answer[e] => toldOf'[e] = toldOf[e]
    BY DEF toldOf
  <1>5. approvals'[e] = approvals[e] /\ answer'[e] = answer[e]
        /\ (pc'[e] = "done" <=> pc[e] = "done") => gateOf'[e] = gateOf[e]
    BY DEF gateOf
  <1> QED
    BY <1>1, <1>2, <1>3, <1>4, <1>5

\* What a step of an evaluation can do to its row and its answer.
LEMMA EvaluationGate ==
    ASSUME PolicyInv, NEW e \in Evaluations, Evaluate(e)
    PROVE  /\ pc[e] # "done" /\ answer[e] = "none"
           /\ \/ approvals' = approvals /\ pc'[e] # "done" /\ answer' = answer
              \/ /\ approvals' = approvals /\ approvals[e] = Null /\ pc'[e] = "done"
                 /\ \/ answer'[e] = "approved" /\ AutoApproved(e)
                    \/ answer'[e] \in {"rejected", "error", "unsure", "lost"}
              \/ /\ approvals[e] = Null /\ approvals' = [approvals EXCEPT ![e] = "pending"]
                 /\ ~AutoApproved(e)
                 /\ \/ pc'[e] = "notify" /\ answer' = answer
                    \/ pc'[e] = "done" /\ answer'[e] \in {"pending_approval", "error", "unsure"}
              \/ /\ approvals' = approvals /\ approvals[e] # Null /\ pc'[e] = "done"
                 /\ answer'[e] \in {"pending_approval", "lost"}
  <1>1. ControlTypeOK /\ EvaluationInv(e)
    BY DEF PolicyInv
  <1>2. pc[e] # "done" /\ answer[e] = "none"
    BY <1>1 DEF Evaluate, Receive, FetchPolicy, ReadSpend, ReadActive, QueryFails, Create,
                Notify, Crash, InFlightPoints, EvaluationInv
  <1>3. CASE Receive(e) \/ ReadSpend(e)
    BY <1>1, <1>2, <1>3 DEF Receive, ReadSpend, Goto, gates, ControlTypeOK
  <1>4. CASE FetchPolicy(e) \/ ReadActive(e)
    <2>1. approvals[e] = Null /\ approvals' = approvals
      BY <1>1, <1>4 DEF FetchPolicy, ReadActive, EvaluationInv, gates
    <2>2. \/ pc'[e] # "done" /\ answer' = answer
          \/ pc'[e] = "done" /\ answer'[e] = "approved" /\ AutoApproved(e)
          \/ pc'[e] = "done" /\ answer'[e] = "rejected"
      BY <1>1, <1>4 DEF FetchPolicy, ReadActive, AfterScope, Goto, Reply, ControlTypeOK
    <2> QED
      BY <1>2, <2>1, <2>2
  <1>5. CASE QueryFails(e)
    BY <1>1, <1>2, <1>5 DEF QueryFails, Reply, gates, ControlTypeOK, EvaluationInv
  <1>6. CASE Create(e)
    <2>1. pc[e] = "create" /\ approvals[e] = Null /\ ~AutoApproved(e)
      BY <1>1, <1>6 DEF Create, EvaluationInv
    <2>2. PICK outcome \in Outcomes :
            /\ approvals' = IF request[e].known /\ Takes(outcome)
                            THEN [approvals EXCEPT ![e] = "pending"] ELSE approvals
            /\ IF ~request[e].known \/ outcome # "ok" \/ ~RowsValidate
               THEN Reply(e, IF outcome = "unknown" THEN "unsure" ELSE "error")
               ELSE IF request[e].room THEN Goto(e, "notify")
               ELSE Reply(e, "pending_approval")
      BY <1>6 DEF Create
    <2>3. CASE request[e].known /\ Takes(outcome)
      <3>1. approvals' = [approvals EXCEPT ![e] = "pending"]
        BY <2>2, <2>3
      <3>2. \/ pc'[e] = "notify" /\ answer' = answer
            \/ pc'[e] = "done" /\ answer'[e] \in {"pending_approval", "error", "unsure"}
        BY <1>1, <2>2 DEF Goto, Reply, ControlTypeOK
      <3> QED
        BY <1>2, <2>1, <3>1, <3>2
    <2>4. CASE ~(request[e].known /\ Takes(outcome))
      <3>1. approvals' = approvals
        BY <2>2, <2>4
      <3>2. ~request[e].known \/ outcome # "ok"
        BY <2>4 DEF Takes
      <3>3. pc'[e] = "done" /\ answer'[e] \in {"error", "unsure"}
        BY <1>1, <2>2, <3>2 DEF Reply, ControlTypeOK
      <3> QED
        BY <1>2, <2>1, <3>1, <3>3
    <2> QED
      BY <2>3, <2>4
  <1>7. CASE Notify(e)
    BY <1>1, <1>2, <1>7 DEF Notify, Reply, gates, ControlTypeOK, EvaluationInv
  <1>8. CASE Crash(e)
    BY <1>1, <1>2, <1>8 DEF Crash, Reply, gates, ControlTypeOK, EvaluationInv
  <1> QED
    BY <1>3, <1>4, <1>5, <1>6, <1>7, <1>8 DEF Evaluate

\* A step of an evaluation clears, bars, files or tells, or is not seen.
LEMMA EvaluationImplements ==
    ASSUME PolicyInv, PolicyInv', NEW e \in Evaluations, Evaluate(e)
    PROVE  \/ Gate!Clear(e) \/ Gate!Bar(e) \/ Gate!File(e) \/ Gate!Tell(e)
           \/ UNCHANGED Gate!vars
  <1>1. ControlTypeOK /\ ControlTypeOK'
    BY DEF PolicyInv
  <1>2. request' = request /\ run' = run
    BY DEF Evaluate, Receive, FetchPolicy, ReadSpend, ReadActive, QueryFails, Create,
           Notify, Crash, runs
  <1>3. begunOf' = begunOf
    BY <1>2 DEF begunOf
  <1>4. \A o \in Evaluations \ {e} :
          approvals'[o] = approvals[o] /\ pc'[o] = pc[o] /\ answer'[o] = answer[o]
    BY <1>1, OthersUntouched DEF View
  <1>5. /\ humanOf' = humanOf
        /\ gateOf' = [gateOf EXCEPT ![e] = gateOf'[e]]
        /\ toldOf' = [toldOf EXCEPT ![e] = toldOf'[e]]
        /\ answer'[e] = answer[e] => toldOf' = toldOf
        /\ approvals'[e] = approvals[e] /\ answer'[e] = answer[e]
           /\ (pc'[e] = "done" <=> pc[e] = "done") => gateOf' = gateOf
    BY <1>1, <1>2, <1>4, GatesAlike
  <1>6. pc[e] # "done" /\ answer[e] = "none"
    BY EvaluationGate
  <1>7. gateOf'[e] = IF approvals'[e] # Null
                     THEN IF approvals'[e] = "pending" THEN "waiting" ELSE approvals'[e]
                     ELSE IF pc'[e] # "done" THEN "asked"
                     ELSE IF answer'[e] = "approved" THEN "cleared" ELSE "barred"
    <2>1. (ControlTypeOK => (gateOf[e] =
              IF approvals[e] # Null
              THEN IF approvals[e] = "pending" THEN "waiting" ELSE approvals[e]
              ELSE IF pc[e] # "done" THEN "asked"
              ELSE IF answer[e] = "approved" THEN "cleared" ELSE "barred"))'
      BY GateValue, PTL
    <2> QED
      BY <1>1, <2>1
  <1>8. toldOf'[e] = IF answer'[e] = "none" THEN "none"
                     ELSE IF answer'[e] = "approved" THEN "go"
                     ELSE IF answer'[e] = "pending_approval" THEN "wait"
                     ELSE IF answer'[e] = "rejected" THEN "stop" ELSE "unknown"
    BY DEF toldOf
  <1>9. toldOf[e] = "none"
    BY <1>6, ToldValue
  <1>10. CASE approvals' = approvals /\ pc'[e] # "done" /\ answer' = answer
    BY <1>3, <1>5, <1>6, <1>10 DEF Gate!vars
  <1>11. CASE /\ approvals' = approvals /\ approvals[e] = Null /\ pc'[e] = "done"
              /\ answer'[e] = "approved" /\ AutoApproved(e)
    <2>1. gateOf[e] = "asked" /\ gateOf'[e] = "cleared" /\ toldOf'[e] = "go"
      BY <1>1, <1>6, <1>7, <1>8, <1>11, GateValue
    <2>2. e \notin humanOf
      BY <1>1, <1>11, MatrixIsDocumented
    <2> QED
      BY <1>3, <1>5, <2>1, <2>2 DEF Gate!Clear
  <1>12. CASE /\ approvals' = approvals /\ approvals[e] = Null /\ pc'[e] = "done"
              /\ answer'[e] \in {"rejected", "error", "unsure", "lost"}
    <2>1. gateOf[e] = "asked" /\ gateOf'[e] = "barred" /\ toldOf'[e] \in {"stop", "unknown"}
      BY <1>1, <1>6, <1>7, <1>8, <1>12, GateValue
    <2> QED
      BY <1>3, <1>5, <2>1 DEF Gate!Bar
  <1>13. CASE /\ approvals[e] = Null /\ approvals' = [approvals EXCEPT ![e] = "pending"]
              /\ ~AutoApproved(e)
              /\ \/ pc'[e] = "notify" /\ answer' = answer
                 \/ pc'[e] = "done" /\ answer'[e] \in {"pending_approval", "error", "unsure"}
    <2>1. approvals'[e] = "pending" /\ "pending" # Null
      BY <1>1, <1>13, NullAssumption DEF ControlTypeOK
    <2>2. gateOf[e] = "asked" /\ gateOf'[e] = "waiting"
      BY <1>1, <1>6, <1>7, <1>13, <2>1, GateValue
    <2>3. toldOf'[e] \in {"none", "wait", "unknown"}
      BY <1>6, <1>8, <1>13
    <2>4. e \in humanOf
      BY <1>1, <1>13, MatrixIsDocumented
    <2> QED
      BY <1>3, <1>5, <2>2, <2>3, <2>4 DEF Gate!File
  <1>14. CASE /\ approvals' = approvals /\ approvals[e] # Null /\ pc'[e] = "done"
              /\ answer'[e] \in {"pending_approval", "lost"}
    <2>1. gateOf[e] \in Gate!Filed /\ gateOf'[e] = gateOf[e]
      BY <1>1, <1>7, <1>14, GateValue DEF Gate!Filed, ControlTypeOK
    <2>2. gateOf' = gateOf
      <3>1. gateOf = [o \in Evaluations |-> gateOf[o]]
        BY DEF gateOf
      <3> QED
        BY <1>5, <2>1, <3>1
    <2>3. toldOf'[e] \in {"wait", "unknown"}
      BY <1>8, <1>14
    <2> QED
      BY <1>3, <1>5, <1>9, <2>1, <2>2, <2>3 DEF Gate!Tell
  <1> QED
    BY <1>10, <1>11, <1>12, <1>13, <1>14, EvaluationGate

\* A run begins at an open gate, and its later life is not seen.
LEMMA RunImplements ==
    ASSUME PolicyInv, NEW e \in Evaluations,
           MakeRow(e) \/ StartRun(e) \/ EndRun(e) \/ RecordCost(e) \/ Reopen(e)
    PROVE  Gate!Begin(e) \/ UNCHANGED Gate!vars
  <1>1. ControlTypeOK /\ EvaluationInv(e)
    BY DEF PolicyInv
  <1>2. UNCHANGED <<request, pc, answer, approvals>>
    BY DEF MakeRow, StartRun, EndRun, RecordCost, Reopen, evaluation, gates
  <1>3. humanOf' = humanOf /\ gateOf' = gateOf /\ toldOf' = toldOf
    BY <1>2 DEF humanOf, gateOf, toldOf
  <1>4. CASE StartRun(e)
    <2>1. begunOf' = begunOf \cup {e}
      BY <1>1, <1>4 DEF StartRun, begunOf, Started, ControlTypeOK
    <2>2. gateOf[e] \in {"cleared", "approved"}
      BY <1>1, <1>4, GateValue, NullAssumption DEF StartRun, EvaluationInv
    <2> QED
      BY <1>3, <2>1, <2>2 DEF Gate!Begin
  <1>5. CASE MakeRow(e) \/ EndRun(e) \/ RecordCost(e) \/ Reopen(e)
    <2>1. begunOf' = begunOf
      BY <1>1, <1>5 DEF MakeRow, EndRun, RecordCost, Reopen, begunOf, Started, ControlTypeOK
    <2> QED
      BY <1>3, <2>1 DEF Gate!vars
  <1> QED
    BY <1>4, <1>5

\* A decision rules on a question that was filed, or is not seen.
LEMMA DecideImplements ==
    ASSUME PolicyInv, PolicyInv', NEW d \in Decisions, Decide(d)
    PROVE  Gate!Rule(ruling[d].approval) \/ UNCHANGED Gate!vars
  <1> DEFINE e == ruling[d].approval
  <1>1. /\ ControlTypeOK /\ ControlTypeOK' /\ e \in Evaluations
        /\ ruling[d].verdict \in {"approved", "rejected"}
    BY DEF PolicyInv, ControlTypeOK
  <1>2. UNCHANGED <<request, pc, answer, run>>
    BY <1>1, DecideView DEF evaluation, runs
  <1>3. humanOf' = humanOf /\ toldOf' = toldOf /\ begunOf' = begunOf
    BY <1>2 DEF humanOf, toldOf, begunOf
  <1>4. CASE approvals' = approvals
    BY <1>2, <1>3, <1>4 DEF gateOf, Gate!vars
  <1>5. CASE approvals' # approvals
    <2>1. approvals[e] # Null /\ approvals' = [approvals EXCEPT ![e] = ruling[d].verdict]
      BY <1>5 DEF Decide
    <2>2. gateOf[e] \in Gate!Filed
      BY <1>1, <2>1, GateValue DEF Gate!Filed, ControlTypeOK
    <2>3. gateOf' = [gateOf EXCEPT ![e] = gateOf'[e]]
      <3>1. \A o \in Evaluations \ {e} : approvals'[o] = approvals[o]
        BY <1>1, <2>1 DEF ControlTypeOK
      <3> QED
        BY <1>1, <1>2, <3>1, GatesAlike
    <2>4. gateOf'[e] = ruling[d].verdict
      <3>1. approvals'[e] = ruling[d].verdict
        BY <1>1, <2>1 DEF ControlTypeOK
      <3> QED
        BY <1>1, <3>1, NullAssumption DEF gateOf
    <2> QED
      BY <1>1, <1>3, <2>2, <2>3, <2>4 DEF Gate!Rule
  <1> QED
    BY <1>4, <1>5

\* Every step of the bridge, its callers and the runs is a step of the documented
\* gate, or is not seen there: no run begins that neither the matrix nor a human
\* let begin, and what the caller is told is true of the gate.
THEOREM GateImplemented == Spec => GateSpec
  <1>1. Init => Gate!Init
    <2> SUFFICES ASSUME Init PROVE Gate!Init
      OBVIOUS
    <2>1. ControlTypeOK
      BY InitType
    <2>2. \A e \in Evaluations : gateOf[e] = "asked" /\ toldOf[e] = "none"
      BY <2>1, GateValue, ToldValue DEF Init
    <2>3. gateOf = [e \in Evaluations |-> "asked"] /\ toldOf = [e \in Evaluations |-> "none"]
      BY <2>2 DEF gateOf, toldOf
    <2>4. humanOf \in SUBSET Evaluations /\ begunOf = {}
      BY DEF Init, humanOf, begunOf, Started
    <2> QED
      BY <2>3, <2>4 DEF Gate!Init
  <1>2. PolicyInv /\ PolicyInv' /\ [Next]_vars => [Gate!Next]_(Gate!vars)
    <2> SUFFICES ASSUME PolicyInv, PolicyInv', [Next]_vars
                 PROVE  [Gate!Next]_(Gate!vars)
      OBVIOUS
    <2>1. ASSUME NEW e \in Evaluations, Evaluate(e) PROVE [Gate!Next]_(Gate!vars)
      BY <2>1, EvaluationImplements DEF Gate!Next
    <2>2. ASSUME NEW e \in Evaluations,
               MakeRow(e) \/ StartRun(e) \/ EndRun(e) \/ RecordCost(e) \/ Reopen(e)
          PROVE  [Gate!Next]_(Gate!vars)
      BY <2>2, RunImplements DEF Gate!Next
    <2>3. ASSUME NEW d \in Decisions, Decide(d) PROVE [Gate!Next]_(Gate!vars)
      <3>1. ruling[d].approval \in Evaluations
        BY DEF PolicyInv, ControlTypeOK
      <3> QED
        BY <2>3, <3>1, DecideImplements DEF Gate!Next
    <2>4. CASE Midnight \/ UNCHANGED vars
      BY <2>4 DEF Midnight, vars, evaluation, gates, runs, Gate!vars, humanOf, gateOf,
                  toldOf, begunOf
    <2> QED
      BY <2>1, <2>2, <2>3, <2>4 DEF Next, Quiescent
  <1> QED
    BY <1>1, <1>2, PolicyInductive, PTL DEF Spec, GateSpec, Gate!Spec

-----------------------------------------------------------------------------
(* What is spent on a day.                                                  *)
(*                                                                          *)
(* The invariant says that a set T of evaluations accounts for a day of p:  *)
(* it holds every run whose cost may still change, it is not larger than the *)
(* places there are, and what is recorded outside it, its load, is within   *)
(* the daily limit (Covered).  While evaluations are past the first query,  *)
(* F says which set would account for the day if the next one to be let     *)
(* past were a (Guarded).  On a day that is over, T takes in the rows made  *)
(* on it that were not evaluated before midnight: these are checked against *)
(* the next day (Closed).                                                   *)

\* The row of e is of the day d, or may still become one.
OfDay(e, d) ==
    \/ run[e] = "none" /\ d >= today
    \/ run[e] # "none" /\ created[e] = d

\* Runs whose cost may still be added to the day, of evaluations that p let past.
Live(p, d) ==
    {e \in Evaluations : /\ InScope(p, e) /\ OfDay(e, d)
                         /\ e \in Held(p) \/ run[e] = "unsettled"}

\* Evaluations between the two queries for p, or after them, that p may let past.
Waiting(p, d) ==
    {e \in Evaluations : /\ pc[e] \in {"spend", "active"}
                         /\ at[e] = Position[p.type]
                         /\ InScope(p, e) /\ OfDay(e, d)}

\* Those that have read what was spent on the day, on a day before it.
Fresh(p, d) == {e \in Waiting(p, d) : pc[e] = "active" /\ asOf[e] = d}
Stale(p, d) == {e \in Waiting(p, d) : asOf[e] < d}

\* Rows of the day that were made before their evaluation.
Pending(p, d) ==
    {e \in Evaluations : InScope(p, e) /\ run[e] = "pending" /\ created[e] = d}

\* What is recorded of the day outside T.
Load(p, d, T) == Total(cost, CountedOn(p, d) \ T)

\* How many runs may be live on a day, or be let past.
Places(p) == p.concurrency + 2 * MaxGrants - 1 + MaxUnsettled + reopened

\* Letting past the next one that has read the spend keeps the bound.
Guarded(p, d, T, F) ==
    /\ Load(p, d, T) <= p.daily /\ Cardinality(T) <= Places(p)
    /\ \A a \in Fresh(p, d) \ T :
        /\ Live(p, d) \cup {a} \cup (Waiting(p, d) \cap T) \subseteq F[a]
        /\ Load(p, d, F[a]) <= spend[a] /\ Cardinality(F[a]) <= Places(p)
        /\ \A b \in Fresh(p, d) \ T : b \in F[a] \/ Waiting(p, d) \cap F[a] \subseteq F[b]

\* The day is over, and T has taken in the rows that were made on it.
Closed(p, d, T) ==
    /\ d < today
    /\ Pending(p, d) \subseteq T
    /\ Load(p, d, T) <= p.daily /\ Cardinality(T) <= Places(p) + p.concurrency - 1

Covered(p, d, T, F) ==
    /\ Live(p, d) \cup Stale(p, d) \subseteq T
    /\ Guarded(p, d, T, F) \/ Closed(p, d, T)

DayIsCovered(p, d) ==
    \E T \in SUBSET Evaluations, F \in [Evaluations -> SUBSET Evaluations] :
        Covered(p, d, T, F)

\* The days and the costs of one evaluation and its run.
RowInv(e) ==
    /\ spend[e] \in Nat
    /\ run[e] # "none" => created[e] <= today
    /\ asOf[e] <= today
    /\ pc[e] \in {"spend", "active"} /\ run[e] # "none" => created[e] <= asOf[e]
    /\ run[e] \in {"none", "pending"} => cost[e] = 0

Unsettled == {e \in Evaluations : run[e] = "unsettled"}

SpendBase ==
    /\ PolicyInv
    /\ spend \in [Evaluations -> Nat]
    /\ \A e \in Evaluations : RowInv(e)
    /\ Cardinality(Unsettled) <= MaxUnsettled

SpendInv ==
    /\ SpendBase
    /\ \A p \in Policies, d \in 1..today : DayIsCovered(p, d)

-----------------------------------------------------------------------------
(* Sums of costs.                                                           *)

\* The limits of a policy and the costs of runs are numbers.
LEMMA CostsType ==
    ASSUME ControlTypeOK, NEW p \in Policies
    PROVE  /\ p.daily \in Nat /\ p.concurrency \in Nat \ {0}
           /\ Places(p) \in Nat
           /\ cost \in [Evaluations -> Nat]
           /\ \A e \in Evaluations : request[e].cost \in Nat
  <1>1. p \in PolicyType
    BY PoliciesAssumption
  <1>2. p.daily \in Nat /\ p.concurrency \in Nat \ {0}
    BY <1>1 DEF PolicyType
  <1>3. Places(p) \in Nat
    BY <1>2, BoundsAssumption DEF Places, ControlTypeOK
  <1>4. \A e \in Evaluations : request[e].cost \in Nat
    <2> TAKE e \in Evaluations
    <2>1. request[e] \in RequestType
      BY RequestFields, RequestsAssumption
    <2> QED
      BY <2>1 DEF RequestType
  <1> QED
    BY <1>2, <1>3, <1>4 DEF ControlTypeOK

\* So is a load.
LEMMA LoadType ==
    ASSUME ControlTypeOK, NEW p \in Policies, NEW d, NEW T
    PROVE  Load(p, d, T) \in Nat
  <1>1. CountedOn(p, d) \ T \in SUBSET Evaluations
    BY DEF CountedOn
  <1>2. cost \in [Evaluations -> Nat]
    BY DEF ControlTypeOK
  <1> QED
    BY <1>1, <1>2, TotalType, FiniteAssumption DEF Load

\* What the query of the day's spend adds up.
LEMMA SpentIsTotal == ASSUME NEW p, NEW d PROVE SpentOn(p, d) = Load(p, d, {})
  <1>1. CountedOn(p, d) \ {} = CountedOn(p, d)
    OBVIOUS
  <1> QED
    BY <1>1 DEF SpentOn, Total, Load

\* The load shrinks as the set grows, and where a set loses only runs without a cost
\* it stays.
LEMMA LoadShrinks ==
    ASSUME ControlTypeOK, NEW p \in Policies, NEW d, NEW T, NEW V,
           \A e \in T \ V : e \in Evaluations => cost[e] = 0
    PROVE  Load(p, d, V) <= Load(p, d, T)
  <1> DEFINE W == CountedOn(p, d) \ V
  <1> DEFINE S == CountedOn(p, d) \ T
  <1>1. W \in SUBSET Evaluations /\ S \in SUBSET Evaluations
    BY DEF CountedOn
  <1>2. cost \in [Evaluations -> Nat]
    BY DEF ControlTypeOK
  <1>3. \A e \in W : cost[e] <= (IF e \in S THEN cost[e] ELSE 0)
    BY <1>1, <1>2
  <1> HIDE DEF W, S
  <1>4. Total(cost, W) <= Total(cost, S)
    BY <1>1, <1>2, <1>3, TotalBound, FiniteAssumption
  <1> QED
    BY <1>4 DEF Load, W, S

-----------------------------------------------------------------------------
(* Days and costs of runs.                                                  *)

\* A step of e or of its run.
StepOf(e) ==
    Evaluate(e) \/ MakeRow(e) \/ StartRun(e) \/ EndRun(e) \/ RecordCost(e) \/ Reopen(e)

\* ... leaves the others alone, and the date.
LEMMA OthersSpend ==
    ASSUME ControlTypeOK, NEW e \in Evaluations, StepOf(e)
    PROVE  /\ request' = request /\ today' = today
           /\ \A o \in Evaluations \ {e} :
                /\ View(o)' = View(o)
                /\ asOf'[o] = asOf[o] /\ spend'[o] = spend[o] /\ cost'[o] = cost[o]
  <1>1. \A o \in Evaluations \ {e} : View(o)' = View(o)
    BY OthersUntouched DEF StepOf
  <1>2. /\ request' = request /\ today' = today
        /\ \A o \in Evaluations \ {e} :
             asOf'[o] = asOf[o] /\ spend'[o] = spend[o] /\ cost'[o] = cost[o]
    <2>1. CASE Evaluate(e)
      <3>1. cost' = cost /\ request' = request /\ today' = today
        BY <2>1 DEF Evaluate, Receive, FetchPolicy, ReadSpend, ReadActive, QueryFails, Create,
                    Notify, Crash, runs
      <3>2. \A o \in Evaluations \ {e} : asOf'[o] = asOf[o]
        BY <2>1 DEF Evaluate, Receive, FetchPolicy, ReadSpend, ReadActive, QueryFails, Create,
                    Notify, Crash, ControlTypeOK
      <3>3. \A o \in Evaluations \ {e} : spend'[o] = spend[o]
        <4>1. CASE ReadSpend(e)
          <5>1. PICK n : spend' = [spend EXCEPT ![e] = n]
            BY <4>1 DEF ReadSpend
          <5> QED
            BY <5>1
        <4>2. CASE ~ReadSpend(e)
          BY <2>1, <4>2 DEF Evaluate, Receive, FetchPolicy, ReadActive, QueryFails, Create,
                            Notify, Crash
        <4> QED
          BY <4>1, <4>2
      <3> QED
        BY <3>1, <3>2, <3>3
    <2>2. CASE ~Evaluate(e)
      BY <2>2 DEF StepOf, MakeRow, StartRun, EndRun, RecordCost, Reopen, evaluation,
                  ControlTypeOK
    <2> QED
      BY <2>1, <2>2
  <1> QED
    BY <1>1, <1>2

\* The other steps change neither runs nor evaluations.
LEMMA OtherSteps ==
    ASSUME [Next]_vars, \A e \in Evaluations : ~StepOf(e)
    PROVE  /\ UNCHANGED <<request, evaluation, runs>>
           /\ Midnight \/ today' = today
  BY DEF StepOf, Next, Quiescent, vars, Decide, Midnight

\* Ended runs whose cost has not come can be counted.
LEMMA UnsettledFinite ==
    /\ IsFiniteSet(Unsettled) /\ IsFiniteSet(Unsettled') 
    /\ Cardinality(Unsettled) \in Nat /\ Cardinality(Unsettled') \in Nat
  BY FiniteAssumption, FS_Subset, FS_CardinalityType DEF Unsettled

\* At most MaxUnsettled ended runs wait for their cost.
LEMMA UnsettledStep ==
    ASSUME ControlTypeOK, Cardinality(Unsettled) <= MaxUnsettled, [Next]_vars
    PROVE  Cardinality(Unsettled') <= MaxUnsettled
  <1>1. CASE Unsettled' \subseteq Unsettled
    <2>1. Cardinality(Unsettled') <= Cardinality(Unsettled)
      BY <1>1, UnsettledFinite, FS_Subset
    <2> QED
      BY <2>1, UnsettledFinite, BoundsAssumption
  <1>2. ASSUME NEW e \in Evaluations, StepOf(e), ~EndRun(e)
        PROVE  Unsettled' \subseteq Unsettled
    <2>1. \A o \in Evaluations \ {e} : o \in Unsettled' <=> o \in Unsettled
      BY <1>2, OthersSpend DEF View, Unsettled
    <2>2. e \in Unsettled' => e \in Unsettled
      <3>1. CASE Evaluate(e)
        BY <3>1 DEF Unsettled, Evaluate, Receive, FetchPolicy, ReadSpend, ReadActive,
                    QueryFails, Create, Notify, Crash, runs
      <3>2. CASE ~Evaluate(e)
        BY <1>2, <3>2 DEF StepOf, Unsettled, MakeRow, StartRun, RecordCost, Reopen,
                          ControlTypeOK
      <3> QED
        BY <3>1, <3>2
    <2> QED
      BY <2>1, <2>2 DEF Unsettled
  <1>3. ASSUME NEW e \in Evaluations, EndRun(e)
        PROVE  Cardinality(Unsettled') <= MaxUnsettled
    <2>1. \/ Unsettled' \subseteq Unsettled
          \/ Cardinality(Unsettled) < MaxUnsettled /\ Unsettled' \subseteq Unsettled \cup {e}
      BY <1>3 DEF EndRun, Unsettled, ControlTypeOK
    <2>2. CASE Cardinality(Unsettled) < MaxUnsettled /\ Unsettled' \subseteq Unsettled \cup {e}
      <3>1. /\ IsFiniteSet(Unsettled \cup {e})
            /\ Cardinality(Unsettled \cup {e}) =
                  IF e \in Unsettled THEN Cardinality(Unsettled)
                  ELSE Cardinality(Unsettled) + 1
        BY UnsettledFinite, FS_AddElement
      <3>2. Cardinality(Unsettled') <= Cardinality(Unsettled \cup {e})
        BY <2>2, <3>1, FS_Subset
      <3> QED
        BY <2>2, <3>1, <3>2, UnsettledFinite, BoundsAssumption
    <2> QED
      BY <1>1, <2>1, <2>2
  <1>4. ASSUME \A e \in Evaluations : ~StepOf(e) PROVE Unsettled' \subseteq Unsettled
    BY <1>4, OtherSteps DEF Unsettled, runs
  <1> QED
    BY <1>1, <1>2, <1>3, <1>4

\* The days and the costs of a step of e itself.
LEMMA RowStep ==
    ASSUME ControlTypeOK, spend \in [Evaluations -> Nat], \A o \in Evaluations : EvaluationInv(o),
           \A o \in Evaluations : RowInv(o), NEW e \in Evaluations, StepOf(e)
    PROVE  spend' \in [Evaluations -> Nat] /\ \A o \in Evaluations : RowInv(o)'
  <1>1. /\ EvaluationInv(e) /\ RowInv(e) /\ request' = request /\ today' = today
        /\ today \in Nat /\ asOf[e] \in Nat /\ created[e] \in Nat
    BY OthersSpend, BoundsAssumption DEF ControlTypeOK
  <1>2. \A o \in Evaluations \ {e} : RowInv(o)'
    BY <1>1, OthersSpend DEF RowInv, View
  <1>3. spend' \in [Evaluations -> Nat]
    <2>1. CASE ReadSpend(e)
      <3>1. PICK p \in Applicable(e) : spend' = [spend EXCEPT ![e] = SpentOn(p, asOf[e])]
        BY <2>1 DEF ReadSpend
      <3>2. p \in Policies
        BY <3>1 DEF Applicable
      <3>3. SpentOn(p, asOf[e]) \in Nat
        BY <3>2, SpentIsTotal, LoadType
      <3> QED
        BY <3>1, <3>3
    <2>2. CASE ~ReadSpend(e)
      BY <2>2 DEF StepOf, Evaluate, Receive, FetchPolicy, ReadActive, QueryFails, Create,
                  Notify, Crash, MakeRow, StartRun, EndRun, RecordCost, Reopen, evaluation
    <2> QED
      BY <2>1, <2>2
  <1>4. RowInv(e)'
    <2>1. spend'[e] \in Nat
      BY <1>3
    <2>2. CASE Receive(e) \/ QueryFails(e) \/ Create(e) \/ Notify(e) \/ Crash(e) \/ ReadActive(e)
      <3>1. /\ asOf' = asOf /\ run' = run /\ created' = created /\ cost' = cost
            /\ pc'[e] \notin {"spend", "active"}
        <4>1. CASE ReadActive(e)
          BY <4>1 DEF ReadActive, AfterScope, Goto, Reply, runs, ControlTypeOK
        <4>2. CASE ~ReadActive(e)
          BY <2>2, <4>2 DEF Receive, QueryFails, Create, Notify, Crash, Goto, Reply, runs,
                            ControlTypeOK
        <4> QED
          BY <4>1, <4>2
      <3> QED
        BY <1>1, <2>1, <3>1 DEF RowInv
    <2>3. CASE FetchPolicy(e)
      <3>1. run' = run /\ created' = created /\ cost' = cost
        BY <2>3 DEF FetchPolicy, runs
      <3>2. CASE AfterScope(e, violated[e]) /\ UNCHANGED asOf
        <4>1. pc'[e] \notin {"spend", "active"}
          BY <3>2 DEF AfterScope, Goto, Reply, ControlTypeOK
        <4> QED
          BY <1>1, <2>1, <3>1, <3>2, <4>1 DEF RowInv
      <3>3. CASE asOf' = [asOf EXCEPT ![e] = today]
        <4>1. asOf'[e] = today
          BY <3>3 DEF ControlTypeOK
        <4> QED
          BY <1>1, <2>1, <3>1, <4>1 DEF RowInv
      <3> QED
        BY <2>3, <3>2, <3>3 DEF FetchPolicy
    <2>4. CASE ReadSpend(e)
      <3>1. /\ asOf' = asOf /\ run' = run /\ created' = created /\ cost' = cost
            /\ pc[e] = "spend"
        BY <2>4 DEF ReadSpend, runs
      <3> QED
        BY <1>1, <2>1, <3>1 DEF RowInv
    <2>5. CASE MakeRow(e)
      <3>1. /\ asOf' = asOf /\ cost' = cost /\ pc' = pc /\ pc[e] = "idle"
            /\ run[e] = "none" /\ run'[e] = "pending" /\ created'[e] = today
        BY <2>5 DEF MakeRow, evaluation, ControlTypeOK
      <3> QED
        BY <1>1, <2>1, <3>1 DEF RowInv
    <2>6. CASE StartRun(e)
      <3>1. /\ asOf' = asOf /\ cost' = cost /\ pc' = pc
            /\ run'[e] = "running" /\ run[e] \in {"none", "pending"}
            /\ created'[e] = IF run[e] = "none" THEN today ELSE created[e]
            /\ pc[e] \in {"notify", "done"}
        BY <1>1, <2>6, NullAssumption DEF StartRun, evaluation, ControlTypeOK, EvaluationInv
      <3> QED
        BY <1>1, <2>1, <3>1 DEF RowInv
    <2>7. CASE EndRun(e) \/ Reopen(e)
      <3>1. /\ asOf' = asOf /\ cost' = cost /\ pc' = pc /\ created' = created
            /\ run[e] \in Started /\ run'[e] \in Started /\ pc[e] \in {"notify", "done"}
        BY <1>1, <2>7 DEF EndRun, Reopen, evaluation, ControlTypeOK, EvaluationInv, Started
      <3> QED
        BY <1>1, <2>1, <3>1 DEF RowInv, Started
    <2>8. CASE RecordCost(e)
      <3>1. /\ asOf' = asOf /\ pc' = pc /\ created' = created
            /\ run[e] \in Started /\ run'[e] \in Started /\ pc[e] \in {"notify", "done"}
        BY <1>1, <2>8 DEF RecordCost, evaluation, ControlTypeOK, EvaluationInv, Started
      <3> QED
        BY <1>1, <2>1, <3>1 DEF RowInv, Started
    <2> QED
      BY <2>2, <2>3, <2>4, <2>5, <2>6, <2>7, <2>8 DEF StepOf, Evaluate
  <1> QED
    BY <1>2, <1>3, <1>4

\* ... and of a step that is not of an evaluation or its run.
LEMMA OtherRows ==
    ASSUME ControlTypeOK, spend \in [Evaluations -> Nat], \A o \in Evaluations : RowInv(o),
           [Next]_vars, \A e \in Evaluations : ~StepOf(e)
    PROVE  spend' \in [Evaluations -> Nat] /\ \A o \in Evaluations : RowInv(o)'
  <1>1. UNCHANGED <<request, evaluation, runs>> /\ (today' = today \/ today' = today + 1)
    BY OtherSteps DEF Midnight
  <1>2. ASSUME NEW o \in Evaluations PROVE RowInv(o)'
    <2>1. RowInv(o) /\ today \in Nat /\ asOf[o] \in Nat /\ created[o] \in Nat
      BY BoundsAssumption DEF ControlTypeOK
    <2> QED
      BY <1>1, <2>1 DEF RowInv, evaluation, runs
  <1> QED
    BY <1>1, <1>2 DEF evaluation

\* The load of a day falls with every step, for a set that holds its live runs:
\* only what they cost may still change.
LEMMA LoadStep ==
    ASSUME ControlTypeOK, ControlTypeOK', \A o \in Evaluations : RowInv(o), [Next]_vars,
           NEW p \in Policies, NEW d, NEW T \in SUBSET Evaluations, Live(p, d) \subseteq T
    PROVE  Load(p, d, T)' <= Load(p, d, T)
  <1>1. request' = request
    BY Frame
  <1>2. ASSUME NEW o \in Evaluations, o \notin T, o \in CountedOn(p, d)'
        PROVE  cost'[o] = 0 \/ (o \in CountedOn(p, d) /\ cost'[o] = cost[o])
    <2>1. InScope(p, o) /\ run'[o] # "none" /\ created'[o] = d
      BY <1>1, <1>2 DEF CountedOn, InScope
    <2>2. ASSUME NEW e \in Evaluations, StepOf(e), o # e
          PROVE  o \in CountedOn(p, d) /\ cost'[o] = cost[o]
      BY <2>1, <2>2, OthersSpend DEF CountedOn, View
    <2>3. CASE Evaluate(o)
      BY <2>1, <2>3 DEF CountedOn, Evaluate, Receive, FetchPolicy, ReadSpend, ReadActive,
                        QueryFails, Create, Notify, Crash, runs
    <2>4. CASE MakeRow(o) \/ StartRun(o)
      BY <2>4 DEF MakeRow, StartRun, RowInv
    <2>5. CASE EndRun(o) \/ Reopen(o)
      BY <2>1, <2>5 DEF EndRun, Reopen, CountedOn, ControlTypeOK
    <2>6. CASE RecordCost(o)
      <3>1. run[o] \in {"running", "unsettled"} /\ created[o] = d
        BY <2>1, <2>6 DEF RecordCost
      <3>2. o \in Live(p, d)
        BY <2>1, <3>1 DEF Live, Held, OfDay
      <3> QED
        BY <1>2, <3>2
    <2>7. ASSUME \A e \in Evaluations : ~StepOf(e)
          PROVE  o \in CountedOn(p, d) /\ cost'[o] = cost[o]
      BY <2>1, <2>7, OtherSteps DEF CountedOn, runs
    <2> QED
      BY <2>2, <2>3, <2>4, <2>5, <2>6, <2>7 DEF StepOf
  <1> DEFINE W == CountedOn(p, d)' \ T
  <1> DEFINE S == CountedOn(p, d) \ T
  <1>3. W \in SUBSET Evaluations /\ S \in SUBSET Evaluations
    BY DEF CountedOn
  <1>4. cost \in [Evaluations -> Nat] /\ cost' \in [Evaluations -> Nat]
    BY DEF ControlTypeOK
  <1>5. \A o \in W : cost'[o] <= (IF o \in S THEN cost[o] ELSE 0)
    BY <1>2, <1>3, <1>4
  <1>6. Load(p, d, T)' = Total(cost', W) /\ Load(p, d, T) = Total(cost, S)
    BY Zenon DEF Load
  <1> HIDE DEF W, S
  <1>7. Total(cost', W) <= Total(cost, S)
    BY <1>3, <1>4, <1>5, TotalBound, FiniteAssumption
  <1> QED
    BY <1>6, <1>7

\* What a step of e does to the sets that a day of p is about.
LEMMA LiveStep ==
    ASSUME ControlTypeOK, \A o \in Evaluations : EvaluationInv(o), [Next]_vars,
           NEW p \in Policies, NEW d \in 1..today, NEW e \in Evaluations, StepOf(e)
    PROVE  \/ Live(p, d)' \subseteq Live(p, d)
           \/ Reopen(e) /\ Live(p, d)' \subseteq Live(p, d) \cup {e} /\ InScope(p, e)
           \/ /\ ReadActive(e) /\ Live(p, d)' \subseteq Live(p, d) \cup {e}
              /\ e \in Held(p)' /\ e \notin Held(p) /\ OfDay(e, d) /\ run' = run
  <1>1. request' = request /\ today' = today /\ today \in Nat /\ d \in Nat /\ d <= today
    BY OthersSpend, BoundsAssumption DEF ControlTypeOK
  <1>2. \A o \in Evaluations \ {e} : o \in Live(p, d)' <=> o \in Live(p, d)
    <2> TAKE o \in Evaluations \ {e}
    <2>1. View(o)' = View(o)
      BY OthersSpend
    <2>2. o \in Held(p)' <=> o \in Held(p)
      BY <1>1, <2>1, ViewDecides
    <2> QED
      BY <1>1, <2>1, <2>2 DEF View, Live, OfDay, InScope
  <1>3. Live(p, d)' \subseteq Live(p, d) \cup {e}
    BY <1>2 DEF Live
  <1> SUFFICES ASSUME e \in Live(p, d)', e \notin Live(p, d)
               PROVE  \/ Reopen(e) /\ InScope(p, e)
                      \/ /\ ReadActive(e) /\ e \in Held(p)' /\ e \notin Held(p)
                         /\ OfDay(e, d) /\ run' = run
    BY <1>3
  <1>4. /\ InScope(p, e) /\ OfDay(e, d)' /\ (e \in Held(p)' \/ run'[e] = "unsettled")
    BY <1>1 DEF Live, InScope
  <1>5. ~Reopen(e) => OfDay(e, d)
    <2>1. CASE Evaluate(e)
      <3>1. run' = run /\ created' = created
        BY <2>1 DEF Evaluate, Receive, FetchPolicy, ReadSpend, ReadActive, QueryFails, Create,
                    Notify, Crash, runs
      <3> QED
        BY <1>1, <1>4, <3>1 DEF OfDay
    <2>2. CASE MakeRow(e)
      <3>1. run[e] = "none" /\ run'[e] # "none" /\ created'[e] = today
        BY <2>2 DEF MakeRow, ControlTypeOK
      <3> QED
        BY <1>1, <1>4, <3>1 DEF OfDay
    <2>3. CASE StartRun(e)
      <3>1. /\ run'[e] # "none"
            /\ created'[e] = IF run[e] = "none" THEN today ELSE created[e]
        BY <2>3 DEF StartRun, ControlTypeOK
      <3> QED
        BY <1>1, <1>4, <3>1 DEF OfDay
    <2>4. CASE EndRun(e) \/ RecordCost(e)
      <3>1. run[e] # "none" /\ run'[e] # "none" /\ created' = created
        BY <2>4 DEF EndRun, RecordCost, ControlTypeOK
      <3> QED
        BY <1>1, <1>4, <3>1 DEF OfDay
    <2> QED
      BY <2>1, <2>2, <2>3, <2>4 DEF StepOf
  <1>6. CASE Reopen(e)
    BY <1>4, <1>6
  <1>7. ASSUME ~Reopen(e), ~ReadActive(e) PROVE FALSE
    <2>2. e \in Held(p)' => e \in Held(p)
      <3>1. ASSUME NEW o \in Evaluations, ReadActive(o) \/ Reopen(o)
            PROVE  e \in Held(p)' => e \in Held(p)
        <4>1. o # e
          BY <1>7, <3>1
        <4>2. View(e)' = View(e)
          BY <3>1, <4>1, OthersSpend DEF StepOf, Evaluate
        <4> QED
          BY <1>1, <4>2, ViewDecides
      <3>2. CASE \A o \in Evaluations : ~ReadActive(o) /\ ~Reopen(o)
        BY <3>2, HeldShrinks
      <3> QED
        BY <3>1, <3>2
    <2>3. run'[e] = "unsettled" => run[e] = "unsettled" \/ e \in Held(p)
      <3>1. CASE Evaluate(e)
        BY <3>1 DEF Evaluate, Receive, FetchPolicy, ReadSpend, ReadActive, QueryFails, Create,
                    Notify, Crash, runs
      <3>2. CASE EndRun(e)
        BY <1>4, <3>2 DEF EndRun, Held
      <3>3. CASE MakeRow(e) \/ StartRun(e)
        BY <3>3 DEF MakeRow, StartRun, ControlTypeOK
      <3>4. CASE RecordCost(e)
        BY <1>4, <3>4 DEF RecordCost, ControlTypeOK, Held
      <3> QED
        BY <1>7, <3>1, <3>2, <3>3, <3>4 DEF StepOf
    <2> QED
      BY <1>4, <1>5, <1>7, <2>2, <2>3 DEF Live
  <1>8. CASE ReadActive(e) /\ ~Reopen(e)
    <2>1. run' = run
      BY <1>8 DEF ReadActive, runs
    <2> QED
      BY <1>4, <1>5, <1>8, <2>1 DEF Live
  <1> QED
    BY <1>6, <1>7, <1>8

\* What it does to the evaluations that may be let past next.
LEMMA WaitingStep ==
    ASSUME ControlTypeOK, \A o \in Evaluations : EvaluationInv(o),
           \A o \in Evaluations : RowInv(o),
           NEW p \in Policies, NEW d \in 1..today, NEW e \in Evaluations, StepOf(e)
    PROVE  /\ \/ Waiting(p, d)' \subseteq Waiting(p, d)
              \/ /\ FetchPolicy(e) /\ Waiting(p, d)' \subseteq Waiting(p, d) \cup {e}
                 /\ e \notin Waiting(p, d) /\ e \notin Live(p, d)
           /\ \/ Fresh(p, d)' \subseteq Fresh(p, d)
              \/ /\ ReadSpend(e) /\ Fresh(p, d)' \subseteq Fresh(p, d) \cup {e}
                 /\ e \in Waiting(p, d) /\ asOf[e] = d /\ pc[e] = "spend"
           /\ Stale(p, d)' \subseteq Stale(p, d)
           /\ \A o \in Fresh(p, d)' \cap Fresh(p, d) : spend'[o] = spend[o]
           /\ d < today => Pending(p, d)' \subseteq Pending(p, d)
  <1>1. /\ request' = request /\ today' = today /\ today \in Nat /\ d \in Nat /\ d <= today
        /\ EvaluationInv(e) /\ RowInv(e)
    BY OthersSpend, BoundsAssumption DEF ControlTypeOK
  <1>2. \A o \in Evaluations \ {e} :
           /\ o \in Waiting(p, d)' <=> o \in Waiting(p, d)
           /\ o \in Fresh(p, d)' <=> o \in Fresh(p, d)
           /\ o \in Stale(p, d)' <=> o \in Stale(p, d)
           /\ o \in Pending(p, d)' <=> o \in Pending(p, d)
           /\ spend'[o] = spend[o]
    <2> TAKE o \in Evaluations \ {e}
    <2>1. View(o)' = View(o) /\ asOf'[o] = asOf[o] /\ spend'[o] = spend[o]
      BY OthersSpend
    <2>2. o \in Waiting(p, d)' <=> o \in Waiting(p, d)
      BY <1>1, <2>1 DEF View, Waiting, OfDay, InScope
    <2> QED
      BY <1>1, <2>1, <2>2 DEF View, Fresh, Stale, Pending, InScope
  <1>3. /\ Waiting(p, d)' \subseteq Evaluations /\ Fresh(p, d)' \subseteq Waiting(p, d)'
        /\ Stale(p, d)' \subseteq Waiting(p, d)' /\ Pending(p, d)' \subseteq Evaluations
    BY DEF Waiting, Fresh, Stale, Pending
  <1>4. d < today /\ e \in Pending(p, d)' => e \in Pending(p, d)
    <2> SUFFICES ASSUME d < today, InScope(p, e), run'[e] = "pending", created'[e] = d
                 PROVE  run[e] = "pending" /\ created[e] = d
      BY <1>1 DEF Pending, InScope
    <2>1. CASE Evaluate(e)
      BY <2>1 DEF Evaluate, Receive, FetchPolicy, ReadSpend, ReadActive, QueryFails, Create,
                  Notify, Crash, runs
    <2>2. CASE ~Evaluate(e)
      BY <1>1, <2>2 DEF StepOf, MakeRow, StartRun, EndRun, RecordCost, Reopen, ControlTypeOK
    <2> QED
      BY <2>1, <2>2
  <1>5. CASE ~(FetchPolicy(e) /\ Goto(e, "spend")) /\ ~ReadSpend(e)
    <2>1. e \notin Waiting(p, d)'
      <3>1. CASE Evaluate(e)
        <4>1. pc'[e] \notin {"spend", "active"}
          <5>1. CASE FetchPolicy(e) \/ ReadActive(e)
            BY <1>5, <5>1 DEF FetchPolicy, ReadActive, AfterScope, Goto, Reply, ControlTypeOK
          <5>2. CASE Receive(e) \/ QueryFails(e) \/ Create(e) \/ Notify(e) \/ Crash(e)
            BY <5>2 DEF Receive, QueryFails, Create, Notify, Crash, Goto, Reply, ControlTypeOK
          <5> QED
            BY <1>5, <3>1, <5>1, <5>2 DEF Evaluate
        <4> QED
          BY <4>1 DEF Waiting
      <3>2. CASE ~Evaluate(e)
        <4>1. pc[e] \notin {"spend", "active"} /\ pc' = pc
          BY <1>1, <3>2, NullAssumption
          DEF StepOf, MakeRow, StartRun, EndRun, RecordCost, Reopen, evaluation,
              EvaluationInv, Started
        <4> QED
          BY <4>1 DEF Waiting
      <3> QED
        BY <3>1, <3>2
    <2> QED
      BY <1>2, <1>3, <1>4, <2>1 DEF Fresh, Stale
  <1>6. CASE FetchPolicy(e) /\ Goto(e, "spend")
    <2>1. /\ pc[e] = "policy" /\ pc'[e] = "spend" /\ asOf'[e] = today
          /\ run' = run /\ at' = at
      BY <1>6 DEF FetchPolicy, AfterScope, Goto, Reply, ControlTypeOK, runs
    <2>2. e \notin Waiting(p, d) /\ e \notin Fresh(p, d)' /\ e \notin Stale(p, d)'
      BY <1>1, <2>1 DEF Waiting, Fresh, Stale
    <2>3. e \in Waiting(p, d)' => e \notin Live(p, d)
      <3>1. e \in Waiting(p, d)' => at[e] = Position[p.type] /\ InScope(p, e)
        BY <1>1, <2>1 DEF Waiting, InScope
      <3>2. at[e] = Position[p.type] => ~Counted(p, e)
        BY <2>1 DEF Counted, LoopPoints, ControlTypeOK
      <3>3. run[e] \notin {"running", "unsettled"}
        BY <1>1, <2>1 DEF EvaluationInv, Started
      <3> QED
        BY <3>1, <3>2, <3>3 DEF Live, Held
    <2> QED
      BY <1>2, <1>3, <1>4, <1>6, <2>2, <2>3
  <1>7. CASE ReadSpend(e)
    <2>1. /\ pc[e] = "spend" /\ pc'[e] = "active" /\ asOf' = asOf /\ run' = run /\ at' = at
          /\ created' = created
      BY <1>7 DEF ReadSpend, Goto, ControlTypeOK, runs
    <2>2. e \in Waiting(p, d)' => e \in Waiting(p, d)
      BY <1>1, <2>1 DEF Waiting, OfDay, InScope
    <2>3. /\ e \notin Fresh(p, d) /\ (e \in Fresh(p, d)' => e \in Waiting(p, d)' /\ asOf[e] = d)
          /\ e \in Stale(p, d)' => e \in Waiting(p, d)' /\ asOf[e] < d
      BY <2>1 DEF Fresh, Stale
    <2>4. e \in Stale(p, d)' => e \in Stale(p, d)
      BY <2>2, <2>3 DEF Stale
    <2> QED
      BY <1>2, <1>3, <1>4, <1>7, <2>1, <2>2, <2>3, <2>4
  <1> QED
    BY <1>5, <1>6, <1>7

\* The other steps only take away from these sets.
LEMMA OtherDay ==
    ASSUME ControlTypeOK, \A o \in Evaluations : EvaluationInv(o), [Next]_vars,
           \A e \in Evaluations : ~StepOf(e), NEW p \in Policies, NEW d \in 1..today
    PROVE  /\ Live(p, d)' \subseteq Live(p, d)
           /\ Waiting(p, d)' \subseteq Waiting(p, d)
           /\ Fresh(p, d)' \subseteq Fresh(p, d)
           /\ Stale(p, d)' \subseteq Stale(p, d)
           /\ Pending(p, d)' \subseteq Pending(p, d)
           /\ spend' = spend /\ request' = request /\ reopened' = reopened
           /\ today' \in Nat /\ today <= today'
  <1>1. UNCHANGED <<request, evaluation, runs>> /\ (today' = today \/ today' = today + 1)
    BY OtherSteps DEF Midnight
  <1>2. today \in Nat /\ d \in Nat
    BY BoundsAssumption DEF ControlTypeOK
  <1>3. Held(p)' \subseteq Held(p)
    BY HeldShrinks DEF StepOf, Evaluate
  <1>4. \A o \in Evaluations : OfDay(o, d)' => OfDay(o, d)
    BY <1>1, <1>2 DEF OfDay, runs
  <1>5. Waiting(p, d)' \subseteq Waiting(p, d) /\ Live(p, d)' \subseteq Live(p, d)
    BY <1>1, <1>3, <1>4 DEF Waiting, Live, InScope, evaluation, runs
  <1> QED
    BY <1>1, <1>2, <1>5 DEF Fresh, Stale, Pending, InScope, evaluation, runs

-----------------------------------------------------------------------------
(* The sets that cover a day.                                               *)

\* What most steps below need of the invariant.
LEMMA BaseFacts ==
    ASSUME SpendBase, NEW p \in Policies
    PROVE  /\ ControlTypeOK /\ \A e \in Evaluations : EvaluationInv(e) /\ RowInv(e)
           /\ p.daily \in Nat /\ p.concurrency \in Nat \ {0}
           /\ Places(p) \in Nat /\ today \in Nat /\ reopened \in Nat
           /\ \A e \in Evaluations : request[e].cost \in Nat /\ spend[e] \in Nat
           /\ \A d, T : Load(p, d, T) \in Nat
           /\ \A T \in SUBSET Evaluations : IsFiniteSet(T) /\ Cardinality(T) \in Nat
  <1>1. ControlTypeOK /\ \A e \in Evaluations : EvaluationInv(e) /\ RowInv(e)
    BY DEF SpendBase, PolicyInv
  <1>2. today \in Nat /\ reopened \in Nat
    BY <1>1, BoundsAssumption DEF ControlTypeOK
  <1>3. \A e \in Evaluations : spend[e] \in Nat
    BY DEF SpendBase
  <1>4. \A T \in SUBSET Evaluations : IsFiniteSet(T) /\ Cardinality(T) \in Nat
    BY FiniteAssumption, FS_Subset, FS_CardinalityType
  <1> QED
    BY <1>1, <1>2, <1>3, <1>4, CostsType, LoadType

\* A load is a number after the step, too.
LEMMA NextLoad ==
    ASSUME ControlTypeOK', NEW p \in Policies, NEW d, NEW T
    PROVE  Load(p, d, T)' \in Nat
  <1>1. (ControlTypeOK => Load(p, d, T) \in Nat)'
    BY LoadType, PTL
  <1> QED
    BY <1>1

\* There are more places once another run was reopened.
LEMMA RoomGrows ==
    ASSUME SpendBase, NEW p \in Policies, reopened' \in Nat, reopened <= reopened'
    PROVE  Places(p)' \in Nat /\ Places(p) <= Places(p)'
  BY BaseFacts, BoundsAssumption DEF Places

\* A step that lets past only evaluations that are accounted for.
LEMMA CoverKept ==
    ASSUME SpendBase, ControlTypeOK', [Next]_vars, NEW p \in Policies, NEW d \in 1..today,
           NEW T \in SUBSET Evaluations, NEW F \in [Evaluations -> SUBSET Evaluations],
           Covered(p, d, T, F),
           Live(p, d)' \subseteq Live(p, d) \cup (Waiting(p, d) \cap T),
           Waiting(p, d)' \subseteq Waiting(p, d),
           Fresh(p, d)' \subseteq Fresh(p, d),
           Stale(p, d)' \subseteq Stale(p, d),
           d < today => Pending(p, d)' \subseteq Pending(p, d) /\ d < today',
           \A a \in Fresh(p, d)' : spend'[a] = spend[a],
           reopened' \in Nat, reopened <= reopened'
    PROVE  Covered(p, d, T, F)'
  <1>1. Places(p)' \in Nat /\ Places(p) \in Nat /\ Places(p) <= Places(p)'
    BY RoomGrows, BaseFacts
  <1>2. Live(p, d)' \cup Stale(p, d)' \subseteq T
    BY DEF Covered
  <1>3. ASSUME NEW R \in SUBSET Evaluations, Live(p, d) \subseteq R, NEW n \in Nat,
               Load(p, d, R) <= n
        PROVE  Load(p, d, R)' <= n
    <2>1. Load(p, d, R)' <= Load(p, d, R)
      BY <1>3, LoadStep, BaseFacts
    <2>2. Load(p, d, R)' \in Nat /\ Load(p, d, R) \in Nat
      BY NextLoad, BaseFacts
    <2> QED
      BY <1>3, <2>1, <2>2
  <1>4. Load(p, d, T) <= p.daily => Load(p, d, T)' <= p.daily
    BY <1>3, BaseFacts DEF Covered
  <1>5. Cardinality(T) \in Nat /\ p.concurrency \in Nat
    BY BaseFacts
  <1>6. CASE Closed(p, d, T)
    BY <1>1, <1>2, <1>4, <1>5, <1>6 DEF Covered, Closed
  <1>7. CASE Guarded(p, d, T, F)
    <2>1. ASSUME NEW a \in Fresh(p, d)' \ T
          PROVE  /\ Live(p, d)' \cup {a} \cup (Waiting(p, d)' \cap T) \subseteq F[a]
                 /\ Load(p, d, F[a])' <= spend'[a] /\ Cardinality(F[a]) <= Places(p)'
                 /\ \A b \in Fresh(p, d)' \ T :
                       b \in F[a] \/ Waiting(p, d)' \cap F[a] \subseteq F[b]
      <3>1. a \in Fresh(p, d) \ T /\ a \in Evaluations /\ spend'[a] = spend[a]
        BY DEF Fresh, Waiting
      <3>2. /\ Live(p, d) \cup {a} \cup (Waiting(p, d) \cap T) \subseteq F[a]
            /\ Load(p, d, F[a]) <= spend[a] /\ Cardinality(F[a]) <= Places(p)
            /\ \A b \in Fresh(p, d) \ T : b \in F[a] \/ Waiting(p, d) \cap F[a] \subseteq F[b]
        BY <1>7, <3>1 DEF Guarded
      <3>3. F[a] \in SUBSET Evaluations /\ spend[a] \in Nat /\ Cardinality(F[a]) \in Nat
        BY <3>1, BaseFacts
      <3>4. Load(p, d, F[a])' <= spend'[a]
        BY <1>3, <3>1, <3>2, <3>3
      <3> QED
        BY <1>1, <3>1, <3>2, <3>3, <3>4
    <2> QED
      BY <1>1, <1>2, <1>4, <1>5, <1>7, <2>1 DEF Covered, Guarded
  <1> QED
    BY <1>6, <1>7 DEF Covered

\* An ended run is called running again.
LEMMA CoverReopen ==
    ASSUME SpendBase, ControlTypeOK', [Next]_vars, NEW p \in Policies, NEW d \in 1..today,
           NEW T \in SUBSET Evaluations, NEW F \in [Evaluations -> SUBSET Evaluations],
           Covered(p, d, T, F), NEW e \in Evaluations, Reopen(e),
           Live(p, d)' \subseteq Live(p, d) \cup {e}
    PROVE  DayIsCovered(p, d)'
  <1> DEFINE V == T \cup {e}
  <1> DEFINE G == [a \in Evaluations |-> F[a] \cup {e}]
  <1>1. /\ today' = today /\ run[e] \in {"unsettled", "ended"}
        /\ reopened' = reopened + 1 /\ pc' = pc /\ spend' = spend /\ asOf' = asOf
    BY BaseFacts DEF Reopen, evaluation
  <1>2. e \notin Waiting(p, d)
    BY <1>1, BaseFacts DEF Waiting, EvaluationInv, Started
  <1>3. /\ Waiting(p, d)' \subseteq Waiting(p, d) /\ Fresh(p, d)' \subseteq Fresh(p, d)
        /\ Stale(p, d)' \subseteq Stale(p, d)
        /\ d < today => Pending(p, d)' \subseteq Pending(p, d)
    <2>1. ~FetchPolicy(e) /\ ~ReadSpend(e)
      BY <1>1, BaseFacts DEF FetchPolicy, ReadSpend, EvaluationInv, Started
    <2> QED
      BY <2>1, WaitingStep, BaseFacts DEF StepOf
  <1>4. /\ Places(p)' = Places(p) + 1 /\ Places(p) \in Nat
        /\ p.daily \in Nat /\ p.concurrency \in Nat
    BY <1>1, BaseFacts, BoundsAssumption DEF Places
  <1>5. ASSUME NEW R \in SUBSET Evaluations, Live(p, d) \subseteq R, NEW n \in Nat,
               Load(p, d, R) <= n
        PROVE  Load(p, d, R \cup {e})' <= n
    <2>1. R \cup {e} \in SUBSET Evaluations /\ Live(p, d) \subseteq R \cup {e}
      BY <1>5
    <2>2. Load(p, d, R \cup {e})' <= Load(p, d, R \cup {e})
      BY <2>1, LoadStep, BaseFacts
    <2>3. Load(p, d, R \cup {e}) <= Load(p, d, R)
      BY LoadShrinks, BaseFacts
    <2>4. /\ Load(p, d, R \cup {e})' \in Nat /\ Load(p, d, R \cup {e}) \in Nat
          /\ Load(p, d, R) \in Nat
      BY NextLoad, BaseFacts
    <2> QED
      BY <1>5, <2>2, <2>3, <2>4
  <1>6. ASSUME NEW R \in SUBSET Evaluations
        PROVE  /\ Cardinality(R \cup {e}) <= Cardinality(R) + 1
               /\ Cardinality(R \cup {e}) \in Nat /\ Cardinality(R) \in Nat
    <2>1. /\ IsFiniteSet(R) /\ Cardinality(R) \in Nat
      BY BaseFacts
    <2>2. /\ IsFiniteSet(R \cup {e})
          /\ Cardinality(R \cup {e}) = IF e \in R THEN Cardinality(R) ELSE Cardinality(R) + 1
      BY <2>1, FS_AddElement
    <2> QED
      BY <2>1, <2>2
  <1>7. V \in SUBSET Evaluations /\ G \in [Evaluations -> SUBSET Evaluations]
    OBVIOUS
  <1>8. Live(p, d)' \cup Stale(p, d)' \subseteq V
    BY <1>3 DEF Covered
  <1>9. Load(p, d, T) <= p.daily => Load(p, d, V)' <= p.daily
    BY <1>4, <1>5 DEF Covered
  <1>10. /\ Cardinality(V) <= Cardinality(T) + 1
         /\ Cardinality(V) \in Nat /\ Cardinality(T) \in Nat
    BY <1>6
  <1>11. CASE Closed(p, d, T)
    <2>1. Pending(p, d)' \subseteq V
      BY <1>3, <1>11 DEF Closed
    <2> HIDE DEF V, G
    <2>2. Covered(p, d, V, G)'
      BY <1>1, <1>4, <1>8, <1>9, <1>10, <1>11, <2>1 DEF Covered, Closed
    <2> QED
      BY <1>7, <2>2 DEF DayIsCovered
  <1>12. CASE Guarded(p, d, T, F)
    <2>1. ASSUME NEW a \in Fresh(p, d)' \ V
          PROVE  /\ Live(p, d)' \cup {a} \cup (Waiting(p, d)' \cap V) \subseteq G[a]
                 /\ Load(p, d, G[a])' <= spend'[a] /\ Cardinality(G[a]) <= Places(p)'
                 /\ \A b \in Fresh(p, d)' \ V :
                       b \in G[a] \/ Waiting(p, d)' \cap G[a] \subseteq G[b]
      <3>1. a \in Fresh(p, d) \ T /\ a \in Evaluations
        BY <1>3 DEF Fresh, Waiting
      <3>2. /\ Live(p, d) \cup {a} \cup (Waiting(p, d) \cap T) \subseteq F[a]
            /\ Load(p, d, F[a]) <= spend[a] /\ Cardinality(F[a]) <= Places(p)
            /\ \A b \in Fresh(p, d) \ T : b \in F[a] \/ Waiting(p, d) \cap F[a] \subseteq F[b]
        BY <1>12, <3>1 DEF Guarded
      <3>3. F[a] \in SUBSET Evaluations /\ G[a] = F[a] \cup {e}
        BY <3>1
      <3>4. spend[a] \in Nat
        BY <3>1, BaseFacts
      <3>5. Load(p, d, G[a])' <= spend'[a]
        BY <1>1, <1>5, <3>2, <3>3, <3>4
      <3>6. Cardinality(G[a]) <= Places(p)'
        BY <1>4, <1>6, <3>2, <3>3
      <3>7. \A b \in Fresh(p, d)' \ V :
               b \in G[a] \/ Waiting(p, d)' \cap G[a] \subseteq G[b]
        <4> TAKE b \in Fresh(p, d)' \ V
        <4>1. b \in Fresh(p, d) \ T /\ b \in Evaluations
          BY <1>3 DEF Fresh, Waiting
        <4>2. G[b] = F[b] \cup {e}
          BY <4>1
        <4> HIDE DEF G
        <4> QED
          BY <1>3, <3>2, <3>3, <4>1, <4>2
      <3>8. Live(p, d)' \cup {a} \cup (Waiting(p, d)' \cap V) \subseteq G[a]
        <4> HIDE DEF G
        <4> QED
          BY <1>3, <3>2, <3>3
      <3> QED
        BY <3>5, <3>6, <3>7, <3>8
    <2> HIDE DEF V, G
    <2>2. Load(p, d, V)' <= p.daily /\ Cardinality(V) <= Places(p)'
      BY <1>4, <1>9, <1>10, <1>12 DEF Guarded
    <2>3. Covered(p, d, V, G)'
      BY <1>8, <2>1, <2>2 DEF Covered, Guarded
    <2> QED
      BY <1>7, <2>3 DEF DayIsCovered
  <1> QED
    BY <1>11, <1>12 DEF Covered

\* An evaluation comes to ask what was spent: it has not been let past yet, and its
\* run has cost nothing.
LEMMA CoverFetch ==
    ASSUME SpendBase, ControlTypeOK', [Next]_vars, NEW p \in Policies, NEW d \in 1..today,
           NEW T \in SUBSET Evaluations, NEW F \in [Evaluations -> SUBSET Evaluations],
           Covered(p, d, T, F), NEW e \in Evaluations, FetchPolicy(e),
           Waiting(p, d)' \subseteq Waiting(p, d) \cup {e}, e \notin Waiting(p, d),
           e \notin Live(p, d)
    PROVE  DayIsCovered(p, d)'
  <1> DEFINE V == T \ {e}
  <1> DEFINE G == [a \in Evaluations |-> F[a] \ {e}]
  <1>1. /\ today' = today /\ spend' = spend /\ Places(p)' = Places(p) /\ pc[e] = "policy"
    BY DEF FetchPolicy, runs, Places
  <1>2. cost[e] = 0
    <2>1. run[e] \in {"none", "pending"}
      BY <1>1, BaseFacts DEF EvaluationInv, Started, ControlTypeOK
    <2> QED
      BY <2>1, BaseFacts DEF RowInv
  <1>3. Live(p, d)' \subseteq Live(p, d)
    <2>1. ~Reopen(e) /\ ~ReadActive(e)
      BY <1>1, BaseFacts DEF Reopen, ReadActive, EvaluationInv, Started
    <2> QED
      BY <2>1, LiveStep, BaseFacts DEF StepOf, Evaluate
  <1>4. /\ Fresh(p, d)' \subseteq Fresh(p, d) /\ Stale(p, d)' \subseteq Stale(p, d)
        /\ d < today => Pending(p, d)' \subseteq Pending(p, d)
    <2>1. ~ReadSpend(e)
      BY <1>1 DEF ReadSpend
    <2> QED
      BY <2>1, WaitingStep, BaseFacts DEF StepOf, Evaluate
  <1>5. ASSUME NEW R \in SUBSET Evaluations, Live(p, d) \subseteq R, NEW n \in Nat,
               Load(p, d, R) <= n
        PROVE  Load(p, d, R \ {e})' <= n /\ Load(p, d, R)' <= n
    <2>1. R \ {e} \in SUBSET Evaluations /\ Live(p, d) \subseteq R \ {e}
      BY <1>5
    <2>2. Load(p, d, R \ {e})' <= Load(p, d, R \ {e}) /\ Load(p, d, R)' <= Load(p, d, R)
      BY <1>5, <2>1, LoadStep, BaseFacts
    <2>3. Load(p, d, R \ {e}) <= Load(p, d, R)
      <3>1. \A o \in R \ (R \ {e}) : o \in Evaluations => cost[o] = 0
        BY <1>2
      <3> QED
        BY <3>1, LoadShrinks, BaseFacts
    <2>4. /\ Load(p, d, R \ {e})' \in Nat /\ Load(p, d, R \ {e}) \in Nat
          /\ Load(p, d, R)' \in Nat /\ Load(p, d, R) \in Nat
      BY NextLoad, BaseFacts
    <2> QED
      BY <1>5, <2>2, <2>3, <2>4
  <1>6. ASSUME NEW R \in SUBSET Evaluations, NEW n \in Nat, Cardinality(R) <= n
        PROVE  Cardinality(R \ {e}) <= n
    <2>1. IsFiniteSet(R) /\ Cardinality(R) \in Nat /\ R \ {e} \subseteq R
      BY BaseFacts
    <2>2. Cardinality(R \ {e}) <= Cardinality(R) /\ Cardinality(R \ {e}) \in Nat
      BY <2>1, FS_Subset, FS_CardinalityType
    <2> QED
      BY <1>6, <2>1, <2>2
  <1>7. V \in SUBSET Evaluations /\ G \in [Evaluations -> SUBSET Evaluations]
    OBVIOUS
  <1>8. Live(p, d)' \cup Stale(p, d)' \subseteq V
    BY <1>3, <1>4 DEF Covered, Stale
  <1>9. CASE Closed(p, d, T)
    <2>1. Live(p, d)' \cup Stale(p, d)' \subseteq T
      BY <1>3, <1>4 DEF Covered
    <2>2. Load(p, d, T)' <= p.daily
      BY <1>5, <1>9, BaseFacts DEF Covered, Closed
    <2>3. Covered(p, d, T, F)'
      BY <1>1, <1>4, <1>9, <2>1, <2>2 DEF Covered, Closed
    <2> QED
      BY <2>3 DEF DayIsCovered
  <1>10. CASE Guarded(p, d, T, F)
    <2>1. ASSUME NEW a \in Fresh(p, d)' \ V
          PROVE  /\ Live(p, d)' \cup {a} \cup (Waiting(p, d)' \cap V) \subseteq G[a]
                 /\ Load(p, d, G[a])' <= spend'[a] /\ Cardinality(G[a]) <= Places(p)'
                 /\ \A b \in Fresh(p, d)' \ V :
                       b \in G[a] \/ Waiting(p, d)' \cap G[a] \subseteq G[b]
      <3>1. a \in Fresh(p, d) \ T /\ a \in Evaluations /\ a # e
        BY <1>4 DEF Fresh, Waiting
      <3>2. /\ Live(p, d) \cup {a} \cup (Waiting(p, d) \cap T) \subseteq F[a]
            /\ Load(p, d, F[a]) <= spend[a] /\ Cardinality(F[a]) <= Places(p)
            /\ \A b \in Fresh(p, d) \ T : b \in F[a] \/ Waiting(p, d) \cap F[a] \subseteq F[b]
        BY <1>10, <3>1 DEF Guarded
      <3>3. F[a] \in SUBSET Evaluations /\ G[a] = F[a] \ {e}
        BY <3>1
      <3>4. spend[a] \in Nat /\ Places(p) \in Nat
        BY <3>1, BaseFacts
      <3>5. Load(p, d, G[a])' <= spend'[a]
        BY <1>1, <1>5, <3>2, <3>3, <3>4
      <3>6. Cardinality(G[a]) <= Places(p)'
        BY <1>1, <1>6, <3>2, <3>3, <3>4
      <3>7. \A b \in Fresh(p, d)' \ V :
               b \in G[a] \/ Waiting(p, d)' \cap G[a] \subseteq G[b]
        <4> TAKE b \in Fresh(p, d)' \ V
        <4>1. b \in Fresh(p, d) \ T /\ b \in Evaluations /\ b # e
          BY <1>4 DEF Fresh, Waiting
        <4>2. G[b] = F[b] \ {e}
          BY <4>1
        <4> HIDE DEF G
        <4> QED
          BY <3>2, <3>3, <4>1, <4>2
      <3>8. Live(p, d)' \cup {a} \cup (Waiting(p, d)' \cap V) \subseteq G[a]
        <4> HIDE DEF G
        <4> QED
          BY <1>3, <3>1, <3>2, <3>3
      <3> QED
        BY <3>5, <3>6, <3>7, <3>8
    <2>2. Load(p, d, V)' <= p.daily
      BY <1>5, <1>10, BaseFacts DEF Covered, Guarded
    <2>3. Cardinality(V) <= Places(p)'
      BY <1>1, <1>6, <1>10, BaseFacts DEF Guarded
    <2> HIDE DEF V, G
    <2>4. Covered(p, d, V, G)'
      BY <1>8, <2>1, <2>2, <2>3 DEF Covered, Guarded
    <2> QED
      BY <1>7, <2>4 DEF DayIsCovered
  <1> QED
    BY <1>9, <1>10 DEF Covered

\* There are places for all that is live on a day, or may be let past.
LEMMA RoomForAll ==
    ASSUME SpendBase, NEW p \in Policies, NEW d
    PROVE  Cardinality(Live(p, d) \cup Waiting(p, d)) <= Places(p)
  <1>1. /\ Held(p) \in SUBSET Evaluations /\ Unsettled \in SUBSET Evaluations
        /\ Granting \in SUBSET Evaluations
        /\ Live(p, d) \cup Waiting(p, d) \in SUBSET Evaluations
    BY DEF Held, Unsettled, Granting, Live, Waiting
  <1>2. Waiting(p, d) \subseteq Granting
    BY BaseFacts DEF Waiting, Granting, EvaluationInv, Started, InFlightPoints, ControlTypeOK
  <1>3. Live(p, d) \subseteq Held(p) \cup Unsettled
    BY DEF Live, Unsettled
  <1> DEFINE H == Held(p) \cup Unsettled
  <1>4. /\ H \in SUBSET Evaluations /\ H \cup Granting \in SUBSET Evaluations
        /\ Live(p, d) \cup Waiting(p, d) \subseteq H \cup Granting
    BY <1>1, <1>2, <1>3
  <1>5. ASSUME NEW A \in SUBSET Evaluations, NEW B \in SUBSET Evaluations
        PROVE  Cardinality(A \cup B) <= Cardinality(A) + Cardinality(B)
    <2>1. IsFiniteSet(A) /\ IsFiniteSet(B) /\ Cardinality(A) \in Nat /\ Cardinality(B) \in Nat
      BY BaseFacts
    <2>2. /\ Cardinality(A \cup B) = Cardinality(A) + Cardinality(B) - Cardinality(A \cap B)
          /\ Cardinality(A \cap B) \in Nat
      BY <2>1, FS_Union, FS_Intersection, FS_CardinalityType
    <2> QED
      BY <2>1, <2>2
  <1>6. /\ Cardinality(H) <= Cardinality(Held(p)) + Cardinality(Unsettled)
        /\ Cardinality(H \cup Granting) <= Cardinality(H) + Cardinality(Granting)
    BY <1>1, <1>4, <1>5
  <1>7. Cardinality(Live(p, d) \cup Waiting(p, d)) <= Cardinality(H \cup Granting)
    BY <1>4, FS_Subset, BaseFacts
  <1>8. /\ Cardinality(Granting) <= MaxGrants /\ Cardinality(Unsettled) <= MaxUnsettled
        /\ Cardinality(Held(p)) <= p.concurrency + MaxGrants - 1 + reopened
    BY DEF SpendBase, PolicyInv, HeldIsBounded
  <1>9. /\ Cardinality(Held(p)) \in Nat /\ Cardinality(Unsettled) \in Nat
        /\ Cardinality(Granting) \in Nat /\ Cardinality(H) \in Nat
        /\ Cardinality(H \cup Granting) \in Nat
        /\ Cardinality(Live(p, d) \cup Waiting(p, d)) \in Nat
        /\ MaxGrants \in Nat /\ MaxUnsettled \in Nat /\ p.concurrency \in Nat /\ reopened \in Nat
    BY <1>1, <1>4, BoundsAssumption, BaseFacts
  <1> HIDE DEF H
  <1> QED
    BY <1>6, <1>7, <1>8, <1>9 DEF Places

\* An evaluation reads what was spent: whatever it does not see is live, or waits.
LEMMA CoverRead ==
    ASSUME SpendBase, ControlTypeOK', [Next]_vars, NEW p \in Policies, NEW d \in 1..today,
           NEW T \in SUBSET Evaluations, NEW F \in [Evaluations -> SUBSET Evaluations],
           Covered(p, d, T, F), NEW e \in Evaluations, ReadSpend(e),
           Fresh(p, d)' \subseteq Fresh(p, d) \cup {e},
           e \in Waiting(p, d), asOf[e] = d
    PROVE  DayIsCovered(p, d)'
  <1>1. today' = today /\ Places(p)' = Places(p) /\ pc[e] = "spend"
    BY DEF ReadSpend, runs, Places
  <1>2. Live(p, d)' \subseteq Live(p, d)
    <2>1. ~Reopen(e) /\ ~ReadActive(e)
      BY <1>1, BaseFacts DEF Reopen, ReadActive, EvaluationInv, Started
    <2> QED
      BY <2>1, LiveStep, BaseFacts DEF StepOf, Evaluate
  <1>3. /\ Waiting(p, d)' \subseteq Waiting(p, d) /\ Stale(p, d)' \subseteq Stale(p, d)
        /\ d < today => Pending(p, d)' \subseteq Pending(p, d)
    <2>1. ~FetchPolicy(e)
      BY <1>1 DEF FetchPolicy
    <2> QED
      BY <2>1, WaitingStep, BaseFacts DEF StepOf, Evaluate
  <1>4. spend'[e] = SpentOn(p, d) /\ \A o \in Evaluations \ {e} : spend'[o] = spend[o]
    <2>1. PICK q \in Applicable(e) : spend' = [spend EXCEPT ![e] = SpentOn(q, asOf[e])]
      BY DEF ReadSpend
    <2>2. p = q
      <3>1. p \in Applicable(e)
        BY PositionInScope, BaseFacts DEF Waiting
      <3> QED
        BY <2>1, <3>1, PoliciesAssumption DEF Applicable
    <2> QED
      BY <2>1, <2>2 DEF SpendBase
  <1>5. ASSUME NEW R \in SUBSET Evaluations, Live(p, d) \subseteq R, NEW n \in Nat,
               Load(p, d, R) <= n
        PROVE  Load(p, d, R)' <= n
    <2>1. Load(p, d, R)' <= Load(p, d, R)
      BY <1>5, LoadStep, BaseFacts
    <2>2. Load(p, d, R)' \in Nat /\ Load(p, d, R) \in Nat
      BY NextLoad, BaseFacts
    <2> QED
      BY <1>5, <2>1, <2>2
  <1>6. Live(p, d)' \cup Stale(p, d)' \subseteq T
    BY <1>2, <1>3 DEF Covered
  <1>7. Load(p, d, T) <= p.daily => Load(p, d, T)' <= p.daily
    BY <1>5, BaseFacts DEF Covered
  <1>8. CASE Closed(p, d, T)
    <2>1. Covered(p, d, T, F)'
      BY <1>1, <1>3, <1>6, <1>7, <1>8 DEF Covered, Closed
    <2> QED
      BY <2>1 DEF DayIsCovered
  <1>9. CASE Guarded(p, d, T, F)
    <2>1. PICK V \in SUBSET Evaluations : V = Live(p, d) \cup Waiting(p, d)
      BY DEF Live, Waiting
    <2> DEFINE G == [F EXCEPT ![e] = V]
    <2>2. /\ G \in [Evaluations -> SUBSET Evaluations] /\ G[e] = V
          /\ \A o \in Evaluations \ {e} : G[o] = F[o]
      OBVIOUS
    <2> HIDE DEF G
    <2>3. Load(p, d, V) <= SpentOn(p, d) /\ SpentOn(p, d) \in Nat
      <3>1. Load(p, d, V) <= Load(p, d, {})
        BY LoadShrinks, BaseFacts
      <3> QED
        BY <3>1, SpentIsTotal, BaseFacts
    <2>4. Cardinality(V) <= Places(p)
      BY <2>1, RoomForAll
    <2>5. ASSUME NEW a \in Fresh(p, d)' \ T
          PROVE  /\ Live(p, d)' \cup {a} \cup (Waiting(p, d)' \cap T) \subseteq G[a]
                 /\ Load(p, d, G[a])' <= spend'[a] /\ Cardinality(G[a]) <= Places(p)'
                 /\ \A b \in Fresh(p, d)' \ T :
                       b \in G[a] \/ Waiting(p, d)' \cap G[a] \subseteq G[b]
      <3>1. a \in Evaluations /\ G[a] \in SUBSET Evaluations
        BY <2>2 DEF Fresh, Waiting
      <3>2. /\ Live(p, d) \cup {a} \cup (Waiting(p, d) \cap T) \subseteq G[a]
            /\ Load(p, d, G[a]) <= spend'[a] /\ Cardinality(G[a]) <= Places(p)
            /\ \A b \in Fresh(p, d)' \ T :
                  b \in G[a] \/ Waiting(p, d)' \cap G[a] \subseteq G[b]
        <4>1. CASE a = e
          <5>1. \A b \in Fresh(p, d)' : b \in V
            BY <2>1 DEF Fresh, Waiting
          <5>2. Live(p, d) \cup {a} \cup (Waiting(p, d) \cap T) \subseteq G[a]
            BY <2>1, <2>2, <4>1
          <5> QED
            BY <1>4, <2>2, <2>3, <2>4, <4>1, <5>1, <5>2
        <4>2. CASE a # e
          <5>1. a \in Fresh(p, d) \ T /\ spend'[a] = spend[a] /\ G[a] = F[a]
            BY <1>4, <2>2, <3>1, <4>2
          <5>2. /\ Live(p, d) \cup {a} \cup (Waiting(p, d) \cap T) \subseteq F[a]
                /\ Load(p, d, F[a]) <= spend[a] /\ Cardinality(F[a]) <= Places(p)
                /\ \A b \in Fresh(p, d) \ T : b \in F[a] \/ Waiting(p, d) \cap F[a] \subseteq F[b]
            BY <1>9, <5>1 DEF Guarded
          <5>3. \A b \in Fresh(p, d)' \ T :
                   b \in G[a] \/ Waiting(p, d)' \cap G[a] \subseteq G[b]
            <6> TAKE b \in Fresh(p, d)' \ T
            <6>1. b \in Evaluations
              BY DEF Fresh, Waiting
            <6>2. CASE b = e
              BY <1>3, <2>1, <2>2, <6>2
            <6>3. CASE b # e
              BY <1>3, <2>2, <5>1, <5>2, <6>1, <6>3
            <6> QED
              BY <6>2, <6>3
          <5> QED
            BY <5>1, <5>2, <5>3
        <4> QED
          BY <4>1, <4>2
      <3>3. spend'[a] \in Nat
        BY <1>4, <2>3, <3>1, BaseFacts
      <3>4. Load(p, d, G[a])' <= spend'[a]
        BY <1>5, <3>1, <3>2, <3>3
      <3> QED
        BY <1>1, <1>2, <1>3, <3>2, <3>4
    <2>6. Covered(p, d, T, G)'
      BY <1>1, <1>6, <1>7, <1>9, <2>5 DEF Covered, Guarded
    <2> QED
      BY <2>2, <2>6 DEF DayIsCovered
  <1> QED
    BY <1>8, <1>9 DEF Covered

\* An evaluation is let past.
LEMMA CoverPass ==
    ASSUME SpendBase, ControlTypeOK', [Next]_vars, NEW p \in Policies, NEW d \in 1..today,
           NEW T \in SUBSET Evaluations, NEW F \in [Evaluations -> SUBSET Evaluations],
           Covered(p, d, T, F), NEW e \in Evaluations, ReadActive(e),
           e \in Held(p)', e \notin Held(p), OfDay(e, d),
           Live(p, d)' \subseteq Live(p, d) \cup {e}
    PROVE  DayIsCovered(p, d)'
  <1>1. /\ today' = today /\ reopened' = reopened /\ spend' = spend
        /\ Places(p)' = Places(p) /\ Places(p) \in Nat
        /\ p.daily \in Nat /\ p.concurrency \in Nat \ {0}
        /\ today \in Nat /\ reopened \in Nat /\ d \in Nat /\ d <= today
        /\ request[e].cost \in Nat /\ spend[e] \in Nat /\ asOf[e] \in Nat /\ asOf[e] <= today
    <2>1. asOf[e] \in Nat /\ asOf[e] <= today
      BY BaseFacts, BoundsAssumption DEF ControlTypeOK, RowInv
    <2> QED
      BY <2>1, BaseFacts DEF ReadActive, runs, Places
  <1>2. /\ InScope(p, e) /\ pc[e] = "active" /\ at[e] = Position[p.type]
        /\ run[e] \in {"none", "pending"}
        /\ LimitsExceeded(p, e, spend[e], Cardinality(Active(p))) = {}
    BY LetPast, BaseFacts
  <1>3. ~(spend[e] + request[e].cost > p.daily) /\ ~(Cardinality(Active(p)) >= p.concurrency)
    BY <1>2 DEF LimitsExceeded, Limits
  <1>4. e \in Waiting(p, d)
    BY <1>1, <1>2 DEF Waiting
  <1>5. /\ Waiting(p, d)' \subseteq Waiting(p, d) /\ Fresh(p, d)' \subseteq Fresh(p, d)
        /\ Stale(p, d)' \subseteq Stale(p, d)
        /\ d < today => Pending(p, d)' \subseteq Pending(p, d)
    <2>1. ~FetchPolicy(e) /\ ~ReadSpend(e)
      BY <1>2 DEF FetchPolicy, ReadSpend
    <2> QED
      BY <2>1, WaitingStep, BaseFacts DEF StepOf, Evaluate
  <1>6. d < today => e \in Pending(p, d)
    BY <1>1, <1>2, <1>4 DEF OfDay, Pending
  <1>7. CASE e \in T
    <2>1. Live(p, d)' \subseteq Live(p, d) \cup (Waiting(p, d) \cap T)
      BY <1>4, <1>7
    <2>2. Covered(p, d, T, F)'
      BY <1>1, <1>5, <2>1, CoverKept
    <2> QED
      BY <2>2 DEF DayIsCovered
  <1>8. ASSUME NEW R \in SUBSET Evaluations, Live(p, d) \subseteq R, NEW n \in Nat,
               Load(p, d, R) <= n
        PROVE  Load(p, d, R)' <= n
    <2>1. Load(p, d, R)' <= Load(p, d, R)
      BY <1>8, LoadStep, BaseFacts
    <2>2. Load(p, d, R)' \in Nat /\ Load(p, d, R) \in Nat
      BY NextLoad, BaseFacts
    <2> QED
      BY <1>8, <2>1, <2>2
  <1>9. CASE e \notin T /\ asOf[e] = d
    <2>1. Guarded(p, d, T, F) /\ e \in Fresh(p, d) \ T
      BY <1>2, <1>4, <1>6, <1>9 DEF Covered, Closed, Fresh
    <2>2. PICK V \in SUBSET Evaluations : V = F[e]
      OBVIOUS
    <2>3. /\ Live(p, d) \cup {e} \cup (Waiting(p, d) \cap T) \subseteq V
          /\ Load(p, d, V) <= spend[e] /\ Cardinality(V) <= Places(p)
          /\ \A b \in Fresh(p, d) \ T : b \in V \/ Waiting(p, d) \cap V \subseteq F[b]
      BY <2>1, <2>2 DEF Guarded
    <2>4. Live(p, d)' \cup Stale(p, d)' \subseteq V
      <3>1. Stale(p, d) \subseteq Waiting(p, d) \cap T
        BY DEF Covered, Stale
      <3> QED
        BY <1>5, <2>3, <3>1
    <2>5. Load(p, d, V)' <= p.daily
      <3>1. Load(p, d, V)' <= spend[e]
        BY <1>1, <1>8, <2>3
      <3>2. Load(p, d, V)' \in Nat
        BY NextLoad
      <3> QED
        BY <1>1, <1>3, <3>1, <3>2
    <2>6. ASSUME NEW a \in Fresh(p, d)' \ V
          PROVE  /\ Live(p, d)' \cup {a} \cup (Waiting(p, d)' \cap V) \subseteq F[a]
                 /\ Load(p, d, F[a])' <= spend'[a] /\ Cardinality(F[a]) <= Places(p)'
                 /\ \A b \in Fresh(p, d)' \ V :
                       b \in F[a] \/ Waiting(p, d)' \cap F[a] \subseteq F[b]
      <3>1. \A b \in Fresh(p, d)' \ V : b \in Fresh(p, d) \ T
        BY <1>5, <2>3 DEF Fresh
      <3>2. a \in Fresh(p, d) \ T /\ a \in Evaluations /\ F[a] \in SUBSET Evaluations
        BY <3>1 DEF Fresh, Waiting
      <3>3. /\ Live(p, d) \cup {a} \cup (Waiting(p, d) \cap T) \subseteq F[a]
            /\ Load(p, d, F[a]) <= spend[a] /\ Cardinality(F[a]) <= Places(p)
            /\ \A b \in Fresh(p, d) \ T : b \in F[a] \/ Waiting(p, d) \cap F[a] \subseteq F[b]
        BY <2>1, <3>2 DEF Guarded
      <3>4. Waiting(p, d) \cap V \subseteq F[a] /\ e \in F[a]
        BY <1>4, <2>3, <3>2
      <3>5. spend[a] \in Nat
        BY <3>2, BaseFacts
      <3>6. Load(p, d, F[a])' <= spend'[a]
        BY <1>1, <1>8, <3>2, <3>3, <3>5
      <3>7. Live(p, d)' \cup {a} \cup (Waiting(p, d)' \cap V) \subseteq F[a]
        BY <1>5, <3>3, <3>4
      <3>8. \A b \in Fresh(p, d)' \ V : b \in F[a] \/ Waiting(p, d)' \cap F[a] \subseteq F[b]
        BY <1>5, <3>1, <3>3
      <3> QED
        BY <1>1, <3>3, <3>6, <3>7, <3>8
    <2>7. Covered(p, d, V, F)'
      BY <1>1, <2>3, <2>4, <2>5, <2>6 DEF Covered, Guarded
    <2> QED
      BY <2>7 DEF DayIsCovered
  <1>10. CASE e \notin T /\ asOf[e] > d
    <2>1. Guarded(p, d, T, F) /\ d < today
      BY <1>1, <1>6, <1>10 DEF Covered, Closed
    <2>2. PICK U \in SUBSET Evaluations : U = Pending(p, d)
      BY DEF Pending
    <2>3. PICK V \in SUBSET Evaluations : V = T \cup U
      OBVIOUS
    <2>4. Cardinality(V) <= Places(p) + p.concurrency - 1
      <3>1. U \subseteq Active(p) /\ Active(p) \in SUBSET Evaluations
        BY <2>2 DEF Pending, Active
      <3>2. Cardinality(U) <= Cardinality(Active(p))
        BY <3>1, FS_Subset, BaseFacts
      <3>3. /\ Cardinality(V) = Cardinality(T) + Cardinality(U) - Cardinality(T \cap U)
            /\ Cardinality(T \cap U) \in Nat
        <4>1. IsFiniteSet(T) /\ IsFiniteSet(U)
          BY BaseFacts
        <4> QED
          BY <2>3, <4>1, FS_Union, FS_Intersection, FS_CardinalityType
      <3>4. /\ Cardinality(T) \in Nat /\ Cardinality(U) \in Nat
            /\ Cardinality(Active(p)) \in Nat
        BY <3>1, BaseFacts
      <3>5. Cardinality(T) <= Places(p)
        BY <2>1 DEF Guarded
      <3> QED
        BY <1>1, <1>3, <3>2, <3>3, <3>4, <3>5
    <2>5. Load(p, d, V)' <= p.daily
      <3>1. Load(p, d, V) <= Load(p, d, T)
        BY <2>3, LoadShrinks, BaseFacts
      <3>2. Load(p, d, T) <= p.daily
        BY <2>1 DEF Guarded
      <3>3. Load(p, d, V) <= p.daily
        BY <1>1, <3>1, <3>2, BaseFacts
      <3>4. Live(p, d) \subseteq V
        BY <2>3 DEF Covered
      <3> QED
        BY <1>1, <1>8, <3>3, <3>4
    <2>6. Live(p, d)' \cup Stale(p, d)' \subseteq V /\ Pending(p, d)' \subseteq V
      BY <1>5, <1>6, <2>1, <2>2, <2>3 DEF Covered
    <2>7. Covered(p, d, V, F)'
      BY <1>1, <2>1, <2>4, <2>5, <2>6 DEF Covered, Closed
    <2> QED
      BY <2>7 DEF DayIsCovered
  <1>11. asOf[e] >= d \/ e \in T
    BY <1>1, <1>4 DEF Covered, Stale
  <1> QED
    BY <1>1, <1>7, <1>9, <1>10, <1>11

\* A day without rows has no load.
LEMMA LoadOfNothing ==
    ASSUME NEW p \in Policies, NEW d, CountedOn(p, d) = {}, NEW T
    PROVE  Load(p, d, T) = 0
  <1>1. CountedOn(p, d) \ T = {}
    OBVIOUS
  <1> QED
    BY <1>1, TotalEmpty DEF Load

\* A day begins.
LEMMA CoverNew ==
    ASSUME SpendBase, ControlTypeOK', [Next]_vars, Midnight, NEW p \in Policies, NEW d,
           d = today + 1
    PROVE  DayIsCovered(p, d)'
  <1>1. /\ request' = request /\ UNCHANGED <<evaluation, runs>> /\ today' = d
        /\ today \in Nat /\ d \in Nat /\ Places(p)' = Places(p) /\ Places(p) \in Nat
        /\ p.daily \in Nat
    BY BaseFacts DEF Midnight, runs, Places
  <1>2. \A o \in Evaluations : /\ EvaluationInv(o) /\ asOf[o] \in Nat /\ asOf[o] < d
                               /\ created[o] \in Nat /\ (run[o] # "none" => created[o] < d)
    BY <1>1, BaseFacts, BoundsAssumption DEF RowInv, ControlTypeOK
  <1>3. PICK T \in SUBSET Evaluations :
           T = {o \in Granting : run[o] = "none" /\ InScope(p, o)}
    BY DEF Granting
  <1>4. Live(p, d) \cup Live(p, d)' \subseteq T
    <2>1. Held(p)' \subseteq Held(p)
      <3>1. \A o \in Evaluations : ~ReadActive(o) /\ ~Reopen(o)
        <4> SUFFICES ASSUME NEW o \in Evaluations, ReadActive(o) \/ Reopen(o)
                     PROVE  FALSE
          OBVIOUS
        <4>1. today' = today
          BY OthersSpend, BaseFacts DEF StepOf, Evaluate
        <4> QED
          BY <1>1, <4>1
      <3> QED
        BY <3>1, HeldShrinks, BaseFacts
    <2>2. ASSUME NEW o \in Evaluations, InScope(p, o), run[o] = "none" \/ created[o] = d,
                 o \in Held(p) \/ run[o] = "unsettled"
          PROVE  o \in T
      <3>1. run[o] = "none" /\ o \in Held(p)
        BY <1>2, <2>2
      <3>2. o \in Granting
        BY <3>1 DEF Held
      <3> QED
        BY <1>3, <2>2, <3>1, <3>2
    <2> QED
      BY <1>1, <2>1, <2>2 DEF Live, OfDay, InScope, runs
  <1>5. Waiting(p, d)' \subseteq T
    <2> SUFFICES ASSUME NEW o \in Evaluations, pc[o] \in {"spend", "active"}, InScope(p, o),
                        run[o] = "none" \/ created[o] = d
                 PROVE  o \in T
      BY <1>1 DEF Waiting, OfDay, InScope, evaluation, runs
    <2>1. run[o] = "none"
      BY <1>2
    <2> QED
      BY <1>3, <2>1 DEF Granting, InFlightPoints
  <1>6. Fresh(p, d)' = {}
    BY <1>1, <1>2 DEF Fresh, Waiting, evaluation
  <1>7. CountedOn(p, d) = {}
    BY <1>2 DEF CountedOn
  <1>8. Cardinality(T) <= Places(p)
    <2>1. Granting \in SUBSET Evaluations /\ T \subseteq Granting
      BY <1>3 DEF Granting
    <2>2. /\ Cardinality(T) <= Cardinality(Granting)
          /\ Cardinality(T) \in Nat /\ Cardinality(Granting) \in Nat
      BY <2>1, FS_Subset, BaseFacts
    <2>3. Cardinality(Granting) <= MaxGrants
      BY DEF SpendBase, PolicyInv
    <2> QED
      BY <2>2, <2>3, BoundsAssumption, BaseFacts DEF Places
  <1>9. Load(p, d, T)' <= p.daily
    <2>1. Load(p, d, T)' <= Load(p, d, T)
      BY <1>4, LoadStep, BaseFacts
    <2>2. Load(p, d, T) = 0 /\ Load(p, d, T)' \in Nat
      BY <1>7, LoadOfNothing, NextLoad
    <2> QED
      BY <1>1, <2>1, <2>2
  <1>10. PICK F \in [Evaluations -> SUBSET Evaluations] : F = [o \in Evaluations |-> {}]
    OBVIOUS
  <1>11. Covered(p, d, T, F)'
    BY <1>1, <1>4, <1>5, <1>6, <1>8, <1>9 DEF Covered, Guarded, Stale
  <1> QED
    BY <1>11 DEF DayIsCovered

\* Every step keeps a day covered.
LEMMA DayStep ==
    ASSUME SpendBase, ControlTypeOK', [Next]_vars, NEW p \in Policies, NEW d \in 1..today,
           DayIsCovered(p, d)
    PROVE  DayIsCovered(p, d)'
  <1>1. PICK T \in SUBSET Evaluations, F \in [Evaluations -> SUBSET Evaluations] :
           Covered(p, d, T, F)
    BY DEF DayIsCovered
  <1>2. reopened' \in Nat /\ reopened <= reopened'
    BY ReopenedGrows, BaseFacts
  <1>3. ASSUME NEW e \in Evaluations, StepOf(e) PROVE DayIsCovered(p, d)'
    <2>1. \/ Live(p, d)' \subseteq Live(p, d)
          \/ Reopen(e) /\ Live(p, d)' \subseteq Live(p, d) \cup {e} /\ InScope(p, e)
          \/ /\ ReadActive(e) /\ Live(p, d)' \subseteq Live(p, d) \cup {e}
             /\ e \in Held(p)' /\ e \notin Held(p) /\ OfDay(e, d)
      BY <1>3, LiveStep, BaseFacts
    <2>2. /\ \/ Waiting(p, d)' \subseteq Waiting(p, d)
             \/ /\ FetchPolicy(e) /\ Waiting(p, d)' \subseteq Waiting(p, d) \cup {e}
                /\ e \notin Waiting(p, d) /\ e \notin Live(p, d)
          /\ \/ Fresh(p, d)' \subseteq Fresh(p, d)
             \/ /\ ReadSpend(e) /\ Fresh(p, d)' \subseteq Fresh(p, d) \cup {e}
                /\ e \in Waiting(p, d) /\ asOf[e] = d
          /\ Stale(p, d)' \subseteq Stale(p, d)
          /\ \A o \in Fresh(p, d)' \cap Fresh(p, d) : spend'[o] = spend[o]
          /\ d < today => Pending(p, d)' \subseteq Pending(p, d)
      BY <1>3, WaitingStep, BaseFacts
    <2>3. CASE Reopen(e) /\ Live(p, d)' \subseteq Live(p, d) \cup {e} /\ InScope(p, e)
      BY <1>1, <2>3, CoverReopen
    <2>4. CASE /\ ReadActive(e) /\ Live(p, d)' \subseteq Live(p, d) \cup {e}
               /\ e \in Held(p)' /\ e \notin Held(p) /\ OfDay(e, d)
      BY <1>1, <2>4, CoverPass
    <2>5. CASE /\ FetchPolicy(e) /\ Waiting(p, d)' \subseteq Waiting(p, d) \cup {e}
               /\ e \notin Waiting(p, d) /\ e \notin Live(p, d)
      BY <1>1, <2>5, CoverFetch
    <2>6. CASE /\ ReadSpend(e) /\ Fresh(p, d)' \subseteq Fresh(p, d) \cup {e}
               /\ e \in Waiting(p, d) /\ asOf[e] = d
      BY <1>1, <2>6, CoverRead
    <2>7. CASE /\ Live(p, d)' \subseteq Live(p, d) /\ Waiting(p, d)' \subseteq Waiting(p, d)
               /\ Fresh(p, d)' \subseteq Fresh(p, d)
      <3>1. today' = today
        BY <1>3, OthersSpend, BaseFacts
      <3>2. \A a \in Fresh(p, d)' : spend'[a] = spend[a]
        BY <2>2, <2>7
      <3>3. Covered(p, d, T, F)'
        BY <1>1, <1>2, <2>2, <2>7, <3>1, <3>2, CoverKept
      <3> QED
        BY <3>3 DEF DayIsCovered
    <2> QED
      BY <2>1, <2>2, <2>3, <2>4, <2>5, <2>6, <2>7
  <1>4. ASSUME \A e \in Evaluations : ~StepOf(e) PROVE DayIsCovered(p, d)'
    <2>1. /\ Live(p, d)' \subseteq Live(p, d) /\ Waiting(p, d)' \subseteq Waiting(p, d)
          /\ Fresh(p, d)' \subseteq Fresh(p, d) /\ Stale(p, d)' \subseteq Stale(p, d)
          /\ Pending(p, d)' \subseteq Pending(p, d)
          /\ spend' = spend /\ today' \in Nat /\ today <= today'
      BY <1>4, OtherDay, BaseFacts
    <2>2. d < today => d < today'
      BY <2>1, BaseFacts
    <2>3. Covered(p, d, T, F)'
      BY <1>1, <1>2, <2>1, <2>2, CoverKept
    <2> QED
      BY <2>3 DEF DayIsCovered
  <1> QED
    BY <1>3, <1>4

\* The first day is covered before any request.
LEMMA SpendInit ==
    ASSUME Init
    PROVE  SpendInv
  <1>1. PolicyInv /\ ControlTypeOK
    BY PolicyInit DEF PolicyInv
  <1>2. spend \in [Evaluations -> Nat] /\ \A e \in Evaluations : RowInv(e)
    BY DEF Init, RowInv
  <1>3. Unsettled = {} /\ \A p \in Policies : Held(p) = {}
    BY DEF Init, Unsettled, Held, Granting, InFlightPoints
  <1>4. SpendBase
    <2>1. Cardinality(Unsettled) <= MaxUnsettled
      BY <1>3, FS_EmptySet, BoundsAssumption
    <2> QED
      BY <1>1, <1>2, <2>1 DEF SpendBase
  <1>5. ASSUME NEW p \in Policies, NEW d \in 1..today PROVE DayIsCovered(p, d)
    <2>1. Live(p, d) = {} /\ Waiting(p, d) = {} /\ CountedOn(p, d) = {}
      BY <1>3 DEF Init, Live, Waiting, CountedOn
    <2>2. Stale(p, d) = {} /\ Fresh(p, d) = {}
      BY <2>1 DEF Stale, Fresh
    <2>3. PICK F \in [Evaluations -> SUBSET Evaluations] : F = [o \in Evaluations |-> {}]
      OBVIOUS
    <2>4. Load(p, d, {}) <= p.daily /\ Cardinality({}) <= Places(p)
      BY <1>4, <2>1, LoadOfNothing, FS_EmptySet, BaseFacts
    <2>5. Covered(p, d, {}, F)
      BY <2>1, <2>2, <2>4 DEF Covered, Guarded
    <2> QED
      BY <2>3, <2>5 DEF DayIsCovered
  <1> QED
    BY <1>4, <1>5 DEF SpendInv

\* Every step keeps the strengthening.
LEMMA SpendStep ==
    ASSUME SpendInv, [Next]_vars
    PROVE  SpendInv'
  <1>1. SpendBase /\ ControlTypeOK /\ PolicyInv /\ PolicyInv' /\ ControlTypeOK'
    BY PolicyStep DEF SpendInv, SpendBase, PolicyInv
  <1>2. SpendBase'
    <2>1. spend' \in [Evaluations -> Nat] /\ \A e \in Evaluations : RowInv(e)'
      <3>1. ASSUME NEW e \in Evaluations, StepOf(e)
            PROVE  spend' \in [Evaluations -> Nat] /\ \A o \in Evaluations : RowInv(o)'
        BY <1>1, <3>1, RowStep DEF SpendBase, PolicyInv
      <3>2. CASE \A e \in Evaluations : ~StepOf(e)
        BY <1>1, <3>2, OtherRows DEF SpendBase
      <3> QED
        BY <3>1, <3>2
    <2>2. Cardinality(Unsettled') <= MaxUnsettled
      BY <1>1, UnsettledStep DEF SpendBase
    <2> QED
      BY <1>1, <2>1, <2>2 DEF SpendBase
  <1>3. ASSUME NEW p \in Policies, NEW d \in 1..today' PROVE DayIsCovered(p, d)'
    <2>1. CASE d \in 1..today
      BY <1>1, <2>1, DayStep DEF SpendInv
    <2>2. CASE d \notin 1..today
      <3>1. today \in Nat /\ today' \in Nat /\ d \in Nat
        BY <1>1, BoundsAssumption DEF ControlTypeOK
      <3>2. today' # today
        BY <2>2
      <3>3. Midnight
        <4>1. \A e \in Evaluations : ~StepOf(e)
          BY <1>1, <3>2, OthersSpend
        <4> QED
          BY <3>2, <4>1, OtherSteps
      <3>4. d = today + 1
        BY <2>2, <3>1, <3>3 DEF Midnight
      <3> QED
        BY <1>1, <3>3, <3>4, CoverNew
    <2> QED
      BY <2>1, <2>2
  <1> QED
    BY <1>2, <1>3 DEF SpendInv

\* The inductive invariant of what is spent on a day: every day that has begun is
\* covered by a set of evaluations that is no larger than the places there are, holds
\* each run whose cost may still change, and leaves a load within the daily limit.
THEOREM SpendInductive == Spec => []SpendInv
  <1>1. Init => SpendInv
    BY SpendInit
  <1>2. SpendInv /\ [Next]_vars => SpendInv'
    BY SpendStep
  <1> QED
    BY <1>1, <1>2, PTL DEF Spec

\* What is recorded of a day passes the daily limit only through the runs that no
\* evaluation could have seen the cost of, and these are no more than the concurrency
\* limit, the evaluations that may still start a run, the runs whose cost has not come,
\* and the reopened ones account for; whatever each of them costs.
THEOREM SpendBounded == Spec => []SpendOverrunIsBounded
  <1>1. SpendInv => SpendOverrunIsBounded
    <2> SUFFICES ASSUME SpendInv, NEW p \in Policies, NEW d \in 1..MaxDay
                 PROVE  \E late \in SUBSET CountedOn(p, d) :
                           /\ Cardinality(late) <= Unseen(p)
                           /\ Total(cost, CountedOn(p, d) \ late) <= p.daily
      BY DEF SpendOverrunIsBounded, Total
    <2>1. SpendBase
      BY DEF SpendInv
    <2>2. /\ Places(p) + p.concurrency - 1 = Unseen(p) /\ Places(p) <= Unseen(p)
          /\ Places(p) \in Nat /\ Unseen(p) \in Nat /\ p.daily \in Nat
      BY <2>1, BaseFacts, BoundsAssumption DEF Places, Unseen
    <2>3. CASE d \in 1..today
      <3>1. PICK T \in SUBSET Evaluations, F \in [Evaluations -> SUBSET Evaluations] :
               Covered(p, d, T, F)
        BY <2>3 DEF SpendInv, DayIsCovered
      <3>2. /\ Load(p, d, T) <= p.daily
            /\ Cardinality(T) <= Places(p) \/ Cardinality(T) <= Places(p) + p.concurrency - 1
        BY <3>1 DEF Covered, Guarded, Closed
      <3>3. IsFiniteSet(T) /\ Cardinality(T) \in Nat
        BY <2>1, BaseFacts
      <3>4. PICK late \in SUBSET CountedOn(p, d) : late = T \cap CountedOn(p, d)
        OBVIOUS
      <3>5. Cardinality(late) <= Cardinality(T) /\ Cardinality(late) \in Nat
        BY <3>3, <3>4, FS_Subset, FS_CardinalityType
      <3>6. CountedOn(p, d) \ late = CountedOn(p, d) \ T
        BY <3>4
      <3>7. Total(cost, CountedOn(p, d) \ late) <= p.daily
        BY <3>2, <3>6 DEF Load
      <3>8. Cardinality(late) <= Unseen(p)
        BY <2>2, <3>2, <3>3, <3>5
      <3> QED
        BY <3>7, <3>8
    <2>4. CASE d \notin 1..today
      <3>1. CountedOn(p, d) = {}
        <4>1. \A e \in Evaluations : run[e] # "none" => created[e] \in Nat \ {0}
                                                       /\ created[e] <= today
          BY <2>1, BaseFacts, BoundsAssumption DEF RowInv, ControlTypeOK
        <4> QED
          BY <2>1, <2>4, <4>1, BaseFacts, BoundsAssumption DEF CountedOn
      <3>2. Load(p, d, {}) = 0 /\ Cardinality({}) = 0
        BY <3>1, LoadOfNothing, FS_EmptySet
      <3>3. {} \in SUBSET CountedOn(p, d)
        OBVIOUS
      <3> QED
        BY <2>2, <3>2, <3>3 DEF Load
    <2> QED
      BY <2>3, <2>4
  <1> QED
    BY <1>1, SpendInductive, PTL

-----------------------------------------------------------------------------
(* Why every evaluation ends.                                               *)

\* How far the handler of e is: three awaits for each of its scopes, then two.
Progress(e) ==
    CASE pc[e] = "idle" -> 0
      [] pc[e] = "policy" -> 3 * at[e] - 2
      [] pc[e] = "spend" -> 3 * at[e] - 1
      [] pc[e] = "active" -> 3 * at[e]
      [] pc[e] = "create" -> 13
      [] pc[e] = "notify" -> 14
      [] pc[e] = "done" -> 15

\* A step of the handler of e takes it on, and no step takes it back.
MovesOn(e) ==
    /\ Evaluate(e) => Progress(e)' > Progress(e)
    /\ Progress(e)' = Progress(e) \/ Progress(e)' > Progress(e)

LEMMA ProgressRises ==
    ASSUME PolicyInv, NEW e \in Evaluations, Evaluate(e)
    PROVE  Progress(e)' > Progress(e)
  <1>1. ControlTypeOK /\ at[e] \in 1..4 /\ LastScope(e) \in 3..4
    BY DEF PolicyInv, ControlTypeOK, LastScope
  <1> USE <1>1 DEF ControlTypeOK, Goto, Reply, Progress
  <1>2. ASSUME NEW x, AfterScope(e, x), pc[e] \in {"policy", "active"}
        PROVE  Progress(e)' > Progress(e)
    BY <1>2 DEF AfterScope
  <1>3. CASE Receive(e)
    BY <1>3 DEF Receive
  <1>4. CASE FetchPolicy(e)
    <2>1. CASE AfterScope(e, violated[e])
      BY <1>2, <1>4, <2>1 DEF FetchPolicy
    <2>2. CASE ~AfterScope(e, violated[e])
      BY <1>4, <2>2 DEF FetchPolicy
    <2> QED
      BY <2>1, <2>2
  <1>5. CASE ReadSpend(e)
    BY <1>5 DEF ReadSpend
  <1>6. CASE ReadActive(e)
    BY <1>2, <1>6 DEF ReadActive
  <1>7. CASE QueryFails(e)
    BY <1>7 DEF QueryFails
  <1>8. CASE Create(e) \/ Notify(e)
    BY <1>8 DEF Create, Notify
  <1>9. CASE Crash(e)
    BY <1>9 DEF Crash, InFlightPoints
  <1> QED
    BY <1>3, <1>4, <1>5, <1>6, <1>7, <1>8, <1>9 DEF Evaluate

\* Where the handler of e is does not depend on what others do.
LEMMA BystandersStay ==
    ASSUME ControlTypeOK, [Next]_vars, NEW e \in Evaluations, ~Evaluate(e)
    PROVE  pc'[e] = pc[e] /\ at'[e] = at[e]
  <1>1. ASSUME NEW o \in Evaluations, o # e, StepOf(o)
        PROVE  pc'[e] = pc[e] /\ at'[e] = at[e]
    BY <1>1, OthersUntouched DEF View, StepOf
  <1>2. CASE StepOf(e)
    BY <1>2 DEF StepOf, MakeRow, StartRun, EndRun, RecordCost, Reopen, evaluation
  <1>3. CASE \A o \in Evaluations : ~StepOf(o)
    BY <1>3, OtherSteps DEF evaluation
  <1> QED
    BY <1>1, <1>2, <1>3

\* Every step of a handler brings its evaluation nearer the answer, and nothing that
\* runs, decisions and other evaluations do takes it back: it takes at most fifteen
\* steps for four scopes, and none of its queries finds the policy of its scope gone.
THEOREM EvaluationsMoveOn ==
    Spec => /\ [][\A e \in Evaluations : MovesOn(e)]_vars
            /\ [](\A e \in Evaluations :
                      pc[e] \in {"spend", "active"} => Applicable(e) # {})
  <1>1. PolicyInv /\ [Next]_vars => [\A e \in Evaluations : MovesOn(e)]_vars
    <2> SUFFICES ASSUME PolicyInv, Next, NEW e \in Evaluations, ~Evaluate(e)
                 PROVE  Progress(e)' = Progress(e)
      BY ProgressRises DEF MovesOn
    <2> QED
      BY BystandersStay DEF PolicyInv, Progress
  <1> DEFINE Found == \A e \in Evaluations :
                pc[e] \in {"spend", "active"} => Applicable(e) # {}
  <1>2. Init => Found
    BY DEF Init
  <1>3. PolicyInv /\ Found /\ [Next]_vars => Found'
    <2> SUFFICES ASSUME PolicyInv, Found, [Next]_vars, NEW e \in Evaluations,
                        pc'[e] \in {"spend", "active"}
                 PROVE  Applicable(e)' # {}
      OBVIOUS
    <2>1. ControlTypeOK /\ request' = request
      BY Frame DEF PolicyInv
    <2>2. CASE Evaluate(e)
      <3>1. Applicable(e) # {} /\ at' = at
        BY <2>1, <2>2 DEF Evaluate, Receive, FetchPolicy, ReadSpend, ReadActive, QueryFails,
               Create, Notify, Crash, AfterScope, Goto, Reply, ControlTypeOK
      <3> QED
        BY <2>1, <3>1 DEF Applicable
    <2>3. CASE ~Evaluate(e)
      <3>1. pc'[e] = pc[e] /\ at'[e] = at[e]
        BY <2>1, <2>3, BystandersStay
      <3> QED
        BY <2>1, <3>1 DEF Applicable
    <2> QED
      BY <2>2, <2>3
  <1> QED
    BY <1>1, <1>2, <1>3, PolicyInductive, PTL DEF Spec

=============================================================================
