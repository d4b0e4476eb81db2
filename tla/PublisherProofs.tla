--------------------------- MODULE PublisherProofs ---------------------------
(***************************************************************************)
(* Theorems about Publisher, for every set of calls, requests and faults,  *)
(* that it implements PublicationLedger, and that what PublishStatus       *)
(* reports of a run is true.                                               *)
(***************************************************************************)
EXTENDS PublisherLedger, PublishStatus, TLAPS

\* Every target has its column in external_refs.
USE DEF given

LEMMA RefFieldInColumns ==
    ASSUME NEW t \in Targets
    PROVE  RefField[t] \in Columns
  BY DEF Targets, RefField, Columns

\* The fields of a request that was sent.
LEMMA RequestFields ==
    ASSUME TypeOK, NEW c \in Calls
    PROVE  /\ call[c].item \in WorkItems
           /\ call[c].target \in Targets
           /\ call[c].existing \in Documents \cup {Null}
           /\ call[c].project \in Projects \cup {Null}
           /\ call[c].branch \in Branches
           /\ call[c].file \in Files
  <1>1. call[c] \in RequestType
    BY RequestsAssumption DEF TypeOK
  <1> QED
    BY <1>1 DEF RequestType, Targets

\* The object a request creates or updates has an identifier, not "None".
LEMMA OwnIdType ==
    ASSUME TypeOK, NEW c \in Calls
    PROVE  OwnId(c) \in RefValues \ {NoneString}
  BY RequestFields, NullAssumption DEF OwnId, RefValues

\* Every reading of an answer gives a known point and an identifier or nothing.
LEMMA ReadingsType ==
    ASSUME TypeOK, NEW c \in Calls, NEW reading \in Readings(c)
    PROVE  /\ reading[1] \in {"upsert", "fail_invalid", "fail_gateway"}
           /\ reading[2] \in RefValues \cup {Null}
           /\ reading[1] = "upsert" => reading[2] \in RefValues
  BY OwnIdType DEF Readings, OutlineReading, WorkflowReading, RefValues

\* A publisher's result holds values of the columns, or nothing.
LEMMA NewRefsType ==
    ASSUME TypeOK, NEW c \in Calls
    PROVE  \A col \in DOMAIN NewRefs(c) : NewRefs(c)[col] \in RefValues \cup {Null}
  <1>1. call[c].project \in RefValues \cup {Null} /\ ident[c] \in RefValues \cup {Null}
    BY RequestFields DEF TypeOK, RefValues
  <1>2. CASE call[c].target = "gitlab_branch"
    BY <1>1, <1>2 DEF NewRefs
  <1>3. CASE call[c].target = "gitlab_mr"
    BY <1>1, <1>3 DEF NewRefs
  <1>4. CASE call[c].target \notin {"gitlab_branch", "gitlab_mr"}
    BY <1>1, <1>4 DEF NewRefs
  <1> QED
    BY <1>2, <1>3, <1>4

\* Merging a result into a row of external_refs gives a row.
LEMMA MergeType ==
    ASSUME TypeOK, NEW c \in Calls, NEW i \in Rows
    PROVE  Merge(refs[i], NewRefs(c)) \in [Columns -> RefValues \cup {Null}]
  BY NewRefsType DEF Merge, TypeOK

\* The helpers of the handler keep the types of what they assign.
LEMMA GotoType ==
    ASSUME TypeOK, NEW c \in Calls, NEW point \in Points, Goto(c, point)
    PROVE  pc' \in [Calls -> Points]
  BY DEF TypeOK, Goto

\* Answering the caller keeps pc and answer well typed.
LEMMA ReplyType ==
    ASSUME TypeOK, NEW c \in Calls, NEW what \in Answers, Reply(c, what)
    PROVE  pc' \in [Calls -> Points] /\ answer' \in [Calls -> Answers]
  BY DEF TypeOK, Reply, Points

\* Updating a status keeps the statuses well typed.
LEMMA SetStatusType ==
    ASSUME TypeOK, NEW item, NEW new \in Statuses, NEW outcome,
           SetStatus(item, new, outcome)
    PROVE  status' \in [Rows -> Statuses]
  BY DEF TypeOK, SetStatus

\* Type correctness holds initially ...
LEMMA InitType == Init => TypeOK
  BY FilesAssumption DEF Init, TypeOK, Points, Answers, Statuses

\* ... and every step of every handler keeps it.
LEMMA NextType == TypeOK /\ [Next]_vars => TypeOK'
  <1> SUFFICES ASSUME TypeOK, [Next]_vars
               PROVE  TypeOK'
    OBVIOUS
  <1> USE DEF ledger, external
  <1>1. CASE UNCHANGED vars
    BY <1>1 DEF vars, TypeOK
  <1>2. ASSUME NEW c \in Calls, Receive(c) PROVE TypeOK'
    <2>1. pc' \in [Calls -> Points]
      BY <1>2, GotoType DEF Receive, Points, InFlightPoints
    <2>2. hadRef' \in [Calls -> BOOLEAN]
      BY <1>2 DEF Receive, TypeOK, TargetRefPresent
    <2> QED
      BY <1>2, <2>1, <2>2 DEF Receive, TypeOK
  <1>3. ASSUME NEW c \in Calls, Lookup(c) PROVE TypeOK'
    <2>1. pc' \in [Calls -> Points] /\ answer' \in [Calls -> Answers]
      BY <1>3, GotoType, ReplyType
      DEF Lookup, Points, InFlightPoints, Answers, TypeOK
    <2> QED
      BY <1>3, <2>1 DEF Lookup, TypeOK
  <1>4. ASSUME NEW c \in Calls, Skip(c) PROVE TypeOK'
    <2>1. pc' \in [Calls -> Points] /\ answer' \in [Calls -> Answers]
      BY <1>4, ReplyType DEF Skip, Answers
    <2>2. status' \in [Rows -> Statuses]
      BY <1>4, SetStatusType DEF Skip, Statuses
    <2> QED
      BY <1>4, <2>1, <2>2 DEF Skip, TypeOK
  <1>5. ASSUME NEW c \in Calls, Mark(c) PROVE TypeOK'
    <2>1. pc' \in [Calls -> Points] /\ answer' \in [Calls -> Answers]
      BY <1>5, GotoType, ReplyType DEF Mark, Points, InFlightPoints, Answers, TypeOK
    <2>2. status' \in [Rows -> Statuses]
      BY <1>5, SetStatusType DEF Mark, Statuses
    <2> QED
      BY <1>5, <2>1, <2>2 DEF Mark, TypeOK
  <1>6. ASSUME NEW c \in Calls, Prepare(c) PROVE TypeOK'
    <2>1. pc' \in [Calls -> Points]
      BY <1>6, GotoType DEF Prepare, Points, InFlightPoints
    <2> QED
      BY <1>6, <2>1 DEF Prepare, TypeOK
  <1>7. ASSUME NEW c \in Calls, Post(c) PROVE TypeOK'
    <2>1. pc' \in [Calls -> Points]
      BY <1>7, GotoType, ReadingsType DEF Post, Points, InFlightPoints
    <2>2. ident' \in [Calls -> RefValues \cup {Null}]
      BY <1>7, ReadingsType DEF Post, TypeOK
    <2>3. effects' \in [Calls -> SUBSET Effects]
      BY <1>7 DEF Post, TypeOK, Effects
    <2> QED
      BY <1>7, <2>1, <2>2, <2>3 DEF Post, TypeOK
  <1>8. ASSUME NEW c \in Calls, GetBranch(c) PROVE TypeOK'
    <2>1. pc' \in [Calls -> Points]
      BY <1>8, GotoType DEF GetBranch, Points, InFlightPoints
    <2> QED
      BY <1>8, <2>1 DEF GetBranch, TypeOK
  <1>9. ASSUME NEW c \in Calls, CreateBranch(c) PROVE TypeOK'
    <2>1. pc' \in [Calls -> Points]
      BY <1>9, GotoType DEF CreateBranch, Points, InFlightPoints
    <2>2. branches' \subseteq Branches
      BY <1>9, RequestFields DEF CreateBranch, TypeOK
    <2> QED
      BY <1>9, <2>1, <2>2 DEF CreateBranch, TypeOK
  <1>10. ASSUME NEW c \in Calls, Commit(c) PROVE TypeOK'
    <2>1. pc' \in [Calls -> Points]
      BY <1>10, GotoType DEF Commit, Points, InFlightPoints
    <2>2. effects' \in [Calls -> SUBSET Effects]
      BY <1>10 DEF Commit, TypeOK, Effects
    <2>3. files' \in [Branches -> SUBSET Files]
      BY <1>10, RequestFields DEF Commit, TypeOK
    <2> QED
      BY <1>10, <2>1, <2>2, <2>3 DEF Commit, TypeOK
  <1>11. ASSUME NEW c \in Calls, OpenMergeRequest(c) PROVE TypeOK'
    <2>1. pc' \in [Calls -> Points]
      BY <1>11, GotoType DEF OpenMergeRequest, Points, InFlightPoints
    <2>2. effects' \in [Calls -> SUBSET Effects]
      BY <1>11 DEF OpenMergeRequest, TypeOK, Effects
    <2>3. ident' \in [Calls -> RefValues \cup {Null}]
      BY <1>11 DEF OpenMergeRequest, TypeOK, RefValues
    <2> QED
      BY <1>11, <2>1, <2>2, <2>3 DEF OpenMergeRequest, TypeOK
  <1>12. ASSUME NEW c \in Calls, UpsertRefs(c) PROVE TypeOK'
    <2>1. pc' \in [Calls -> Points]
      BY <1>12, GotoType DEF UpsertRefs, Points, InFlightPoints
    <2>2. refs' \in [Rows -> [Columns -> RefValues \cup {Null}]]
      BY <1>12, MergeType DEF UpsertRefs, TypeOK
    <2> QED
      BY <1>12, <2>1, <2>2 DEF UpsertRefs, TypeOK
  <1>13. ASSUME NEW c \in Calls, RecordArtifacts(c) PROVE TypeOK'
    <2>1. pc' \in [Calls -> Points]
      BY <1>13, GotoType DEF RecordArtifacts, Points, InFlightPoints
    <2> QED
      BY <1>13, <2>1 DEF RecordArtifacts, TypeOK
  <1>14. ASSUME NEW c \in Calls, Complete(c) PROVE TypeOK'
    <2>1. pc' \in [Calls -> Points] /\ answer' \in [Calls -> Answers]
      BY <1>14, GotoType, ReplyType DEF Complete, Points, InFlightPoints, Answers, TypeOK
    <2>2. status' \in [Rows -> Statuses]
      BY <1>14, SetStatusType DEF Complete, Statuses
    <2> QED
      BY <1>14, <2>1, <2>2 DEF Complete, TypeOK
  <1>15. ASSUME NEW c \in Calls, Fail(c) PROVE TypeOK'
    <2>1. pc' \in [Calls -> Points] /\ answer' \in [Calls -> Answers]
      BY <1>15, ReplyType DEF Fail, Answers
    <2>2. status' \in [Rows -> Statuses]
      BY <1>15, SetStatusType DEF Fail, Statuses
    <2> QED
      BY <1>15, <2>1, <2>2 DEF Fail, TypeOK
  <1>16. ASSUME NEW c \in Calls, Crash(c) PROVE TypeOK'
    <2>1. pc' \in [Calls -> Points] /\ answer' \in [Calls -> Answers]
      BY <1>16, ReplyType DEF Crash, Answers
    <2> QED
      BY <1>16, <2>1 DEF Crash, TypeOK
  <1> QED
    BY <1>1, <1>2, <1>3, <1>4, <1>5, <1>6, <1>7, <1>8, <1>9, <1>10, <1>11,
       <1>12, <1>13, <1>14, <1>15, <1>16
    DEF Next, Step, TimedStep, GitLabStep, Quiescent

\* Type correctness, for every instance: every status the bridge writes is one
\* the CHECK constraint of work_items admits, every ref a value the columns hold.
THEOREM TypeCorrect == Spec => []TypeOK
  BY InitType, NextType, PTL DEF Spec

-----------------------------------------------------------------------------
(* What a step of one call leaves alone, and what it can only add to.       *)

\* No step takes anything from the ledger: the row is merged, not replaced.
LEMMA MergeKeeps ==
    ASSUME TypeOK, NEW c \in Calls, NEW i \in Rows, NEW col \in Columns,
           refs[i][col] # Null
    PROVE  Merge(refs[i], NewRefs(c))[col] # Null
  BY DEF Merge

\* A ref that is stored stays stored, whichever call steps.
LEMMA RefsStay ==
    ASSUME TypeOK, NEW c \in Calls, Step(c),
           NEW i \in Rows, NEW col \in Columns, refs[i][col] # Null
    PROVE  refs'[i][col] # Null
  <1> USE DEF ledger, external
  <1>1. CASE UpsertRefs(c)
    BY <1>1, MergeKeeps DEF UpsertRefs, TypeOK
  <1>2. CASE ~UpsertRefs(c)
    <2>1. refs' = refs
      BY <1>2 DEF Step, TimedStep, GitLabStep, Receive, Lookup, Skip, Mark,
         Prepare, Post, GetBranch, CreateBranch, Commit, OpenMergeRequest,
         RecordArtifacts, Complete, Fail, Crash
    <2> QED
      BY <2>1
  <1> QED
    BY <1>1, <1>2

\* A step of c touches no other call, and nobody forgets an effect.
LEMMA StepFrame ==
    ASSUME TypeOK, NEW c \in Calls, Step(c)
    PROVE  /\ call' = call
           /\ artifacts \subseteq artifacts'
           /\ effects[c] \subseteq effects'[c]
           /\ \A d \in Calls \ {c} :
                 /\ pc'[d] = pc[d] /\ ident'[d] = ident[d]
                 /\ answer'[d] = answer[d] /\ hadRef'[d] = hadRef[d]
                 /\ effects'[d] = effects[d]
  <1> USE DEF ledger, external, Goto, Reply, TypeOK
  <1>1. CASE Receive(c) \/ Lookup(c) \/ Skip(c) \/ Mark(c) \/ Prepare(c)
    BY <1>1 DEF Receive, Lookup, Skip, Mark, Prepare
  <1>2. CASE Post(c)
    BY <1>2 DEF Post
  <1>3. CASE GetBranch(c) \/ CreateBranch(c)
    BY <1>3 DEF GetBranch, CreateBranch
  <1>4. CASE Commit(c)
    BY <1>4 DEF Commit
  <1>5. CASE OpenMergeRequest(c)
    BY <1>5 DEF OpenMergeRequest
  <1>6. CASE UpsertRefs(c) \/ RecordArtifacts(c)
    BY <1>6 DEF UpsertRefs, RecordArtifacts
  <1>7. CASE Complete(c) \/ Fail(c) \/ Crash(c)
    BY <1>7 DEF Complete, Fail, Crash
  <1> QED
    BY <1>1, <1>2, <1>3, <1>4, <1>5, <1>6, <1>7 DEF Step, TimedStep, GitLabStep

\* A target once published stays published, for target_ref_present.
LEMMA PresenceStays ==
    ASSUME TypeOK, NEW c \in Calls, Step(c), NEW d \in Calls,
           TargetRefPresent(call[d].item, call[d].target)
    PROVE  TargetRefPresent(call[d].item, call[d].target)'
  <1>1. RefField[call[d].target] \in Columns
    BY RequestFields, RefFieldInColumns
  <1>2. call' = call
    BY StepFrame
  <1>3. call[d].item \in Rows /\ refs[call[d].item][RefField[call[d].target]] # Null
    BY DEF TargetRefPresent
  <1>4. refs'[call[d].item][RefField[call[d].target]] # Null
    BY <1>1, <1>3, RefsStay
  <1> QED
    BY <1>2, <1>3, <1>4 DEF TargetRefPresent

\* The effects of a publication, once made, stay made.
LEMMA LandedStays ==
    ASSUME TypeOK, NEW c \in Calls, Step(c), NEW d \in Calls, Landed(d)
    PROVE  Landed(d)'
  <1>1. call' = call /\ effects[d] \subseteq effects'[d]
    BY StepFrame
  <1> QED
    BY <1>1 DEF Landed

\* Storing the refs of c proves c's target published.
LEMMA UpsertProves ==
    ASSUME TypeOK, NEW c \in Calls, call[c].item \in Rows,
           \A col \in DOMAIN NewRefs(c) : NewRefs(c)[col] # Null
    PROVE  Merge(refs[call[c].item], NewRefs(c))[RefField[call[c].target]] # Null
  <1>1. RefField[call[c].target] \in DOMAIN NewRefs(c)
    <2>1. CASE call[c].target = "gitlab_branch"
      BY <2>1 DEF NewRefs, RefField
    <2>2. CASE call[c].target = "gitlab_mr"
      BY <2>2 DEF NewRefs, RefField
    <2>3. CASE call[c].target \notin {"gitlab_branch", "gitlab_mr"}
      BY <2>3 DEF NewRefs
    <2> QED
      BY <2>1, <2>2, <2>3
  <1>2. RefField[call[c].target] \in Columns
    BY RequestFields, RefFieldInColumns
  <1> QED
    BY <1>1, <1>2 DEF Merge

-----------------------------------------------------------------------------
(* The invariant, call by call.                                             *)

\* The conjuncts of IInv that speak of a single call.
PerCall(c) ==
    /\ CallInv(c)
    /\ answer[c] \in {"published", "skipped"} =>
           TargetRefPresent(call[c].item, call[c].target)
    /\ answer[c] = "published" => Landed(c) /\ c \in artifacts
    /\ c \in artifacts => TargetRefPresent(call[c].item, call[c].target)
    /\ hadRef[c] => /\ effects[c] = {}
                    /\ answer[c] \in {"none", "skipped", "error", "lost"}

\* The invariant is a conjunction over the calls.
LEMMA PerCallInv ==
    TypeOK => ((\A c \in Calls : PerCall(c)) <=>
        HandlerInv /\ SuccessIsDurable /\ ArtifactsFollowRefs /\ RetryAfterRefIsSafe)
  BY DEF PerCall, HandlerInv, SuccessIsDurable, ArtifactsFollowRefs,
         RetryAfterRefIsSafe, TypeOK

\* A step of c keeps what is known of the other calls.
LEMMA OtherCalls ==
    ASSUME TypeOK, NEW c \in Calls, Step(c), NEW d \in Calls \ {c}, PerCall(d)
    PROVE  PerCall(d)'
  <1>1. /\ call' = call /\ artifacts \subseteq artifacts'
        /\ pc'[d] = pc[d] /\ ident'[d] = ident[d] /\ answer'[d] = answer[d]
        /\ hadRef'[d] = hadRef[d] /\ effects'[d] = effects[d]
    BY StepFrame
  <1>2. TargetRefPresent(call[d].item, call[d].target) =>
            TargetRefPresent(call[d].item, call[d].target)'
    BY PresenceStays
  <1>3. Landed(d) => Landed(d)'
    BY LandedStays
  <1>4. NewRefs(d)' = NewRefs(d)
    BY <1>1 DEF NewRefs
  <1>5. d \in artifacts' => d \in artifacts
    BY DEF Step, TimedStep, GitLabStep, Receive, Lookup, Skip, Mark, Prepare,
       Post, GetBranch, CreateBranch, Commit, OpenMergeRequest, UpsertRefs,
       RecordArtifacts, Complete, Fail, Crash, ledger, external
  <1> QED
    BY <1>1, <1>2, <1>3, <1>4, <1>5 DEF PerCall, CallInv

\* Received, looked up, skipped, marked.
LEMMA LedgerSteps ==
    ASSUME TypeOK, NEW c \in Calls, PerCall(c),
           Receive(c) \/ Lookup(c) \/ Skip(c) \/ Mark(c)
    PROVE  PerCall(c)'
  <1> USE DEF ledger, external, Goto, Reply, TypeOK, PerCall, CallInv
  <1>1. UNCHANGED <<call, ident, refs, artifacts, effects>>
    BY DEF Receive, Lookup, Skip, Mark
  <1>2. /\ TargetRefPresent(call[c].item, call[c].target)'
              = TargetRefPresent(call[c].item, call[c].target)
        /\ Landed(c)' = Landed(c)
        /\ NewRefs(c)' = NewRefs(c)
    BY <1>1 DEF TargetRefPresent, Landed, NewRefs
  <1>3. CASE Receive(c)
    BY <1>1, <1>2, <1>3 DEF Receive, GitLabPoints
  <1>4. CASE Lookup(c)
    BY <1>1, <1>2, <1>4 DEF Lookup, GitLabPoints
  <1>5. CASE Skip(c)
    BY <1>1, <1>2, <1>5 DEF Skip, GitLabPoints
  <1>6. CASE Mark(c)
    BY <1>1, <1>2, <1>6 DEF Mark, GitLabPoints
  <1> QED
    BY <1>3, <1>4, <1>5, <1>6

\* Prepared and written outside.  No external step touches the ledger, so only
\* the effects of c, and what it read from the answer, change.
LEMMA ExternalSteps ==
    ASSUME TypeOK, NEW c \in Calls, PerCall(c),
           Prepare(c) \/ Post(c) \/ GitLabStep(c)
    PROVE  PerCall(c)'
  <1> USE DEF ledger, external, Goto, TypeOK, PerCall, CallInv, GitLabPoints
  <1>1. UNCHANGED <<call, answer, hadRef, refs, artifacts>>
    BY DEF Prepare, Post, GitLabStep, GetBranch, CreateBranch, Commit, OpenMergeRequest
  <1>2. TargetRefPresent(call[c].item, call[c].target)'
            = TargetRefPresent(call[c].item, call[c].target)
    BY <1>1 DEF TargetRefPresent
  <1>3. call[c].target \in Targets /\ Null \notin RefValues /\ Null \notin Calls
    BY RequestFields, NullAssumption DEF RefValues
  <1>4. CASE Prepare(c)
    <2>1. effects' = effects /\ ident' = ident
      BY <1>4 DEF Prepare
    <2> QED
      BY <1>1, <1>2, <1>4, <2>1 DEF Prepare
  <1>5. CASE Post(c)
    <2>1. PICK outcome \in Outcomes, reading \in Readings(c) :
             /\ effects' = IF Takes(outcome)
                           THEN [effects EXCEPT ![c] = @ \cup {"object"}] ELSE effects
             /\ Goto(c, IF outcome = "ok" THEN reading[1] ELSE "fail_gateway")
             /\ ident' = IF outcome = "ok"
                         THEN [ident EXCEPT ![c] = reading[2]] ELSE ident
      BY <1>5 DEF Post
    <2>2. reading[1] \in {"upsert", "fail_invalid", "fail_gateway"}
          /\ (reading[1] = "upsert" => reading[2] \in RefValues)
      BY ReadingsType
    <2>3. CASE outcome = "ok" /\ reading[1] = "upsert"
      <3>1. Landed(c)'
        BY <1>1, <1>3, <1>5, <2>1, <2>3 DEF Landed, Takes, Post, GitLabTargets
      <3>2. \A col \in DOMAIN NewRefs(c)' : NewRefs(c)'[col] # Null
        BY <1>1, <1>3, <1>5, <2>1, <2>2, <2>3 DEF NewRefs, Post, GitLabTargets
      <3> QED
        BY <1>1, <1>2, <1>5, <2>1, <2>3, <3>1, <3>2 DEF Post
    <2>4. CASE ~(outcome = "ok" /\ reading[1] = "upsert")
      BY <1>1, <1>2, <1>5, <2>1, <2>2, <2>4 DEF Post
    <2> QED
      BY <2>3, <2>4
  <1>6. CASE GetBranch(c) \/ CreateBranch(c)
    <2>1. effects' = effects /\ ident' = ident
      BY <1>6 DEF GetBranch, CreateBranch
    <2> QED
      BY <1>1, <1>2, <1>6, <2>1 DEF GetBranch, CreateBranch
  <1>7. CASE Commit(c)
    <2>1. ident' = ident /\ pc[c] = "commit"
      BY <1>7 DEF Commit
    <2>2. pc'[c] \in {"fail_gateway", "open_mr", "upsert"}
      BY <1>7 DEF Commit
    <2>3. pc'[c] \in {"open_mr", "upsert"} => "commit" \in effects'[c]
      BY <1>7 DEF Commit, Takes
    <2>4. pc'[c] = "open_mr" <=> pc'[c] # "fail_gateway" /\ call[c].target = "gitlab_mr"
      BY <1>7 DEF Commit
    <2>5. pc'[c] = "upsert" =>
             Landed(c)' /\ \A col \in DOMAIN NewRefs(c)' : NewRefs(c)'[col] # Null
      BY <1>1, <2>1, <2>3, <2>4 DEF Landed, NewRefs, GitLabTargets
    <2> QED
      BY <1>1, <1>2, <2>1, <2>2, <2>3, <2>4, <2>5
  <1>8. CASE OpenMergeRequest(c)
    <2>1. pc[c] = "open_mr" /\ pc'[c] \in {"fail_gateway", "upsert"}
      BY <1>8 DEF OpenMergeRequest
    <2>2. pc'[c] = "upsert" => ident'[c] = c /\ {"commit", "merge_request"} \subseteq effects'[c]
      BY <1>8, <2>1 DEF OpenMergeRequest, Takes
    <2>3. pc'[c] = "upsert" =>
             Landed(c)' /\ \A col \in DOMAIN NewRefs(c)' : NewRefs(c)'[col] # Null
      BY <1>1, <1>3, <2>1, <2>2 DEF Landed, NewRefs
    <2> QED
      BY <1>1, <1>2, <2>1, <2>2, <2>3
  <1> QED
    BY <1>4, <1>5, <1>6, <1>7, <1>8 DEF GitLabStep

\* The ledger is brought up to date in the order ref, artifacts, answer.
LEMMA RecordingSteps ==
    ASSUME TypeOK, NEW c \in Calls, PerCall(c),
           UpsertRefs(c) \/ RecordArtifacts(c) \/ Complete(c) \/ Fail(c) \/ Crash(c)
    PROVE  PerCall(c)'
  <1> USE DEF ledger, external, Goto, Reply, TypeOK, PerCall, CallInv, GitLabPoints
  <1>1. UNCHANGED <<call, ident, hadRef, effects>>
    BY DEF UpsertRefs, RecordArtifacts, Complete, Fail, Crash
  <1>2. Landed(c)' = Landed(c) /\ NewRefs(c)' = NewRefs(c)
    BY <1>1 DEF Landed, NewRefs
  <1>3. TargetRefPresent(call[c].item, call[c].target) =>
            TargetRefPresent(call[c].item, call[c].target)'
    BY PresenceStays DEF Step, TimedStep
  <1>4. CASE UpsertRefs(c)
    <2>1. pc'[c] = "record_artifacts" => TargetRefPresent(call[c].item, call[c].target)'
      BY <1>1, <1>4, UpsertProves DEF UpsertRefs, TargetRefPresent, Takes
    <2> QED
      BY <1>1, <1>2, <1>3, <1>4, <2>1 DEF UpsertRefs
  <1>5. CASE RecordArtifacts(c)
    BY <1>1, <1>2, <1>3, <1>5 DEF RecordArtifacts, Takes
  <1>6. CASE Complete(c)
    BY <1>1, <1>2, <1>3, <1>6 DEF Complete
  <1>7. CASE Fail(c)
    BY <1>1, <1>2, <1>3, <1>7 DEF Fail
  <1>8. CASE Crash(c)
    BY <1>1, <1>2, <1>3, <1>8 DEF Crash, InFlightPoints
  <1> QED
    BY <1>4, <1>5, <1>6, <1>7, <1>8

\* Every step of c keeps what is known of every call.
LEMMA PerCallStep ==
    ASSUME TypeOK, NEW c \in Calls, Step(c), \A d \in Calls : PerCall(d)
    PROVE  \A d \in Calls : PerCall(d)'
  <1>1. PerCall(c)'
    BY LedgerSteps, ExternalSteps, RecordingSteps DEF Step, TimedStep
  <1>2. \A d \in Calls \ {c} : PerCall(d)'
    BY OtherCalls
  <1> QED
    BY <1>1, <1>2

-----------------------------------------------------------------------------
(* work_items.status against the calls.                                     *)

StatusInv == CompleteHasARef /\ PublishingHasAnOwner /\ IncompleteHasACause

\* A status is written only by Skip and Complete ("complete"), Mark
\* ("publishing") and Fail ("failed"); any other step leaves it.
LEMMA StatusUnwritten ==
    ASSUME TypeOK, NEW c \in Calls, Step(c),
           ~(Skip(c) \/ Mark(c) \/ Complete(c) \/ Fail(c))
    PROVE  status' = status
  BY DEF Step, TimedStep, GitLabStep, Receive, Lookup, Prepare, Post, GetBranch,
     CreateBranch, Commit, OpenMergeRequest, UpsertRefs, RecordArtifacts, Crash,
     ledger, external

\* A marked call stays marked until it writes a final status or is lost.
LEMMA MarkedStays ==
    ASSUME TypeOK, NEW c \in Calls, Step(c), PerCall(c), pc[c] \in Marked
    PROVE  \/ pc'[c] \in Marked /\ answer'[c] = answer[c]
           \/ answer'[c] = "lost"
           \/ Fail(c) /\ answer'[c] \in {"invalid", "gateway", "error"}
           \/ Complete(c) /\ answer'[c] = "published"
  <1> USE DEF Marked, InFlightPoints, Goto, Reply, TypeOK
  <1>1. CASE Receive(c) \/ Lookup(c) \/ Skip(c) \/ Mark(c)
    BY <1>1 DEF Receive, Lookup, Skip, Mark
  <1>2. CASE Prepare(c)
    BY <1>2 DEF Prepare
  <1>3. CASE Post(c)
    BY <1>3, ReadingsType DEF Post
  <1>4. CASE GitLabStep(c)
    BY <1>4 DEF GitLabStep, GetBranch, CreateBranch, Commit, OpenMergeRequest
  <1>5. CASE UpsertRefs(c) \/ RecordArtifacts(c)
    BY <1>5 DEF UpsertRefs, RecordArtifacts
  <1>6. CASE Complete(c) \/ Fail(c) \/ Crash(c)
    BY <1>6 DEF Complete, Fail, Crash
  <1> QED
    BY <1>1, <1>2, <1>3, <1>4, <1>5, <1>6 DEF Step, TimedStep

\* An answer, once given, is final.
LEMMA AnswersStay ==
    ASSUME TypeOK, NEW c \in Calls, Step(c), PerCall(c), NEW d \in Calls, PerCall(d),
           answer[d] # "none"
    PROVE  answer'[d] = answer[d] /\ pc'[d] = pc[d]
  <1>1. CASE d # c
    BY <1>1, StepFrame
  <1>2. CASE d = c
    <2>1. pc[c] = "done"
      BY <1>2 DEF PerCall, CallInv
    <2> QED
      BY <2>1 DEF Step, TimedStep, GitLabStep, Receive, Lookup, Skip, Mark, Prepare,
         Post, GetBranch, CreateBranch, Commit, OpenMergeRequest, UpsertRefs,
         RecordArtifacts, Complete, Fail, Crash, InFlightPoints
  <1> QED
    BY <1>1, <1>2

\* "complete" is written by calls whose target is in the ledger.
LEMMA CompleteStep ==
    ASSUME TypeOK, NEW c \in Calls, Step(c), PerCall(c), CompleteHasARef
    PROVE  CompleteHasARef'
  <1> SUFFICES ASSUME NEW i \in Rows, status'[i] = "complete"
               PROVE  \E col \in Columns : refs'[i][col] # Null
    BY DEF CompleteHasARef
  <1>1. CASE status[i] = "complete"
    BY <1>1, RefsStay DEF CompleteHasARef
  <1>2. CASE status[i] # "complete"
    <2>1. (Skip(c) \/ Complete(c)) /\ call[c].item = i
      BY <1>2, StatusUnwritten DEF Mark, Fail, Skip, Complete, SetStatus, TypeOK
    <2>2. TargetRefPresent(call[c].item, call[c].target)
      BY <2>1 DEF PerCall, CallInv, Skip, Complete
    <2>3. RefField[call[c].target] \in Columns
      BY RequestFields, RefFieldInColumns
    <2> QED
      BY <2>1, <2>2, <2>3, RefsStay DEF TargetRefPresent
  <1> QED
    BY <1>1, <1>2

\* "publishing" is overwritten by its owner, or has an excuse.
LEMMA PublishingStep ==
    ASSUME TypeOK, NEW c \in Calls, Step(c), \A d \in Calls : PerCall(d),
           PublishingHasAnOwner
    PROVE  PublishingHasAnOwner'
  <1> SUFFICES ASSUME NEW i \in Rows, status'[i] = "publishing"
               PROVE  \E d \in Calls :
                         /\ call'[d].item = i
                         /\ pc'[d] \in Marked \/ answer'[d] \in {"error", "lost"}
    BY DEF PublishingHasAnOwner
  <1>0. call' = call
    BY StepFrame
  <1>1. CASE status[i] # "publishing"
    <2>1. Mark(c) /\ call[c].item = i
      BY <1>1, StatusUnwritten DEF Mark, Fail, Skip, Complete, SetStatus, TypeOK
    <2>2. pc'[c] = "prepare" \/ answer'[c] = "error"
      BY <2>1 DEF Mark, Goto, Reply, TypeOK
    <2> QED
      BY <1>0, <2>1, <2>2 DEF Marked, InFlightPoints
  <1>2. CASE status[i] = "publishing"
    <2>1. PICK d \in Calls : /\ call[d].item = i
                             /\ pc[d] \in Marked \/ answer[d] \in {"error", "lost"}
      BY <1>2 DEF PublishingHasAnOwner
    <2>2. CASE answer[d] \in {"error", "lost"}
      BY <1>0, <2>1, <2>2, AnswersStay
    <2>3. CASE pc[d] \in Marked /\ d # c
      BY <1>0, <2>1, <2>3, StepFrame
    <2>4. CASE pc[d] \in Marked /\ d = c
      <3>1. ~(Fail(c) /\ answer'[c] \in {"invalid", "gateway"})
        BY <2>1, <2>4 DEF Fail, SetStatus, Takes, Reply, TypeOK
      <3>2. ~(Complete(c) /\ answer'[c] = "published")
        <4> SUFFICES ASSUME Complete(c), answer'[c] = "published"
                     PROVE  FALSE
          OBVIOUS
        <4>1. answer[c] = "none"
          BY <2>4 DEF PerCall, CallInv, Marked, InFlightPoints
        <4>2. status'[i] = "complete"
          BY <2>1, <2>4, <4>1 DEF Complete, SetStatus, Takes, Goto, Reply, TypeOK
        <4> QED
          BY <4>2
      <3> QED
        BY <1>0, <2>1, <2>4, <3>1, <3>2, MarkedStays
    <2> QED
      BY <2>1, <2>2, <2>3, <2>4
  <1> QED
    BY <1>1, <1>2

\* A step that takes "complete" from an item leaves a cause.
LEMMA IncompleteStep ==
    ASSUME TypeOK, NEW c \in Calls, Step(c), \A d \in Calls : PerCall(d),
           IncompleteHasACause
    PROVE  IncompleteHasACause'
  <1> DEFINE Bad == {"invalid", "gateway", "error", "lost"}
  <1> SUFFICES ASSUME NEW i \in Rows, status'[i] # "complete",
                      NEW e \in Calls, call'[e].item = i,
                      answer'[e] \in {"published", "skipped"}
               PROVE  \E d \in Calls : /\ call'[d].item = i
                                       /\ pc'[d] \in Marked \/ answer'[d] \in Bad
    BY DEF IncompleteHasACause
  <1>0. call' = call
    BY StepFrame
  <1>1. answer[e] = answer'[e]
    <2>1. CASE answer[e] # "none"
      BY <2>1, AnswersStay
    <2>2. CASE answer[e] = "none"
      <3>1. e = c
        BY <2>2, StepFrame
      <3>2. Skip(c) \/ Complete(c)
        BY <2>2, <3>1 DEF Step, TimedStep, GitLabStep, Receive, Lookup, Mark, Prepare,
           Post, GetBranch, CreateBranch, Commit, OpenMergeRequest, UpsertRefs,
           RecordArtifacts, Fail, Crash, Goto, Reply, TypeOK
      <3>3. status'[i] = "complete"
        BY <1>0, <2>2, <3>1, <3>2
        DEF Skip, Complete, SetStatus, Takes, Goto, Reply, TypeOK
      <3> QED
        BY <3>3
    <2> QED
      BY <2>1, <2>2
  <1>2. CASE status[i] = "complete"
    <2>1. (Mark(c) \/ Fail(c)) /\ call[c].item = i
      BY <1>2, StatusUnwritten DEF Mark, Fail, Skip, Complete, SetStatus, TypeOK
    <2>2. pc'[c] = "prepare" \/ answer'[c] \in Bad
      BY <2>1 DEF Mark, Fail, Goto, Reply, TypeOK
    <2> QED
      BY <1>0, <2>1, <2>2 DEF Marked, InFlightPoints
  <1>3. CASE status[i] # "complete"
    <2>1. PICK d \in Calls : /\ call[d].item = i
                             /\ pc[d] \in Marked \/ answer[d] \in Bad
      BY <1>0, <1>1, <1>3 DEF IncompleteHasACause
    <2>2. CASE answer[d] \in Bad
      BY <1>0, <2>1, <2>2, AnswersStay
    <2>3. CASE pc[d] \in Marked /\ d # c
      BY <1>0, <2>1, <2>3, StepFrame
    <2>4. CASE pc[d] \in Marked /\ d = c
      <3>1. ~(Complete(c) /\ answer'[c] = "published")
        <4> SUFFICES ASSUME Complete(c), answer'[c] = "published"
                     PROVE  FALSE
          OBVIOUS
        <4>1. answer[c] = "none"
          BY <2>4 DEF PerCall, CallInv, Marked, InFlightPoints
        <4>2. status'[i] = "complete"
          BY <2>1, <2>4, <4>1 DEF Complete, SetStatus, Takes, Goto, Reply, TypeOK
        <4> QED
          BY <4>2
      <3> QED
        BY <1>0, <2>1, <2>4, <3>1, MarkedStays
    <2> QED
      BY <2>1, <2>2, <2>3, <2>4
  <1> QED
    BY <1>2, <1>3

-----------------------------------------------------------------------------
(* The theorems.                                                            *)

\* The inductive invariant holds initially ...
LEMMA InitIInv == Init => IInv
  <1> SUFFICES ASSUME Init
               PROVE  IInv
    OBVIOUS
  <1>1. TypeOK
    BY InitType
  <1>2. \A c \in Calls : PerCall(c)
    BY DEF Init, PerCall, CallInv, GitLabPoints
  <1>3. StatusInv
    BY DEF Init, StatusInv, CompleteHasARef, PublishingHasAnOwner, IncompleteHasACause
  <1> QED
    BY <1>1, <1>2, <1>3, PerCallInv DEF IInv, StatusInv

\* ... and every step keeps it.
LEMMA NextIInv == IInv /\ [Next]_vars => IInv'
  <1> SUFFICES ASSUME IInv, [Next]_vars
               PROVE  IInv'
    OBVIOUS
  <1>1. TypeOK /\ TypeOK'
    BY NextType DEF IInv
  <1>2. ASSUME NEW c \in Calls, Step(c) PROVE IInv'
    <2>1. \A d \in Calls : PerCall(d)
      BY <1>1, PerCallInv DEF IInv
    <2>2. \A d \in Calls : PerCall(d)'
      BY <1>1, <1>2, <2>1, PerCallStep
    <2>3. HandlerInv' /\ SuccessIsDurable' /\ ArtifactsFollowRefs' /\ RetryAfterRefIsSafe'
      BY <1>1, <2>2 DEF PerCall, HandlerInv, SuccessIsDurable, ArtifactsFollowRefs,
         RetryAfterRefIsSafe, TypeOK
    <2>4. StatusInv'
      BY <1>1, <1>2, <2>1, CompleteStep, PublishingStep, IncompleteStep
      DEF IInv, StatusInv
    <2> QED
      BY <1>1, <2>3, <2>4 DEF IInv, StatusInv
  <1>3. CASE UNCHANGED vars
    <2> USE <1>3 DEF vars
    <2>1. \A c \in Calls : NewRefs(c)' = NewRefs(c)
      BY DEF NewRefs
    <2>2. \A c \in Calls : CallInv(c) => CallInv(c)'
      BY <2>1 DEF CallInv, TargetRefPresent, Landed
    <2>3. HandlerInv'
      BY <2>2 DEF IInv, HandlerInv
    <2>4. SuccessIsDurable' /\ ArtifactsFollowRefs' /\ RetryAfterRefIsSafe'
      BY DEF IInv, SuccessIsDurable, ArtifactsFollowRefs, RetryAfterRefIsSafe,
         TargetRefPresent, Landed
    <2>5. StatusInv'
      BY DEF IInv, StatusInv, CompleteHasARef, PublishingHasAnOwner, IncompleteHasACause
    <2> QED
      BY <1>1, <2>3, <2>4, <2>5 DEF IInv, StatusInv
  <1> QED
    BY <1>2, <1>3 DEF Next, Quiescent

\* What the handler of each call knows at each await, and why a status is what
\* it is, in every reachable state of every instance.
THEOREM Inductive == Spec => []IInv
  BY InitIInv, NextIInv, PTL DEF Spec

\* "published" and "skipped" are only ever said of what is durable.
THEOREM SuccessDurable == Spec => []SuccessIsDurable
  <1>1. IInv => SuccessIsDurable
    BY DEF IInv
  <1> QED
    BY <1>1, Inductive, PTL

\* A retry that finds the ref changes nothing outside.
THEOREM RetrySafe == Spec => []RetryAfterRefIsSafe
  <1>1. IInv => RetryAfterRefIsSafe
    BY DEF IInv
  <1> QED
    BY <1>1, Inductive, PTL

\* Artifact rows never precede the ref of their target.
THEOREM ArtifactsAfterRefs == Spec => []ArtifactsFollowRefs
  <1>1. IInv => ArtifactsFollowRefs
    BY DEF IInv
  <1> QED
    BY <1>1, Inductive, PTL

\* An item is never complete without a published target.
THEOREM CompleteShowsARef == Spec => []CompleteHasARef
  <1>1. IInv => CompleteHasARef
    BY DEF IInv
  <1> QED
    BY <1>1, Inductive, PTL

\* An item is left in "publishing" only by a lost or broken call.
THEOREM PublishingIsOwned == Spec => []PublishingHasAnOwner
  <1>1. IInv => PublishingHasAnOwner
    BY DEF IInv
  <1> QED
    BY <1>1, Inductive, PTL

\* However successful calls overlap, they leave the item complete.
THEOREM SuccessCompletes == Spec => []AllSucceededIsComplete
  <1>1. IInv => AllSucceededIsComplete
    <2> SUFFICES ASSUME IInv, NEW i \in Rows,
                        NEW c \in Calls, call[c].item = i, pc[c] # "idle",
                        \A d \in Calls : call[d].item = i /\ pc[d] # "idle" =>
                            answer[d] \in {"published", "skipped"}
                 PROVE  status[i] = "complete"
      BY DEF AllSucceededIsComplete
    <2>1. ~\E d \in Calls :
             /\ call[d].item = i
             /\ pc[d] \in Marked \/ answer[d] \in {"invalid", "gateway", "error", "lost"}
      BY DEF IInv, HandlerInv, CallInv, Marked, InFlightPoints
    <2> QED
      BY <2>1 DEF IInv, IncompleteHasACause
  <1> QED
    BY <1>1, Inductive, PTL

\* A ref changes only in UpsertRefs, which stores the publisher's result.
LEMMA RefChange ==
    ASSUME IInv, NEW c \in Calls, Step(c), NEW i \in Rows, NEW col \in Columns,
           refs'[i][col] # refs[i][col]
    PROVE  /\ pc[c] = "upsert" /\ call[c].item = i
           /\ col \in DOMAIN NewRefs(c)
           /\ refs'[i][col] = NewRefs(c)[col] /\ refs'[i][col] # Null
  <1>1. TypeOK
    BY DEF IInv
  <1>2. UpsertRefs(c)
    BY DEF Step, TimedStep, GitLabStep, Receive, Lookup, Skip, Mark, Prepare, Post,
       GetBranch, CreateBranch, Commit, OpenMergeRequest, RecordArtifacts,
       Complete, Fail, Crash, ledger, external
  <1>3. pc[c] = "upsert" /\ call[c].item = i
        /\ refs'[i][col] = Merge(refs[i], NewRefs(c))[col]
    BY <1>1, <1>2 DEF UpsertRefs, TypeOK
  <1> QED
    BY <1>3 DEF Merge

\* The ledger only grows, column by column.
THEOREM RefsKept == Spec => RefsAreKept
  <1> DEFINE Kept == \A i \in Rows, col \in Columns :
                refs'[i][col] # refs[i][col] =>
                    /\ refs'[i][col] # Null
                    /\ \E c \in Calls : /\ pc[c] = "upsert" /\ call[c].item = i
                                        /\ \/ col = RefField[call[c].target]
                                           \/ /\ col = "gitlab_project_id"
                                              /\ call[c].target = "gitlab_mr"
  <1>1. IInv /\ [Next]_vars => [Kept]_vars
    <2> SUFFICES ASSUME IInv, NEW c \in Calls, Step(c),
                        NEW i \in Rows, NEW col \in Columns,
                        refs'[i][col] # refs[i][col]
                 PROVE  /\ refs'[i][col] # Null
                        /\ pc[c] = "upsert" /\ call[c].item = i
                        /\ \/ col = RefField[call[c].target]
                           \/ col = "gitlab_project_id" /\ call[c].target = "gitlab_mr"
      BY DEF Next, Quiescent, vars
    <2>1. /\ pc[c] = "upsert" /\ call[c].item = i
          /\ col \in DOMAIN NewRefs(c) /\ refs'[i][col] # Null
      BY RefChange
    <2>2. \/ col = RefField[call[c].target]
          \/ col = "gitlab_project_id" /\ call[c].target = "gitlab_mr"
      <3>1. CASE call[c].target = "gitlab_branch"
        BY <2>1, <3>1 DEF NewRefs, RefField
      <3>2. CASE call[c].target = "gitlab_mr"
        BY <2>1, <3>2 DEF NewRefs, RefField
      <3>3. CASE call[c].target \notin {"gitlab_branch", "gitlab_mr"}
        BY <2>1, <3>3 DEF NewRefs
      <3> QED
        BY <3>1, <3>2, <3>3
    <2> QED
      BY <2>1, <2>2
  <1>2. Spec => [][Kept]_vars
    BY <1>1, Inductive, PTL DEF Spec
  <1> QED
    BY <1>2 DEF RefsAreKept

-----------------------------------------------------------------------------
(* What the refs name, when every answer carries its identifier.            *)

\* When the handler is about to store refs, it holds the identifier of what it
\* wrote.
IdentInv ==
    \A c \in Calls : pc[c] = "upsert" =>
        /\ call[c].target = "gitlab_mr" => ident[c] = c
        /\ call[c].target \notin GitLabTargets => ident[c] = OwnId(c)

\* Post and OpenMergeRequest hand over the identifier; nobody else touches it.
LEMMA IdentStep ==
    ASSUME IInv, IdentInv, "no_id" \notin Faults, NEW c \in Calls, Step(c)
    PROVE  IdentInv'
  <1>1. /\ TypeOK /\ CallInv(c) /\ call' = call
        /\ \A d \in Calls \ {c} : pc'[d] = pc[d] /\ ident'[d] = ident[d]
    BY StepFrame DEF IInv, HandlerInv
  <1>2. \A d \in Calls : OwnId(d)' = OwnId(d)
    BY <1>1 DEF OwnId
  <1>3. pc'[c] = "upsert" =>
            /\ call[c].target = "gitlab_mr" => ident'[c] = c
            /\ call[c].target \notin GitLabTargets => ident'[c] = OwnId(c)
    <2> USE DEF Goto, Reply, TypeOK, CallInv, GitLabTargets, GitLabPoints
    <2>1. CASE Receive(c) \/ Lookup(c) \/ Skip(c) \/ Mark(c) \/ Prepare(c)
      BY <1>1, <2>1 DEF Receive, Lookup, Skip, Mark, Prepare
    <2>2. CASE Post(c)
      <3>1. \A reading \in Readings(c) :
               reading[1] = "upsert" => reading[2] = OwnId(c)
        BY DEF Readings, OutlineReading, WorkflowReading
      <3> QED
        BY <1>1, <2>2, <3>1 DEF Post
    <2>3. CASE GetBranch(c) \/ CreateBranch(c)
      BY <1>1, <2>3 DEF GetBranch, CreateBranch
    <2>4. CASE Commit(c)
      BY <1>1, <2>4 DEF Commit
    <2>5. CASE OpenMergeRequest(c)
      BY <1>1, <2>5 DEF OpenMergeRequest
    <2>6. CASE UpsertRefs(c) \/ RecordArtifacts(c)
      BY <1>1, <2>6 DEF UpsertRefs, RecordArtifacts
    <2>7. CASE Complete(c) \/ Fail(c) \/ Crash(c)
      BY <1>1, <2>7 DEF Complete, Fail, Crash
    <2> QED
      BY <2>1, <2>2, <2>3, <2>4, <2>5, <2>6, <2>7 DEF Step, TimedStep, GitLabStep
  <1> QED
    BY <1>1, <1>2, <1>3 DEF IdentInv

\* What c stores names what c wrote.
LEMMA NewRefsName ==
    ASSUME TypeOK, IdentInv, NEW c \in Calls, pc[c] = "upsert",
           NEW col \in DOMAIN NewRefs(c)
    PROVE  Names(c, col, NewRefs(c)[col])
  <1>1. CASE call[c].target = "gitlab_branch"
    BY <1>1 DEF NewRefs, Names, GitLabTargets
  <1>2. CASE call[c].target = "gitlab_mr"
    BY <1>2 DEF NewRefs, Names, GitLabTargets, IdentInv
  <1>3. CASE call[c].target \notin {"gitlab_branch", "gitlab_mr"}
    <2>1. col = RefField[call[c].target] /\ NewRefs(c)[col] = OwnId(c)
      BY <1>3 DEF NewRefs, IdentInv, GitLabTargets
    <2>2. col \notin {"gitlab_project_id", "gitlab_mr_iid"}
      BY <1>3, <2>1, RequestFields DEF RefField, Targets
    <2> QED
      BY <2>1, <2>2 DEF Names
  <1> QED
    BY <1>1, <1>2, <1>3

\* Refs that name writes go on naming them, and new ones do.
LEMMA NamesStep ==
    ASSUME IInv, IdentInv, RefsNameWrites, NEW c \in Calls, Step(c)
    PROVE  RefsNameWrites'
  <1>1. TypeOK /\ call' = call /\ CallInv(c)
    BY StepFrame DEF IInv, HandlerInv
  <1>2. SUFFICES ASSUME NEW i \in Rows, NEW col \in Columns, refs'[i][col] # Null
                 PROVE  \E d \in Calls : /\ call[d].item = i
                                         /\ Landed(d)'
                                         /\ Names(d, col, refs'[i][col])
    BY <1>1 DEF RefsNameWrites, Names, OwnId
  <1>3. CASE refs'[i][col] = refs[i][col]
    <2>1. PICK d \in Calls : call[d].item = i /\ Landed(d) /\ Names(d, col, refs[i][col])
      BY <1>2, <1>3 DEF RefsNameWrites
    <2> QED
      BY <1>1, <1>3, <2>1, LandedStays
  <1>4. CASE refs'[i][col] # refs[i][col]
    <2>1. /\ pc[c] = "upsert" /\ call[c].item = i /\ col \in DOMAIN NewRefs(c)
          /\ refs'[i][col] = NewRefs(c)[col]
      BY <1>4, RefChange
    <2>2. Names(c, col, refs'[i][col])
      BY <1>1, <2>1, NewRefsName
    <2>3. Landed(c)'
      BY <1>1, <2>1, LandedStays DEF CallInv
    <2> QED
      BY <2>1, <2>2, <2>3
  <1> QED
    BY <1>3, <1>4

\* No ref is stored ahead of, or instead of, the external write it names,
\* provided that every successful answer carries its identifier.
THEOREM RefsNamed ==
    ASSUME "no_id" \notin Faults
    PROVE  Spec => []RefsNameWrites
  <1> DEFINE NamedInv == IdentInv /\ RefsNameWrites
  <1>1. Init => NamedInv
    BY DEF Init, IdentInv, RefsNameWrites
  <1>2. IInv /\ NamedInv /\ [Next]_vars => NamedInv'
    <2> SUFFICES ASSUME IInv, NamedInv, [Next]_vars
                 PROVE  NamedInv'
      OBVIOUS
    <2>1. ASSUME NEW c \in Calls, Step(c) PROVE NamedInv'
      BY <2>1, IdentStep, NamesStep
    <2>2. CASE UNCHANGED vars
      BY <2>2 DEF vars, IdentInv, OwnId, RefsNameWrites, Landed, Names
    <2> QED
      BY <2>1, <2>2 DEF Next, Quiescent
  <1> QED
    BY <1>1, <1>2, Inductive, PTL DEF Spec

-----------------------------------------------------------------------------
(* Calls that nothing bars.                                                 *)

\* Some call committed file f to branch b.
Committed(b, f) ==
    \E c \in Calls :
        /\ call[c].target \in GitLabTargets /\ call[c].branch = b /\ call[c].file = f
        /\ "commit" \in effects[c]

\* Every branch has the files of the base branch and those committed to it, a call
\* that GitLab still works for has no merge request yet, and one that has still to
\* commit has not committed.
BarInv ==
    /\ \A b \in Branches : BaseFiles \subseteq files[b]
    /\ \A b \in Branches, f \in Files :
           f \in files[b] <=> f \in BaseFiles \/ Committed(b, f)
    /\ \A c \in Calls : pc[c] \in GitLabPoints =>
           /\ "merge_request" \notin effects[c]
           /\ "commit" \in effects[c] => pc[c] = "open_mr"
    /\ \A c \in Calls : "commit" \in effects[c] => call[c].target \in GitLabTargets
    /\ \A c, d \in Calls :
           /\ c # d /\ SameFile(c, d) /\ "commit" \in effects[c]
           /\ call[c].action = "create" /\ call[d].action = "create"
           => "commit" \notin effects[d]

\* A step changes no branch and commits nothing, or is a commit that GitLab accepts.
LEMMA CommitStep ==
    ASSUME TypeOK, NEW c \in Calls, Step(c)
    PROVE  \/ /\ files' = files
              /\ \A d \in Calls : "commit" \in effects'[d] <=> "commit" \in effects[d]
           \/ /\ pc[c] = "commit"
              /\ (call[c].action = "create") <=> (call[c].file \notin files[call[c].branch])
              /\ files' = [files EXCEPT ![call[c].branch] = @ \cup {call[c].file}]
              /\ effects' = [effects EXCEPT ![c] = @ \cup {"commit"}]
  <1>1. CASE Commit(c)
    BY <1>1 DEF Commit
  <1>2. CASE Post(c)
    BY <1>2 DEF Post, TypeOK
  <1>3. CASE OpenMergeRequest(c)
    BY <1>3 DEF OpenMergeRequest, TypeOK
  <1>4. CASE ~(Commit(c) \/ Post(c) \/ OpenMergeRequest(c))
    <2>1. files' = files /\ effects' = effects
      BY <1>4 DEF Step, TimedStep, GitLabStep, Receive, Lookup, Skip, Mark, Prepare,
             GetBranch, CreateBranch, UpsertRefs, RecordArtifacts, Complete, Fail, Crash,
             external
    <2> QED
      BY <2>1
  <1> QED
    BY <1>1, <1>2, <1>3, <1>4

LEMMA BarStep ==
    ASSUME IInv, BarInv, NEW c \in Calls, Step(c)
    PROVE  BarInv'
  <1>1. TypeOK /\ CallInv(c) /\ call' = call
        /\ \A d \in Calls \ {c} : pc'[d] = pc[d] /\ effects'[d] = effects[d]
    BY StepFrame DEF IInv, HandlerInv
  <1>2. /\ \A b \in Branches : BaseFiles \subseteq files'[b]
        /\ \A b \in Branches, f \in Files :
               f \in files'[b] <=> f \in BaseFiles \/ Committed(b, f)'
        /\ \A d \in Calls : "commit" \in effects'[d] => call'[d].target \in GitLabTargets
        /\ \A d, o \in Calls :
               /\ d # o /\ SameFile(d, o)' /\ "commit" \in effects'[d]
               /\ call'[d].action = "create" /\ call'[o].action = "create"
               => "commit" \notin effects'[o]
    <2>0. \A d, o \in Calls : SameFile(d, o)' = SameFile(d, o)
      BY <1>1 DEF SameFile
    <2>1. CASE /\ files' = files
               /\ \A d \in Calls : "commit" \in effects'[d] <=> "commit" \in effects[d]
      <3>1. \A b \in Branches, f \in Files : Committed(b, f)' <=> Committed(b, f)
        BY <1>1, <2>1 DEF Committed
      <3> QED
        BY <1>1, <2>0, <2>1, <3>1 DEF BarInv
    <2>2. CASE ~ /\ files' = files
                 /\ \A d \in Calls : "commit" \in effects'[d] <=> "commit" \in effects[d]
      <3>1. /\ pc[c] = "commit"
            /\ (call[c].action = "create") <=> (call[c].file \notin files[call[c].branch])
            /\ files' = [files EXCEPT ![call[c].branch] = @ \cup {call[c].file}]
            /\ effects' = [effects EXCEPT ![c] = @ \cup {"commit"}]
        BY <1>1, <2>2, CommitStep
      <3>2. /\ call[c].target \in GitLabTargets
            /\ call[c].branch \in Branches /\ call[c].file \in Files
        BY <1>1, <3>1, RequestFields DEF CallInv, GitLabPoints
      <3>3. \A d \in Calls : "commit" \in effects'[d] <=> d = c \/ "commit" \in effects[d]
        BY <1>1, <3>1 DEF TypeOK
      <3>4. \A b \in Branches, f \in Files :
              Committed(b, f)' <=>
                  Committed(b, f) \/ (b = call[c].branch /\ f = call[c].file)
        BY <1>1, <3>2, <3>3 DEF Committed
      <3>5. \A b \in Branches, f \in Files :
              f \in files'[b] <=> f \in files[b] \/ (b = call[c].branch /\ f = call[c].file)
        BY <1>1, <3>1, <3>2 DEF TypeOK
      <3>6. ASSUME NEW d \in Calls, SameFile(c, d) \/ SameFile(d, c), "commit" \in effects[d]
            PROVE  call[c].action # "create"
        <4>1. Committed(call[c].branch, call[c].file)
          BY <1>1, <3>6 DEF SameFile, Committed, BarInv
        <4> QED
          BY <3>1, <3>2, <4>1 DEF BarInv
      <3>7. \A d, o \in Calls :
               /\ d # o /\ SameFile(d, o)' /\ "commit" \in effects'[d]
               /\ call'[d].action = "create" /\ call'[o].action = "create"
               => "commit" \notin effects'[o]
        BY <1>1, <2>0, <3>3, <3>6 DEF BarInv
      <3>8. \A b \in Branches : BaseFiles \subseteq files'[b]
        BY <3>1, <3>2, <1>1 DEF TypeOK, BarInv
      <3>9. \A b \in Branches, f \in Files :
               f \in files'[b] <=> f \in BaseFiles \/ Committed(b, f)'
        BY <3>4, <3>5 DEF BarInv
      <3> QED
        BY <1>1, <3>2, <3>3, <3>7, <3>8, <3>9 DEF BarInv
    <2> QED
      BY <2>1, <2>2
  <1>3. pc'[c] \in GitLabPoints =>
            /\ "merge_request" \notin effects'[c]
            /\ "commit" \in effects'[c] => pc'[c] = "open_mr"
    <2> USE DEF Goto, Reply, TypeOK, CallInv, GitLabPoints, BarInv, external
    <2>1. CASE Receive(c) \/ Lookup(c) \/ Skip(c) \/ Mark(c) \/ Prepare(c)
      BY <1>1, <2>1 DEF Receive, Lookup, Skip, Mark, Prepare
    <2>2. CASE Post(c)
      BY <1>1, <2>2, ReadingsType DEF Post
    <2>3. CASE GetBranch(c) \/ CreateBranch(c)
      BY <1>1, <2>3 DEF GetBranch, CreateBranch
    <2>4. CASE Commit(c)
      BY <1>1, <2>4 DEF Commit
    <2>5. CASE OpenMergeRequest(c)
      BY <1>1, <2>5 DEF OpenMergeRequest
    <2>6. CASE UpsertRefs(c) \/ RecordArtifacts(c)
      BY <1>1, <2>6 DEF UpsertRefs, RecordArtifacts
    <2>7. CASE Complete(c) \/ Fail(c) \/ Crash(c)
      BY <1>1, <2>7 DEF Complete, Fail, Crash
    <2> QED
      BY <2>1, <2>2, <2>3, <2>4, <2>5, <2>6, <2>7 DEF Step, TimedStep, GitLabStep
  <1>4. \A d \in Calls : pc'[d] \in GitLabPoints =>
            /\ "merge_request" \notin effects'[d]
            /\ "commit" \in effects'[d] => pc'[d] = "open_mr"
    BY <1>1, <1>3 DEF BarInv
  <1> QED
    BY <1>2, <1>4 DEF BarInv

LEMMA BarInductive == Spec => [](IInv /\ BarInv)
  <1>1. Init => BarInv
    BY DEF Init, BarInv, GitLabPoints, Committed
  <1>2. IInv /\ BarInv /\ [Next]_vars => BarInv'
    <2>1. ASSUME BarInv, UNCHANGED vars PROVE BarInv'
      BY <2>1 DEF vars, BarInv, Committed, SameFile
    <2> QED
      BY <2>1, BarStep DEF Next, Quiescent
  <1> QED
    BY <1>1, <1>2, Inductive, PTL DEF Spec

\* What the publishers, GitLab and the foreign keys ask of c at each await.
NotBarred(c) ==
    /\ pc[c] = "prepare" /\ call[c].target \in GitLabTargets => call[c].project # Null
    /\ pc[c] = "commit" =>
           ((call[c].action = "create") <=> (call[c].file \notin files[call[c].branch]))
    /\ pc[c] = "open_mr" => ~HasOpenMergeRequest(call[c].branch)
    /\ pc[c] = "upsert" => call[c].item \in Rows
    /\ pc[c] = "record_artifacts" => call[c].run \in RunRows

LEMMA ValidNotBarred ==
    ASSUME IInv, BarInv, NEW c \in Calls, Valid(c)
    PROVE  NotBarred(c)
  <1>1. TypeOK /\ CallInv(c) /\ call[c].branch \in Branches
    BY RequestFields DEF IInv, HandlerInv
  <1>2. ASSUME pc[c] = "commit"
        PROVE  (call[c].action = "create") <=> (call[c].file \notin files[call[c].branch])
    <2>1. /\ call[c].target \in GitLabTargets /\ CanCommit(c)
          /\ "commit" \notin effects[c]
      BY <1>1, <1>2 DEF Valid, CallInv, GitLabPoints, BarInv
    <2>4. call[c].file \in Files /\ call[c].action \in {"create", "update"}
      <3>1. call[c] \in RequestType
        BY <1>1, RequestsAssumption DEF TypeOK
      <3> QED
        BY <3>1 DEF RequestType
    <2>2. CASE call[c].action = "update"
      BY <1>1, <2>1, <2>2, <2>4 DEF CanCommit, BarInv
    <2>3. CASE call[c].action = "create"
      <3>1. ~Committed(call[c].branch, call[c].file)
        BY <2>1, <2>3 DEF CanCommit, Committed, SameFile
      <3> QED
        BY <1>1, <2>1, <2>3, <2>4, <3>1 DEF CanCommit, BarInv
    <2> QED
      BY <2>2, <2>3, <2>4
  <1>3. pc[c] = "open_mr" => ~HasOpenMergeRequest(call[c].branch)
    BY <1>1 DEF Valid, CallInv, GitLabPoints, BarInv, HasOpenMergeRequest
  <1> QED
    BY <1>2, <1>3 DEF NotBarred, Valid

\* The half of ValidCallsAreNotDoomed that needs no ENABLED: whatever other calls have
\* done to the ledger and to the branch, at none of its awaits does a valid call meet a
\* condition by which a publisher, GitLab or a foreign key refuses it.
THEOREM ValidCallsAreNotBarred == Spec => [](\A c \in Calls : Valid(c) => NotBarred(c))
  <1>1. IInv /\ BarInv => \A c \in Calls : Valid(c) => NotBarred(c)
    BY ValidNotBarred
  <1> QED
    BY <1>1, BarInductive, PTL

\* Two calls that create the same file on a branch never both commit it, and the one
\* that comes second, a retry included, is never told that it published.
THEOREM CreatesAreNotRepeated == Spec => []CreatesLandOnce
  <1>1. IInv /\ BarInv => CreatesLandOnce
    <2> SUFFICES ASSUME IInv, BarInv, NEW c \in Calls, NEW d \in Calls,
                        c # d, SameFile(c, d), call[c].action = "create",
                        call[d].action = "create", "commit" \in effects[c]
                 PROVE  "commit" \notin effects[d] /\ answer[d] # "published"
      BY DEF CreatesLandOnce
    <2>1. "commit" \notin effects[d]
      BY DEF BarInv
    <2>2. Landed(d) => "commit" \in effects[d]
      BY DEF Landed, SameFile, GitLabTargets
    <2> QED
      BY <2>1, <2>2 DEF IInv, SuccessIsDurable
  <1> QED
    BY <1>1, BarInductive, PTL

\* What is valid now was valid before: commits and merge requests are only added.
LEMMA ValidBefore ==
    ASSUME TypeOK, NEW c \in Calls, Step(c), NEW d \in Calls, Valid(d)'
    PROVE  Valid(d)
  <1>1. call' = call /\ \A o \in Calls : effects[o] \subseteq effects'[o]
    BY StepFrame
  <1> QED
    BY <1>1 DEF Valid, CanCommit, SameFile

Succeeds(c) ==
    /\ pc[c] \notin {"fail_invalid", "fail_gateway"}
    /\ answer[c] \in {"none", "skipped", "published"}

LEMMA SucceedsStep ==
    ASSUME IInv, Faults = {}, NEW c \in Calls, Step(c), NotBarred(c), Succeeds(c)
    PROVE  Succeeds(c)'
  <1>1. TypeOK /\ CallInv(c) /\ Outcomes = {"ok"}
    BY DEF IInv, HandlerInv, Outcomes
  <1> USE <1>1 DEF Goto, Reply, TypeOK, Succeeds, NotBarred
  <1>2. CASE Receive(c) \/ Lookup(c) \/ Skip(c) \/ Mark(c) \/ Prepare(c)
    BY <1>2 DEF Receive, Lookup, Skip, Mark, Prepare
  <1>3. CASE Post(c)
    <2>1. \A reading \in Readings(c) : reading[1] = "upsert"
      BY DEF Readings
    <2> QED
      BY <1>3, <2>1 DEF Post
  <1>4. CASE GetBranch(c) \/ CreateBranch(c)
    BY <1>4 DEF GetBranch, CreateBranch
  <1>5. CASE Commit(c)
    BY <1>5 DEF Commit
  <1>6. CASE OpenMergeRequest(c)
    BY <1>6 DEF OpenMergeRequest
  <1>7. CASE UpsertRefs(c) \/ RecordArtifacts(c)
    BY <1>7 DEF UpsertRefs, RecordArtifacts
  <1>8. CASE Complete(c) \/ Fail(c) \/ Crash(c)
    BY <1>8 DEF Complete, Fail, Crash
  <1> QED
    BY <1>2, <1>3, <1>4, <1>5, <1>6, <1>7, <1>8 DEF Step, TimedStep, GitLabStep

\* So where nothing fails outside, no order of the calls that race for an item, for a
\* branch or to publish first makes a valid one fail: its caller is told "published" or
\* "skipped", or nothing yet.
THEOREM FaultlessCallsSucceed ==
    ASSUME Faults = {}
    PROVE  Spec => [](\A c \in Calls : Valid(c) => Succeeds(c))
  <1> DEFINE All == \A c \in Calls : Valid(c) => Succeeds(c)
  <1>1. Init => All
    BY DEF Init, Succeeds
  <1>2. IInv /\ BarInv /\ All /\ [Next]_vars => All'
    <2> SUFFICES ASSUME IInv, BarInv, All, [Next]_vars, NEW d \in Calls, Valid(d)'
                 PROVE  Succeeds(d)'
      OBVIOUS
    <2>1. ASSUME NEW c \in Calls, Step(c) PROVE Succeeds(d)'
      <3>1. TypeOK
        BY DEF IInv
      <3>2. Valid(d) /\ Succeeds(d)
        BY <2>1, <3>1, ValidBefore
      <3>3. CASE d = c
        BY <2>1, <3>2, <3>3, ValidNotBarred, SucceedsStep
      <3>4. CASE d # c
        BY <2>1, <3>1, <3>2, <3>4, StepFrame DEF Succeeds
      <3> QED
        BY <3>3, <3>4
    <2>2. ASSUME UNCHANGED vars PROVE Succeeds(d)'
      BY <2>2 DEF vars, Valid, CanCommit, SameFile, Succeeds
    <2> QED
      BY <2>1, <2>2 DEF Next, Quiescent
  <1> QED
    BY <1>1, <1>2, BarInductive, PTL DEF Spec

-----------------------------------------------------------------------------
(* The safety half of EveryCallEndsUnlessGitLabHangs.                       *)

\* How far the handler of a call is at each of its awaits.
Rank(point) ==
    CASE point = "idle" -> 0
      [] point = "lookup" -> 1
      [] point \in {"skip", "mark"} -> 2
      [] point = "prepare" -> 3
      [] point \in {"post", "get_branch"} -> 4
      [] point = "create_branch" -> 5
      [] point = "commit" -> 6
      [] point = "open_mr" -> 7
      [] point = "upsert" -> 8
      [] point = "record_artifacts" -> 9
      [] point = "complete" -> 10
      [] point \in {"fail_invalid", "fail_gateway"} -> 11
      [] point = "done" -> 12

\* A step of the handler of c takes it on, and no step takes it back.
MovesOn(c) ==
    /\ Step(c) => Rank(pc'[c]) > Rank(pc[c])
    /\ pc'[c] = pc[c] \/ Rank(pc'[c]) > Rank(pc[c])

LEMMA RankRises ==
    ASSUME IInv, NEW c \in Calls, Step(c)
    PROVE  Rank(pc'[c]) > Rank(pc[c])
  <1>1. TypeOK
    BY DEF IInv
  <1> USE <1>1 DEF Goto, Reply, TypeOK, Rank
  <1>2. CASE Receive(c) \/ Lookup(c) \/ Skip(c) \/ Mark(c) \/ Prepare(c)
    BY <1>2 DEF Receive, Lookup, Skip, Mark, Prepare
  <1>3. CASE Post(c)
    BY <1>3, ReadingsType DEF Post
  <1>4. CASE GetBranch(c) \/ CreateBranch(c)
    BY <1>4 DEF GetBranch, CreateBranch
  <1>5. CASE Commit(c)
    BY <1>5 DEF Commit
  <1>6. CASE OpenMergeRequest(c)
    BY <1>6 DEF OpenMergeRequest
  <1>7. CASE UpsertRefs(c) \/ RecordArtifacts(c)
    BY <1>7 DEF UpsertRefs, RecordArtifacts
  <1>8. CASE Complete(c) \/ Fail(c)
    BY <1>8 DEF Complete, Fail
  <1>9. CASE Crash(c)
    BY <1>9 DEF Crash, InFlightPoints
  <1> QED
    BY <1>2, <1>3, <1>4, <1>5, <1>6, <1>7, <1>8, <1>9 DEF Step, TimedStep, GitLabStep

\* Every step of the handler of a call brings it nearer its end, and no other step
\* takes it back: it retries nothing, and a call takes at most twelve steps, whatever
\* fails and whoever else publishes.
THEOREM CallsMoveOn ==
    Spec => [][\A c \in Calls : MovesOn(c)]_vars
  <1>1. IInv /\ [Next]_vars => [\A c \in Calls : MovesOn(c)]_vars
    <2> SUFFICES ASSUME IInv, Next, NEW c \in Calls
                 PROVE  pc'[c] = pc[c] \/ Rank(pc'[c]) > Rank(pc[c])
      BY RankRises DEF MovesOn
    <2>1. ASSUME NEW o \in Calls, Step(o)
          PROVE  pc'[c] = pc[c] \/ Rank(pc'[c]) > Rank(pc[c])
      BY <2>1, RankRises, StepFrame DEF IInv
    <2> QED
      BY <2>1 DEF Next, Quiescent, vars
  <1> QED
    BY <1>1, Inductive, PTL DEF Spec

-----------------------------------------------------------------------------
(* The publisher-bridge implements PublicationLedger.                       *)

\* The columns an upsert writes are those the target is said to fill.
LEMMA FilledByNewRefs ==
    ASSUME TypeOK, NEW c \in Calls
    PROVE  /\ DOMAIN NewRefs(c) = FilledColumns(call[c].target)
           /\ FilledColumns(call[c].target) \subseteq Columns
           /\ RefField[call[c].target] \in FilledColumns(call[c].target)
  <1>1. CASE call[c].target = "gitlab_branch"
    BY <1>1 DEF NewRefs, FilledColumns, RefField, Columns
  <1>2. CASE call[c].target = "gitlab_mr"
    BY <1>2 DEF NewRefs, FilledColumns, RefField, Columns
  <1>3. CASE call[c].target \notin {"gitlab_branch", "gitlab_mr"}
    BY <1>3, RequestFields, RefFieldInColumns DEF NewRefs, FilledColumns
  <1> QED
    BY <1>1, <1>2, <1>3

\* The ledger starts empty and nobody has been told anything.
LEMMA LedgerInit == Init => Ledger!Init
  <1> SUFFICES ASSUME Init
               PROVE  Ledger!Init
    OBVIOUS
  <1>1. TypeOK
    BY InitType
  <1>2. keyOf \in [Calls -> Cells]
    BY <1>1, RequestFields, RefFieldInColumns DEF keyOf, Cells
  <1>3. fillsOf \in [Calls -> SUBSET Cells] /\ \A c \in Calls : keyOf[c] \in fillsOf[c]
    BY <1>1, RequestFields, FilledByNewRefs DEF fillsOf, keyOf, Cells
  <1>4. entriesOf = {}
    BY DEF Init, entriesOf
  <1>5. toldOf = [c \in Calls |-> "none"]
    BY DEF Init, toldOf
  <1> QED
    BY <1>2, <1>3, <1>4, <1>5 DEF Ledger!Init

\* What c asks for does not change.
LEMMA WantsStay ==
    ASSUME call' = call
    PROVE  keyOf' = keyOf /\ fillsOf' = fillsOf
  BY DEF keyOf, fillsOf

\* An upsert enters all of its cells, and keeps every other.
LEMMA UpsertEnters ==
    ASSUME IInv, NEW c \in Calls, UpsertRefs(c)
    PROVE  Ledger!Enter(c) \/ UNCHANGED Ledger!vars
  <1>1. TypeOK /\ CallInv(c) /\ pc[c] = "upsert" /\ call' = call /\ answer' = answer
    BY DEF IInv, HandlerInv, UpsertRefs
  <1>2. toldOf' = toldOf /\ toldOf[c] = "none"
    BY <1>1 DEF toldOf, CallInv
  <1>3. CASE refs' = refs
    BY <1>1, <1>2, <1>3, WantsStay DEF Ledger!vars, entriesOf
  <1>4. CASE refs' # refs
    <2>1. call[c].item \in Rows
          /\ refs' = [refs EXCEPT ![call[c].item] = Merge(@, NewRefs(c))]
      BY <1>4 DEF UpsertRefs
    <2>2. \A col \in DOMAIN NewRefs(c) : NewRefs(c)[col] # Null
      BY <1>1 DEF CallInv
    <2>3. \A i \in Rows, col \in Columns :
            refs'[i][col] # Null <=>
              refs[i][col] # Null
              \/ (i = call[c].item /\ col \in FilledColumns(call[c].target))
      <3> SUFFICES ASSUME NEW i \in Rows, NEW col \in Columns
                   PROVE  refs'[i][col] # Null <=>
                            refs[i][col] # Null
                            \/ (i = call[c].item /\ col \in FilledColumns(call[c].target))
        OBVIOUS
      <3>1. DOMAIN NewRefs(c) = FilledColumns(call[c].target)
        BY <1>1, FilledByNewRefs
      <3>2. CASE i = call[c].item
        <4>1. refs'[i] = Merge(refs[i], NewRefs(c))
          BY <1>1, <2>1, <3>2 DEF TypeOK
        <4>2. refs'[i][col] = IF col \in DOMAIN NewRefs(c) THEN NewRefs(c)[col]
                                                           ELSE refs[i][col]
          BY <2>2, <4>1 DEF Merge
        <4> QED
          BY <2>2, <3>1, <3>2, <4>2
      <3>3. CASE i # call[c].item
        <4>1. refs'[i] = refs[i]
          BY <1>1, <2>1, <3>3 DEF TypeOK
        <4> QED
          BY <3>3, <4>1
      <3> QED
        BY <3>2, <3>3
    <2>4. entriesOf' = entriesOf \cup fillsOf[c]
      <3>1. fillsOf[c] = {call[c].item} \X FilledColumns(call[c].target)
        BY DEF fillsOf
      <3>2. call[c].item \in Rows /\ FilledColumns(call[c].target) \subseteq Columns
        BY <1>1, <2>1, FilledByNewRefs
      <3>3. \A i \in Rows, col \in Columns :
              <<i, col>> \in entriesOf' <=> <<i, col>> \in entriesOf \cup fillsOf[c]
        BY <2>3, <3>1 DEF entriesOf
      <3>4. entriesOf' \subseteq Rows \X Columns
            /\ entriesOf \cup fillsOf[c] \subseteq Rows \X Columns
        BY <3>1, <3>2 DEF entriesOf
      <3> QED
        BY <3>3, <3>4
    <2> QED
      BY <1>1, <1>2, <2>4, WantsStay DEF Ledger!Enter
  <1> QED
    BY <1>3, <1>4

\* Any other step tells c the truth, or changes nothing of the ledger.
LEMMA OthersTell ==
    ASSUME IInv, IInv', NEW c \in Calls, Step(c), ~UpsertRefs(c)
    PROVE  Ledger!Succeed(c) \/ Ledger!Refuse(c) \/ UNCHANGED Ledger!vars
  <1>1. /\ TypeOK /\ TypeOK' /\ call' = call
        /\ \A d \in Calls \ {c} : answer'[d] = answer[d]
    BY StepFrame DEF IInv
  <1>2. refs' = refs
    BY DEF Step, TimedStep, GitLabStep, Receive, Lookup, Skip, Mark,
       Prepare, Post, GetBranch, CreateBranch, Commit, OpenMergeRequest,
       RecordArtifacts, Complete, Fail, Crash, ledger, external
  <1>3. keyOf' = keyOf /\ fillsOf' = fillsOf /\ entriesOf' = entriesOf
    BY <1>1, <1>2, WantsStay DEF entriesOf
  <1>4. CASE answer'[c] = answer[c]
    BY <1>1, <1>3, <1>4 DEF toldOf, Ledger!vars
  <1>5. CASE answer'[c] # answer[c]
    <2>1. answer[c] = "none" /\ answer'[c] # "none"
      <3>1. answer[c] = "none" <=> pc[c] # "done"
        BY DEF IInv, HandlerInv, CallInv
      <3>2. pc[c] # "done"
        BY DEF Step, TimedStep, GitLabStep, Receive, Lookup, Skip, Mark,
           Prepare, Post, GetBranch, CreateBranch, Commit, OpenMergeRequest,
           UpsertRefs, RecordArtifacts, Complete, Fail, Crash, InFlightPoints
      <3> QED
        BY <1>5, <3>1, <3>2
    <2>2. CASE answer'[c] \in {"skipped", "published"}
      <3>1. toldOf' = [toldOf EXCEPT ![c] = "success"] /\ toldOf[c] = "none"
        BY <1>1, <2>1, <2>2 DEF toldOf
      <3>2. TargetRefPresent(call[c].item, call[c].target)
        BY <1>1, <1>2, <2>2 DEF IInv, SuccessIsDurable, TargetRefPresent
      <3>3. keyOf[c] \in entriesOf
        BY <1>1, <3>2, RequestFields, RefFieldInColumns
        DEF keyOf, entriesOf, TargetRefPresent
      <3> QED
        BY <1>3, <3>1, <3>3 DEF Ledger!Succeed
    <2>3. CASE answer'[c] \notin {"skipped", "published"}
      <3>1. toldOf' = [toldOf EXCEPT ![c] = "failure"] /\ toldOf[c] = "none"
        BY <1>1, <2>1, <2>3 DEF toldOf
      <3> QED
        BY <1>3, <3>1 DEF Ledger!Refuse
    <2> QED
      BY <2>2, <2>3
  <1> QED
    BY <1>4, <1>5

\* Every run of the bridge is a run of the abstract ledger: refs are entered
\* whole, before success is told, and stay; every call is told at most once.
THEOREM ImplementsLedger == Spec => LedgerSpec
  <1>1. IInv /\ IInv' /\ [Next]_vars => [Ledger!Next]_(Ledger!vars)
    <2> SUFFICES ASSUME IInv, IInv', [Next]_vars
                 PROVE  [Ledger!Next]_(Ledger!vars)
      OBVIOUS
    <2>1. ASSUME NEW c \in Calls, Step(c) PROVE [Ledger!Next]_(Ledger!vars)
      BY <2>1, UpsertEnters, OthersTell DEF Ledger!Next
    <2>2. CASE UNCHANGED vars
      BY <2>2, WantsStay DEF vars, Ledger!vars, entriesOf, toldOf
    <2> QED
      BY <2>1, <2>2 DEF Next, Quiescent
  <1> QED
    BY <1>1, LedgerInit, Inductive, PTL DEF Spec, LedgerSpec, Ledger!Spec

-----------------------------------------------------------------------------
(* Reports of the status.                                                   *)

\* What a report says was so when its first query was answered, and the refs it
\* shows are still there.
ReportInv ==
    \A r \in Readers :
        report[r].state \in {"joined", "answered"} =>
            /\ report[r].run \in RunRows
            /\ report[r].status = "complete" => report[r].published # {}
            /\ report[r].published \subseteq PublishedTargets(refs[ItemOf[report[r].run]])

\* Reading changes nothing that the handlers of POST /publish see.
LEMMA StatusSpecRefines == StatusSpec => Spec
  <1>1. StatusInit => Init
    BY DEF StatusInit
  <1>2. [StatusNext]_statusVars => [Next]_vars
    BY DEF StatusNext, statusVars, ReadTask, ReadArtifacts
  <1> QED
    BY <1>1, <1>2, PTL DEF StatusSpec, Spec

\* Every column of external_refs is the ref of some target.
LEMMA ColumnsAreRefs ==
    ASSUME NEW col \in Columns
    PROVE  \E t \in Targets : RefField[t] = col
  BY DEF Columns, RefField, Targets

\* The join is of one moment, in which a complete item has a ref.
LEMMA ReadTaskReports ==
    ASSUME IInv, ReportInv, report \in [Readers -> Report],
           NEW r \in Readers, NEW run \in TaskRuns, ReadTask(r, run)
    PROVE  ReportInv' /\ report' \in [Readers -> Report]
  <1> DEFINE item == ItemOf[run]
             joined == [state |-> "joined", run |-> run, status |-> status[item],
                        published |-> PublishedTargets(refs[item])]
  <1>1. refs' = refs /\ status' = status
    BY DEF ReadTask, vars, ledger
  <1>2. \/ report' = [report EXCEPT ![r] = [NoReport EXCEPT !.state = "error"]]
        \/ report' = [report EXCEPT ![r] = [NoReport EXCEPT !.state = "not_found"]]
        \/ run \in RunRows /\ report' = [report EXCEPT ![r] = joined]
    BY DEF ReadTask
  <1>3. CASE report' = [report EXCEPT ![r] = [NoReport EXCEPT !.state = "error"]]
             \/ report' = [report EXCEPT ![r] = [NoReport EXCEPT !.state = "not_found"]]
    BY <1>1, <1>3 DEF ReportInv, NoReport, Report, PublishedTargets
  <1>4. CASE run \in RunRows /\ report' = [report EXCEPT ![r] = joined]
    <2>1. item \in Rows
      BY <1>4, ItemOfAssumption
    <2>2. status[item] = "complete" => PublishedTargets(refs[item]) # {}
      BY <2>1, ColumnsAreRefs DEF IInv, StatusInv, CompleteHasARef, PublishedTargets
    <2>3. joined \in Report
      BY <2>1 DEF IInv, TypeOK, Report, PublishedTargets
    <2>4. report' \in [Readers -> Report]
      BY <1>4, <2>3
    <2>5. joined.run = run /\ joined.status = status[item]
          /\ joined.published = PublishedTargets(refs[item])
      OBVIOUS
    <2>6. ASSUME NEW o \in Readers, report'[o].state \in {"joined", "answered"}
          PROVE  /\ report'[o].run \in RunRows
                 /\ report'[o].status = "complete" => report'[o].published # {}
                 /\ report'[o].published \subseteq PublishedTargets(refs[ItemOf[report'[o].run]])
      <3>1. CASE o = r
        <4>1. report'[o] = joined
          BY <1>4, <3>1
        <4> QED
          BY <1>4, <2>2, <2>5, <4>1
      <3>2. CASE o # r
        <4>1. report'[o] = report[o]
          BY <1>4, <3>2
        <4> QED
          BY <2>6, <4>1 DEF ReportInv
      <3> QED
        BY <3>1, <3>2
    <2> QED
      BY <1>1, <2>4, <2>6 DEF ReportInv, PublishedTargets
  <1> QED
    BY <1>2, <1>3, <1>4

\* The handlers of POST /publish take no ref away that a report shows.
LEMMA PublishingKeepsReports ==
    ASSUME IInv, ReportInv, [Next]_vars, report' = report
    PROVE  ReportInv'
  <1> SUFFICES ASSUME NEW r \in Readers, report[r].state \in {"joined", "answered"},
                      NEW t \in report[r].published
               PROVE  t \in PublishedTargets(refs'[ItemOf[report[r].run]])
    BY DEF ReportInv, PublishedTargets
  <1> DEFINE item == ItemOf[report[r].run]
  <1>1. t \in Targets /\ item \in Rows /\ refs[item][RefField[t]] # Null
    BY ItemOfAssumption DEF ReportInv, PublishedTargets
  <1>2. refs'[item][RefField[t]] # Null
    <2>1. CASE \E c \in Calls : Step(c)
      BY <1>1, <2>1, RefsStay, RefFieldInColumns DEF IInv
    <2>2. CASE UNCHANGED vars
      BY <1>1, <2>2 DEF vars, ledger
    <2> QED
      BY <2>1, <2>2 DEF Next, Quiescent
  <1> QED
    BY <1>1, <1>2 DEF PublishedTargets

\* What a report has read of the ledger stays true while POST /publish goes on, and a
\* status "complete" comes with a published target.
THEOREM ReportsInductive == StatusSpec => [](ReportInv /\ report \in [Readers -> Report])
  <1> DEFINE Inv == ReportInv /\ report \in [Readers -> Report]
  <1>1. StatusInit => Inv
    BY DEF StatusInit, ReportInv, NoReport, Report
  <1>2. IInv /\ Inv /\ [StatusNext]_statusVars => Inv'
    <2> SUFFICES ASSUME IInv, Inv, [StatusNext]_statusVars PROVE Inv'
      OBVIOUS
    <2>1. ASSUME NEW r \in Readers, NEW run \in TaskRuns, ReadTask(r, run)
          PROVE  Inv'
      BY <2>1, ReadTaskReports
    <2>2. ASSUME NEW r \in Readers, ReadArtifacts(r)
          PROVE  Inv'
      <3>1. PICK end \in {"error", "answered"} : report' = [report EXCEPT ![r].state = end]
        BY <2>2 DEF ReadArtifacts
      <3>2. report[r].state = "joined" /\ refs' = refs
        BY <2>2 DEF ReadArtifacts, vars, ledger
      <3> QED
        BY <3>1, <3>2 DEF ReportInv, Report, PublishedTargets
    <2>3. CASE [Next]_vars /\ report' = report
      BY <2>3, PublishingKeepsReports
    <2> QED
      BY <2>1, <2>2, <2>3 DEF StatusNext, statusVars
  <1> QED
    BY <1>1, <1>2, StatusSpecRefines, Inductive, PTL DEF StatusSpec

\* A report that says an item is complete shows a target that was published, though
\* other calls change the item between the two queries of the report.
THEOREM CompleteReportsAreBacked == StatusSpec => []CompleteReportsShowARef
  <1>1. ReportInv => CompleteReportsShowARef
    BY DEF ReportInv, CompleteReportsShowARef
  <1> QED
    BY <1>1, ReportsInductive, PTL

\* The targets a report shows as published are in the ledger, when it is sent and
\* at any time after.
ReportsStayTrue ==
    \A r \in Readers :
        report[r].state = "answered" =>
            \A t \in report[r].published : refs[ItemOf[report[r].run]][RefField[t]] # Null

\* No later call takes back what a report of GET /publish/{task_run_id}/status showed
\* as published.
THEOREM ReportsAreTrue == StatusSpec => []ReportsStayTrue
  <1>1. ReportInv => ReportsStayTrue
    BY DEF ReportInv, ReportsStayTrue, PublishedTargets
  <1> QED
    BY <1>1, ReportsInductive, PTL

=============================================================================
