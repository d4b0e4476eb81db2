------------------------------ MODULE PolicyGate ------------------------------
(***************************************************************************)
(* The policy-bridge implements ApprovalGate.                              *)
(***************************************************************************)
EXTENDS PolicyBridge

humanOf ==
    {e \in Evaluations :
        <<request[e].approval_policy, request[e].risk_level>> \in HumanCells}

gateOf ==
    [e \in Evaluations |->
        CASE approvals[e] = "pending" -> "waiting"
          [] approvals[e] \in {"approved", "rejected"} -> approvals[e]
          [] approvals[e] = Null /\ pc[e] # "done" -> "asked"
          [] approvals[e] = Null /\ pc[e] = "done" /\ answer[e] = "approved" -> "cleared"
          [] OTHER -> "barred"]

toldOf ==
    [e \in Evaluations |->
        CASE answer[e] = "none" -> "none"
          [] answer[e] = "approved" -> "go"
          [] answer[e] = "pending_approval" -> "wait"
          [] answer[e] = "rejected" -> "stop"
          [] OTHER -> "unknown"]

begunOf == {e \in Evaluations : run[e] \in Started}

Gate == INSTANCE ApprovalGate WITH
            Runs <- Evaluations, human <- humanOf, gate <- gateOf, told <- toldOf,
            begun <- begunOf

\* Every step of the bridge, of its callers and of the runs is a step of the
\* documented gate: no run begins that neither the matrix nor a human let begin,
\* what was asked of a human is never dropped or asked again, and the one who
\* asked is told "go" only at an open gate, and "wait" only when a row exists.
GateSpec == Gate!Spec

=============================================================================
