----------------------------- MODULE ApprovalGate -----------------------------
(***************************************************************************)
(* What the policy-bridge promises those who ask whether a run may start,  *)
(* without handlers, queries and budgets: one gate per run, that is opened *)
(* at once, shut, or left to humans, who may change their minds but never  *)
(* leave it undecided again, and a run that begins only at an open gate.   *)
(***************************************************************************)
CONSTANTS Runs

VARIABLES
    human,  \* the runs that only a human may let begin
    gate,   \* gate[r]: where the question stands
    told,   \* told[r]: what the one who asked heard
    begun   \* the runs that began

vars == <<human, gate, told, begun>>

\* A row of the question exists.
Filed == {"waiting", "approved", "rejected"}

Init ==
    /\ human \in SUBSET Runs
    /\ gate = [r \in Runs |-> "asked"]
    /\ told = [r \in Runs |-> "none"]
    /\ begun = {}

\* The gate is opened at once.
Clear(r) ==
    /\ gate[r] = "asked" /\ r \notin human
    /\ gate' = [gate EXCEPT ![r] = "cleared"]
    /\ told' = [told EXCEPT ![r] = "go"]
    /\ UNCHANGED <<human, begun>>

\* It is shut for good, by a limit or by a failure.
Bar(r) ==
    /\ gate[r] = "asked"
    /\ gate' = [gate EXCEPT ![r] = "barred"]
    /\ \E word \in {"stop", "unknown"} : told' = [told EXCEPT ![r] = word]
    /\ UNCHANGED <<human, begun>>

\* It is left to a human, and the one who asked is told, not yet, or not at all.
File(r) ==
    /\ gate[r] = "asked" /\ r \in human
    /\ gate' = [gate EXCEPT ![r] = "waiting"]
    /\ \E word \in {"none", "wait", "unknown"} : told' = [told EXCEPT ![r] = word]
    /\ UNCHANGED <<human, begun>>

Tell(r) ==
    /\ gate[r] \in Filed /\ told[r] = "none"
    /\ \E word \in {"wait", "unknown"} : told' = [told EXCEPT ![r] = word]
    /\ UNCHANGED <<human, gate, begun>>

\* A human decides, or decides again.
Rule(r) ==
    /\ gate[r] \in Filed
    /\ \E verdict \in {"approved", "rejected"} : gate' = [gate EXCEPT ![r] = verdict]
    /\ UNCHANGED <<human, told, begun>>

Begin(r) ==
    /\ gate[r] \in {"cleared", "approved"}
    /\ begun' = begun \cup {r}
    /\ UNCHANGED <<human, gate, told>>

Next == \E r \in Runs : Clear(r) \/ Bar(r) \/ File(r) \/ Tell(r) \/ Rule(r) \/ Begin(r)

Spec == Init /\ [][Next]_vars

=============================================================================
