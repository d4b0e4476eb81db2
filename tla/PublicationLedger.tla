-------------------------- MODULE PublicationLedger --------------------------
(***************************************************************************)
(* What the publisher-bridge promises its callers, without the handler:    *)
(* a ledger of cells (work item and external_refs column) that only grows, *)
(* and an answer per call that is a success only if the cell that proves   *)
(* the call's target is in the ledger.  Any other call may fail.           *)
(***************************************************************************)
CONSTANTS Calls, Cells

VARIABLES
    key,      \* key[c]: the cell that proves what c asks for
    fills,    \* fills[c]: the cells c enters when it publishes
    entries,  \* the cells entered so far
    told      \* told[c]: "none", "success" or "failure"

vars == <<key, fills, entries, told>>

Init ==
    /\ key \in [Calls -> Cells]
    /\ fills \in [Calls -> SUBSET Cells]
    /\ \A c \in Calls : key[c] \in fills[c]
    /\ entries = {}
    /\ told = [c \in Calls |-> "none"]

\* c publishes: its cells are entered together.
Enter(c) ==
    /\ told[c] = "none"
    /\ entries' = entries \cup fills[c]
    /\ UNCHANGED <<key, fills, told>>

\* c is told of success, its own or another call's.
Succeed(c) ==
    /\ told[c] = "none"
    /\ key[c] \in entries
    /\ told' = [told EXCEPT ![c] = "success"]
    /\ UNCHANGED <<key, fills, entries>>

Refuse(c) ==
    /\ told[c] = "none"
    /\ told' = [told EXCEPT ![c] = "failure"]
    /\ UNCHANGED <<key, fills, entries>>

Next == \E c \in Calls : Enter(c) \/ Succeed(c) \/ Refuse(c)

Spec == Init /\ [][Next]_vars

=============================================================================
