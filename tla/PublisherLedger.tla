--------------------------- MODULE PublisherLedger ---------------------------
(***************************************************************************)
(* The publisher-bridge implements PublicationLedger.                      *)
(***************************************************************************)
EXTENDS Publisher

\* The columns a successful publication to a target enters.
FilledColumns(target) ==
    IF target = "gitlab_mr" THEN {"gitlab_project_id", "gitlab_mr_iid"}
                            ELSE {RefField[target]}

Cells == WorkItems \X Columns

keyOf == [c \in Calls |-> <<call[c].item, RefField[call[c].target]>>]
fillsOf == [c \in Calls |-> {call[c].item} \X FilledColumns(call[c].target)]
entriesOf == {cell \in Rows \X Columns : refs[cell[1]][cell[2]] # Null}
toldOf == [c \in Calls |->
            CASE answer[c] = "none" -> "none"
              [] answer[c] \in {"skipped", "published"} -> "success"
              [] OTHER -> "failure"]

Ledger == INSTANCE PublicationLedger
          WITH key <- keyOf, fills <- fillsOf, entries <- entriesOf, told <- toldOf

\* Every step of the handler is a step of the abstract ledger or changes nothing
\* of it: refs are entered whole and before success is told, and stay.
LedgerSpec == Ledger!Spec

=============================================================================
