---------------------------- MODULE Normalization ----------------------------
(***************************************************************************)
(* How the intake-bridge turns the text of a document, an issue or a merge *)
(* request into a work item: kind, priority, risk, approval policy,        *)
(* objective and acceptance criteria.                                      *)
(*                                                                         *)
(* Of the title, body and labels the tables see only which of their        *)
(* keywords occur in them: words.  A body is a sequence of lines; a line   *)
(* is known by what the code asks of it.  Lines of text are sentences.     *)
(***************************************************************************)
EXTENDS FiniteSetsExt, Integers, Sequences

CONSTANTS
    Texts,  \* what a line says, apart from its marks
    Title,  \* the title of a document
    Null

Row(value, words) == [value |-> value, words |-> words]

KindTable ==
    << Row("workflow.author", {"workflow", "automation", "n8n", "dify", "pipeline"}),
       Row("qa.validate", {"qa", "validate", "verification", "regression", "test plan"}),
       Row("plan.breakdown", {"breakdown", "roadmap", "milestone", "plan", "decompose"}),
       Row("plan.status", {"status update", "weekly update", "progress update", "status"}),
       Row("plan.support", {"support", "coordination", "triage", "follow-up"}),
       Row("knowledge.sync",
           {"knowledge", "runbook", "playbook", "documentation", "docs", "wiki"}),
       Row("code.review",
           {"review", "approve", "peer review", "merge request", "pull request"}) >>

PriorityTable ==
    << Row(90, {"critical", "sev1", "p0", "blocker", "urgent", "asap"}),
       Row(75, {"high priority", "sev2", "p1", "production", "customer"}),
       Row(35, {"low priority", "nice to have", "backlog", "when possible"}) >>

\* Mutant of RiskTable: the harmless words are looked for before the dangerous ones.
RiskTableLowFirst ==
    << Row("low", {"docs", "documentation", "typo", "status update", "knowledge"}),
       Row("critical", {"sev1", "critical", "security", "incident", "outage", "data loss"}),
       Row("high", {"auth", "billing", "payments", "production", "migration", "high risk"}) >>

RiskTable ==
    << Row("critical", {"sev1", "critical", "security", "incident", "outage", "data loss"}),
       Row("high", {"auth", "billing", "payments", "production", "migration", "high risk"}),
       Row("low", {"docs", "documentation", "typo", "status update", "knowledge"}) >>

WordsOf(table) == UNION {table[i].words : i \in DOMAIN table}

Words == WordsOf(KindTable) \cup WordsOf(PriorityTable) \cup WordsOf(RiskTable)

\* A text that holds the first word of a pair holds the second.
Inside == { <<"test plan", "plan">>, <<"status update", "status">>,
            <<"peer review", "review">> }

Holding(words) == words \cup {p[2] : p \in {i \in Inside : i[1] \in words}}

\* The value of the first row one of whose words occurs.
FirstMatch(table, words, default) ==
    LET hits == {i \in DOMAIN table : table[i].words \cap words # {}}
    IN IF hits = {} THEN default ELSE table[Min(hits)].value

ClassifyKind(source, words) ==
    IF source = "gitlab_mr" THEN "code.review"
    ELSE FirstMatch(KindTable, words, "code.implement")

DefaultPriority(source) ==
    CASE source = "outline_document" -> 45
      [] source = "gitlab_issue" -> 60
      [] source = "gitlab_mr" -> 70

\* Mutant of DeterminePriority: urgent words are added to the default.
DeterminePriorityAdding(source, words) ==
    DefaultPriority(source) + (IF PriorityTable[1].words \cap words # {} THEN 45 ELSE 0)

DeterminePriority(source, words) ==
    FirstMatch(PriorityTable, words, DefaultPriority(source))

DetermineRisk(words) == FirstMatch(RiskTable, words, "medium")

DetermineApprovalPolicy(risk, kind) ==
    CASE risk \in {"critical", "high"} -> risk
      [] risk = "low" /\ kind \in {"plan.status", "knowledge.sync"} -> "low"
      [] risk = "low" /\ kind = "plan.support" -> "none"
      [] OTHER -> "medium"

-----------------------------------------------------------------------------

\* name: the section a line may open; mark: "hash" for a heading, "item" for an
\* item of a list, "box" for one with a check box; must: it holds "must" or "should".
LineType ==
    [name : {"objective", "criteria", "other", "none"},
     mark : {"hash", "item", "box", "none"}, must : BOOLEAN, text : Texts]

Blank == [name |-> "none", mark |-> "none", must |-> FALSE, text |-> Null]

IsHeading(line) == line.mark = "hash" \/ line.name # "none"

IsItem(line) == line.mark \in {"item", "box"}

\* The elements of a sequence at these positions, in order.
Kept(seq, positions) ==
    LET Upto(i) == Cardinality({j \in positions : j <= i})
    IN [n \in 1..Cardinality(positions) |-> seq[CHOOSE i \in positions : Upto(i) = n]]

\* Where a body is not blank.
Filled(lines) == {i \in DOMAIN lines : lines[i] # Blank}

TextsIn(lines) == [i \in DOMAIN lines |-> lines[i].text]

\* The first of every text, in order.
Unique(texts) ==
    Kept(texts, {i \in DOMAIN texts : \A j \in 1..(i - 1) : texts[j] # texts[i]})

\* Mutant of Block: a section runs to the end of the body.
BlockToTheEnd(body, i) == Kept(body, {j \in Filled(body) : j > i})

\* What follows the heading at i: from the first line that is not blank, whatever
\* that line is, to the next heading.
Block(body, i) ==
    LET filled == {j \in Filled(body) : j > i}
        Ends(j) == IsHeading(body[j]) /\ \E first \in filled : first < j
    IN Kept(body, {k \in filled : ~ \E j \in filled : j <= k /\ Ends(j)})

\* The first section of this name that is not empty.
NamedSection(body, name) ==
    LET starts == {i \in DOMAIN body : body[i].name = name /\ Block(body, i) # <<>>}
    IN IF starts = {} THEN <<>> ELSE Block(body, Min(starts))

\* The first paragraph that starts with no hash and holds no item of a list.
FirstParagraph(body) ==
    LET End(i) == Min({j \in i..Len(body) : body[j] = Blank} \cup {Len(body) + 1}) - 1
        starts == {i \in DOMAIN body :
                      /\ body[i] # Blank /\ (i > 1 => body[i - 1] = Blank)
                      /\ body[i].mark # "hash"
                      /\ \A j \in i..End(i) : ~IsItem(body[j])}
    IN IF starts = {} THEN <<>> ELSE SubSeq(body, Min(starts), End(Min(starts)))

ExtractObjective(body) ==
    LET section == NamedSection(body, "objective")
        found == IF section # <<>> THEN section ELSE FirstParagraph(body)
    IN IF found # <<>> THEN TextsIn(found) ELSE <<Title>>

Items(lines) == Unique(Kept(TextsIn(lines), {i \in DOMAIN lines : IsItem(lines[i])}))

Boxes(lines) ==
    Unique(Kept(TextsIn(lines), {i \in DOMAIN lines : lines[i].mark = "box"}))

Musts(lines) == Kept(TextsIn(lines), {i \in DOMAIN lines : lines[i].must})

\* Stands for "Deliver the requested outcome described in the objective."
DefaultCriteria == <<Title>>

ExtractAcceptanceCriteria(body) ==
    LET listed == Items(NamedSection(body, "criteria"))
        boxes == Boxes(body)
        sentences == Musts(body)
        Shortened == SubSeq(sentences, 1, Min({5, Len(sentences)}))
    IN CASE listed # <<>> -> listed
         [] listed = <<>> /\ boxes # <<>> -> boxes
         [] listed = <<>> /\ boxes = <<>> /\ sentences # <<>> -> Unique(Shortened)
         [] OTHER -> DefaultCriteria

-----------------------------------------------------------------------------

Kinds == {"code.implement", "code.review", "workflow.author", "plan.breakdown",
          "plan.support", "plan.status", "knowledge.sync", "qa.validate"}

Risks == {"low", "medium", "high", "critical"}

ItemType ==
    [source : {"outline_document", "gitlab_issue", "gitlab_mr", "manual"},
     kind : Kinds, priority : 1..100, risk : Risks, policy : Risks \cup {"none"},
     objective : Seq(Texts \cup {Title}), criteria : Seq(Texts \cup {Title})]

\* The work item of a webhook.
ToWorkItem(source, words, body) ==
    LET kind == ClassifyKind(source, words)
        risk == DetermineRisk(words)
    IN [source |-> source, kind |-> kind,
        priority |-> DeterminePriority(source, words),
        risk |-> risk, policy |-> DetermineApprovalPolicy(risk, kind),
        objective |-> ExtractObjective(body),
        criteria |-> ExtractAcceptanceCriteria(body)]

=============================================================================
