------------------------------- MODULE MCIntake -------------------------------
(***************************************************************************)
(* Instances of Intake for TLC: the bodies of the requests.                *)
(***************************************************************************)
EXTENDS Intake, TLC

CONSTANTS r1, r2, r3, c1, textA, textB

Body(route, check, mr, words, lines, id, item) ==
    [route |-> route, check |-> check, mr |-> mr, words |-> words, lines |-> lines,
     id |-> id, item |-> item]

Webhook(route, mr, words, lines) == Body(route, "ok", mr, words, lines, Null, Null)

Manual(id, risk) ==
    Body("manual", "ok", FALSE, {}, <<>>, id,
         [source |-> "manual", kind |-> "plan.status", priority |-> 50, risk |-> risk,
          policy |-> "none", objective |-> <<Title>>, criteria |-> <<>>])

Unsigned == Body("outline", "unsigned", FALSE, {}, <<>>, Null, Null)
Invalid == Body("gitlab", "invalid", FALSE, {}, <<>>, Null, Null)
Health == Body("health", "ok", FALSE, {}, <<>>, Null, Null)

\* A word of every row of every table, and every word two rows share.
Samples ==
    {"workflow", "test plan", "plan", "status update", "support", "runbook", "docs",
     "peer review", "critical", "p0", "security", "p1", "production", "auth",
     "low priority", "typo"}

TextsOfTwoWords == {Holding({v, w}) : v \in Samples, w \in Samples} \cup {{}}

Line(name, mark, must, text) == [name |-> name, mark |-> mark, must |-> must, text |-> text]

Lines ==
    {Line("objective", "hash", FALSE, textA), Line("criteria", "hash", FALSE, textA),
     Line("other", "none", FALSE, textA), Line("none", "item", FALSE, textA),
     Line("none", "box", FALSE, textB), Line("none", "none", TRUE, textB)}

SectionLines ==
    {Line("criteria", "hash", FALSE, textA), Line("other", "none", FALSE, textA),
     Line("none", "item", FALSE, textA), Line("none", "item", FALSE, textB)}

\* Two lines of any kind, with or without a blank one between them, or four lines
\* of lists under headings.
ShortBodies ==
    {<<>>} \cup {<<k>> : k \in Lines} \cup {<<k, l>> : k \in Lines, l \in Lines}
    \cup {<<k, Blank, l>> : k \in Lines, l \in Lines} \cup [1..4 -> SectionLines]

WebhooksByText ==
    {Webhook("outline", FALSE, w, <<>>) : w \in TextsOfTwoWords}
    \cup {Webhook("gitlab", TRUE, {"docs"}, l) : l \in ShortBodies}

Event == Webhook("gitlab", FALSE, {"critical", "docs"}, <<>>)

Three(x, y, z) == [r \in Requests |-> CASE r = r1 -> x [] r = r2 -> y [] OTHER -> z]

\* One id given to different items, or to one item again; an event delivered
\* twice; probes beside them; what is refused; and one webhook of every text.
AllSends ==
    {Three(Manual(c1, "low"), Manual(c1, "high"), Event),
     Three(Manual(c1, "low"), Manual(c1, "low"), Manual(c1, "high")),
     Three(Event, Event, Health), Three(Manual(Null, "low"), Health, Health),
     Three(Manual(c1, "low"), Invalid, Health)}
    \cup {Three(w, Unsigned, Unsigned) : w \in WebhooksByText}

AllBodies == UNION {{send[r] : r \in Requests} : send \in AllSends}

=============================================================================
