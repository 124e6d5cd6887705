----------------------------- MODULE MCPayload ------------------------------
(***************************************************************************)
(* Every archive of up to MaxLines lines, of a runner or a Satellite, both *)
(* below and above the size from which archives are truncated, grown a     *)
(* line at a time.                                                         *)
(***************************************************************************)
EXTENDS PayloadValidation

CONSTANT MaxLines

ASSUME LinesAssumption == MaxLines \in Nat

VARIABLES service, big, lines
payloadVars == <<service, big, lines>>

event(e, c, h, t) == [kind |-> "event", event |-> e, corr |-> c, host |-> h, text |-> t]
noEvent(k) == [event("other", Absent, Absent, Absent) EXCEPT !.kind = k]

RunnerLine ==
    {event("other", Absent, Absent, t) : t \in {Absent, "short", "long"}}
    \cup {event("executor_on_start", c, Absent, "empty") : c \in Corr \cup {Absent, "bad"}}
    \cup {event("executor_on_failed", c, Absent, "short") : c \in Corr}

SatLine ==
    {event("other", c, "uuid", t) : c \in Corr, t \in {"empty", "short", "long"}}
    \cup {event("other", c, Absent, Absent) : c \in Corr}
    \cup {event("other", "bad", Absent, "short")}
    \cup {event("other", c, "bad", "short") : c \in Corr}

MCLine ==
    (IF service = Playbook THEN RunnerLine ELSE SatLine)
    \cup {noEvent("blank"), noEvent("bad")}

PayloadInit ==
    /\ service \in {Playbook, PlaybookSat}
    /\ big \in BOOLEAN
    /\ \E l \in MCLine : lines = <<l>>

Grow ==
    /\ Len(lines) < MaxLines
    /\ \E l \in MCLine : lines' = Append(lines, l)
    /\ UNCHANGED <<service, big>>

PayloadSpec == PayloadInit /\ [][Grow]_payloadVars

-----------------------------------------------------------------------------

content == validateContent(service, big, lines)
accepted == content.outcome = "ok"
isText(e) == e.text \notin {Absent, "empty"}

\* Truncation only touches output.  A big archive that does not panic is
\* accepted exactly when it would be were it small, gives as many events in the
\* same order, and these differ in nothing but their text, so neither the run it
\* is tied to nor any status drawn from it changes.
TruncationOnlyText ==
    content.outcome # "panic" =>
        LET whole == validateContent(service, FALSE, lines)
            bare(events) == [i \in DOMAIN events |-> [events[i] EXCEPT !.text = Absent]]
        IN  /\ content.outcome = whole.outcome
            /\ bare(content.events) = bare(whole.events)

\* The code means to preserve the end of the output, the summary of the play: if
\* the archive ends like a line-delimited file, with at most one blank line, its
\* last event keeps the output it has.
SummaryKept ==
    LET last == Max({0} \cup {i \in DOMAIN lines : lines[i].kind # "blank"})
    IN  (service = Playbook /\ accepted /\ last >= Len(lines) - 1) =>
            (isText(content.events[Max(DOMAIN content.events)]) <=> isText(lines[last]))

\* What is left of a truncated archive is bounded: no text over the configured
\* size, and text only in the lines up to the limit (they are counted from 0,
\* so one more than it) and, for a runner, in the last two.
TruncatedIsBounded ==
    (big /\ accepted) =>
        LET texts == {i \in DOMAIN content.events : isText(content.events[i])}
        IN  /\ \A i \in texts : content.events[i].text # "long"
            /\ Cardinality(texts) <=
                   TruncateAfter + 1 + IF service = Playbook THEN 2 ELSE 0

\* What truncation may cost: output, never an event, a field or a verdict; not
\* the summary; and enough that what is left is bounded (validateContent).
TruncationSound ==
    /\ TruncationOnlyText
    /\ SummaryKept
    /\ TruncatedIsBounded

\* A longer version of an upload is tied to the same run: lines added to an
\* accepted archive may make it invalid, but never change its correlation id.
TiedForGood ==
    [][LET id == GetCorrelationId(service, content.events)
           more == validateContent(service, big, lines')
       IN  (accepted /\ id # "bad" /\ more.outcome = "ok") =>
               GetCorrelationId(service, more.events) = id]_payloadVars

\* An archive whose events match the schema is never the end of the process,
\* with or without the console that the README calls not mandatory.
NeverPanics == content.outcome # "panic"
=============================================================================
