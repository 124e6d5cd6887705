------------------------- MODULE PayloadValidation --------------------------
(***************************************************************************)
(* What the validator makes of the archive of an upload: the loop over its *)
(* lines (validateContent), the truncation of output in archives too big   *)
(* for a Kafka message, and the correlation id that ties the upload to a   *)
(* run (GetCorrelationId).                                                 *)
(*                                                                         *)
(* An archive is a sequence of lines, at least one: what strings.Split     *)
(* returns for the newline.  A line is blank, does not match the schema    *)
(* (bad), or is an event, of which are kept                                *)
(*   - event: its type, as far as GetCorrelationId tells types apart;      *)
(*   - corr: the correlation id, absent (Absent), not a UUID ("bad"), or one  *)
(*     of the constant Corr;                                               *)
(*   - host: a Satellite event's host, absent, not a UUID, or a UUID;      *)
(*   - text: its stdout or console, absent, empty, at most the configured  *)
(*     size (short), longer (long), or shortened to that size (cut).       *)
(***************************************************************************)
EXTENDS Integers, Sequences, FiniteSetsExt

CONSTANTS Corr,           \* correlation ids
          TruncateAfter   \* artifact.truncate.stdout.field.after.lines

ASSUME TruncateAssumption == TruncateAfter \in Nat

Absent == "nil"
Playbook == "playbook"
PlaybookSat == "playbook-sat"

ASSUME CorrAssumption == Absent \notin Corr /\ "bad" \notin Corr

Line == [kind : {"blank", "bad", "event"},
         event : {"executor_on_start", "executor_on_failed", "other"},
         corr : Corr \cup {Absent, "bad"},
         host : {Absent, "bad", "uuid"},
         text : {Absent, "empty", "short", "long", "cut"}]

\* The line fails its schema, or names a host that is no UUID (Satellite).
isRejected(service, line) ==
    \/ line.kind = "bad"
    \/ line.kind = "event" /\ service = PlaybookSat /\ line.host = "bad"

\* i > truncateAfterNumberOfLines, where the code counts lines from 0.
isLate(i) == i - 1 > TruncateAfter

\* Faulty variant: the last lines are not spared.
isMarked_NoSummary(service, lines, i) == isLate(i)

\* Lines whose text is replaced: of a runner archive not the last two.
isMarked(service, lines, i) ==
    isLate(i) /\ (service = PlaybookSat \/ i - 1 < Len(lines) - 2)

\* A Satellite event without a console past the limit: the console is
\* dereferenced exactly when it is nil.
dereferencesNil(service, big, lines, i) ==
    /\ big
    /\ service = PlaybookSat
    /\ lines[i].kind = "event"
    /\ isMarked(service, lines, i)
    /\ lines[i].text = Absent

\* The text of line i in a truncated archive.  All replaced texts are pointers
\* to one string variable, which is emptied as soon as the first of them has
\* been set: none of them is "Truncated..." by the time they are written out.
truncatedText(service, lines, i) ==
    IF isMarked(service, lines, i) THEN "empty"
    ELSE IF lines[i].text = "long" THEN "cut" ELSE lines[i].text

\* The slice of events.  An event keeps the number of its line, since what is
\* done with the slice depends on the order of its elements only.
validatedEvents(service, big, lines) ==
    LET text(i) == IF big THEN truncatedText(service, lines, i) ELSE lines[i].text
    IN  [i \in {j \in DOMAIN lines : lines[j].kind = "event"} |->
            [lines[i] EXCEPT !.text = text(i)]]

\* The first line that is rejected or panics ends the loop; an archive without
\* events is an error too.
validateContent(service, big, lines) ==
    LET stops == {i \in DOMAIN lines : \/ isRejected(service, lines[i])
                                       \/ dereferencesNil(service, big, lines, i)}
        events == validatedEvents(service, big, lines)
    IN  IF stops # {}
        THEN [outcome |-> IF isRejected(service, lines[Min(stops)]) THEN "error" ELSE "panic",
              events |-> <<>>]
        ELSE [outcome |-> IF DOMAIN events = {} THEN "error" ELSE "ok", events |-> events]

\* The first event that carries an id decides, for a Satellite simply the first
\* event; "bad" stands for the error, of parsing or of finding none.
GetCorrelationId(service, events) ==
    LET carries(i) == \/ service = PlaybookSat
                      \/ events[i].event = "executor_on_start" /\ events[i].corr # Absent
        carriers == {i \in DOMAIN events : carries(i)}
    IN  IF carriers = {} THEN "bad" ELSE events[Min(carriers)].corr

\* What validationSteps does with an archive before it produces anything.
verdict(service, big, lines) ==
    LET content == validateContent(service, big, lines)
    IN  CASE content.outcome = "panic" -> "panic"
          [] content.outcome = "error" -> "failure"
          [] content.outcome = "ok" ->
                IF GetCorrelationId(service, content.events) = "bad"
                THEN "failure" ELSE "success"
=============================================================================
