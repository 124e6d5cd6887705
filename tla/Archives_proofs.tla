--------------------------- MODULE Archives_proofs ---------------------------
(***************************************************************************)
(* Proofs about what the validator and the response consumer make of an    *)
(* upload, for archives of any length, any hosts, correlation ids,         *)
(* sequence numbers and any limit of the truncation.                       *)
(***************************************************************************)
EXTENDS MCArchives, FiniteSetTheorems, WellFoundedInduction, TLAPS

-----------------------------------------------------------------------------
(* Least and greatest numbers, for Min and Max of FiniteSetsExt *)

\* Every non-empty set of natural numbers has a least element, which is its Min:
\* the intervals 0..x of its elements are ordered well by strict inclusion.
LEMMA MinOf ==
    ASSUME NEW T \in SUBSET Nat, T # {}
    PROVE  Min(T) \in T /\ \A y \in T : Min(T) <= y
<1> DEFINE K == {0..x : x \in T}
<1>1. K \subseteq FiniteSubsetsOf(Nat) /\ K # {}
  <2>1. ASSUME NEW x \in T PROVE 0..x \in FiniteSubsetsOf(Nat)
    <3>1. IsFiniteSet(0..x) /\ 0..x \in SUBSET Nat
      BY FS_Interval
    <3> QED BY <3>1 DEF FiniteSubsetsOf
  <2> QED BY <2>1
<1>2. PICK k \in K : \A y \in K : ~(<<y, k>> \in StrictSubsetOrdering(Nat))
  <2>1. IsWellFoundedOn(StrictSubsetOrdering(Nat), FiniteSubsetsOf(Nat))
    BY FS_StrictSubsetOrderingWellFounded
  <2> HIDE DEF K
  <2> QED BY <1>1, <2>1, WFMin
<1>3. PICK x \in T : k = 0..x
  OBVIOUS
<1>4. ASSUME NEW y \in T, y < x PROVE FALSE
  <2>1. 0..y \subseteq 0..x /\ x \in 0..x /\ x \notin 0..y
    BY <1>4
  <2>2. 0..y \in SUBSET Nat /\ 0..x \in SUBSET Nat /\ 0..y # 0..x
    BY <2>1
  <2>3. <<0..y, 0..x>> \in StrictSubsetOrdering(Nat)
    BY <2>1, <2>2 DEF StrictSubsetOrdering
  <2> QED BY <1>2, <1>3, <2>3
<1>5. \E z \in T : \A y \in T : z <= y
  BY <1>4
<1> QED BY <1>5 DEF Min

\* A bounded one has a greatest element: the distances to the bound have a
\* least one.
LEMMA MaxOf ==
    ASSUME NEW n \in Nat, NEW T \in SUBSET (0..n), T # {}
    PROVE  Max(T) \in T /\ \A y \in T : y <= Max(T)
<1> DEFINE D == {n - x : x \in T}
<1>1. D \in SUBSET Nat /\ D # {}
  <2>1. \A x \in T : n - x \in Nat
    OBVIOUS
  <2> QED BY <2>1
<1>2. PICK d \in D : \A e \in D : d <= e
  <2> HIDE DEF D
  <2> QED BY <1>1, MinOf
<1>3. PICK x \in T : d = n - x
  OBVIOUS
<1>4. \A y \in T : y <= x
  <2> SUFFICES ASSUME NEW y \in T PROVE y <= x
    OBVIOUS
  <2>1. n - x <= n - y
    BY <1>2, <1>3
  <2> QED BY <2>1
<1> QED BY <1>4 DEF Max

-----------------------------------------------------------------------------
(* The lines of an archive *)

\* Line i ends the loop.
ends(s, b, ls, i) == isRejected(s, ls[i]) \/ dereferencesNil(s, b, ls, i)
stopping(s, b, ls) == {i \in DOMAIN ls : ends(s, b, ls, i)}

LEMMA ContentIs ==
    ASSUME NEW s, NEW b, NEW ls
    PROVE  validateContent(s, b, ls) =
             IF stopping(s, b, ls) # {}
             THEN [outcome |-> IF isRejected(s, ls[Min(stopping(s, b, ls))])
                               THEN "error" ELSE "panic",
                   events |-> <<>>]
             ELSE [outcome |-> IF DOMAIN validatedEvents(s, b, ls) = {} THEN "error" ELSE "ok",
                   events |-> validatedEvents(s, b, ls)]
BY Zenon DEF validateContent, stopping, ends

\* The first line that ends the loop is one that does.
LEMMA FirstStop ==
    ASSUME NEW s, NEW b, NEW ls \in Seq(Line), stopping(s, b, ls) # {}
    PROVE  /\ Min(stopping(s, b, ls)) \in DOMAIN ls
           /\ ends(s, b, ls, Min(stopping(s, b, ls)))
           /\ \A i \in DOMAIN ls : ends(s, b, ls, i) => Min(stopping(s, b, ls)) <= i
<1>1. stopping(s, b, ls) \in SUBSET Nat
  BY DEF stopping
<1>2. /\ Min(stopping(s, b, ls)) \in stopping(s, b, ls)
      /\ \A y \in stopping(s, b, ls) : Min(stopping(s, b, ls)) <= y
  BY <1>1, MinOf
<1> QED BY <1>2, Zenon DEF stopping

\* The events of an archive that is accepted, and what its lines are then.
LEMMA Accepted ==
    ASSUME NEW s, NEW b, NEW ls, validateContent(s, b, ls).outcome = "ok"
    PROVE  /\ stopping(s, b, ls) = {}
           /\ validateContent(s, b, ls).events = validatedEvents(s, b, ls)
           /\ DOMAIN validatedEvents(s, b, ls) # {}
<1>1. CASE stopping(s, b, ls) # {}
  BY <1>1, ContentIs
<1>2. CASE stopping(s, b, ls) = {}
  BY <1>2, ContentIs
<1> QED BY <1>1, <1>2

\* Truncation takes no event away and changes nothing of one but its text.
LEMMA EventLines ==
    ASSUME NEW s, NEW b, NEW ls
    PROVE  DOMAIN validatedEvents(s, b, ls) = {i \in DOMAIN ls : ls[i].kind = "event"}
BY Zenon DEF validatedEvents

LEMMA EventFields ==
    ASSUME NEW s, NEW b \in BOOLEAN, NEW ls \in Seq(Line),
           NEW i \in DOMAIN validatedEvents(s, b, ls)
    PROVE  /\ validatedEvents(s, b, ls)[i].event = ls[i].event
           /\ validatedEvents(s, b, ls)[i].corr = ls[i].corr
           /\ b => validatedEvents(s, b, ls)[i].text = truncatedText(s, ls, i)
           /\ ~b => validatedEvents(s, b, ls)[i].text = ls[i].text
<1>1. i \in DOMAIN ls /\ ls[i] \in Line
  <2>1. i \in DOMAIN ls
    BY EventLines, Zenon
  <2> QED BY <2>1
<1>2. validatedEvents(s, b, ls)[i] =
        [ls[i] EXCEPT !.text = IF b THEN truncatedText(s, ls, i) ELSE ls[i].text]
  BY EventLines, Zenon DEF validatedEvents
<1>3. CASE b = TRUE
  BY <1>1, <1>2, <1>3 DEF Line
<1>4. CASE b = FALSE
  BY <1>1, <1>2, <1>4 DEF Line
<1> QED BY <1>3, <1>4

-----------------------------------------------------------------------------
(* Truncation *)

PayloadTypeOK ==
    /\ service \in {Playbook, PlaybookSat}
    /\ big \in BOOLEAN
    /\ lines \in Seq(Line)

\* Without truncation nothing panics: what ends the loop is a rejected line.
LEMMA SmallEnds ==
    ASSUME NEW s, NEW ls, NEW i
    PROVE  ends(s, FALSE, ls, i) <=> isRejected(s, ls[i])
BY DEF ends, dereferencesNil, isRejected

\* Truncation decides nothing: accepted or rejected, and with which events, is
\* the same below the size from which archives are truncated (validateContent).
LEMMA OnlyText ==
    ASSUME PayloadTypeOK
    PROVE  TruncationOnlyText
<1> DEFINE S == stopping(service, big, lines)
           W == stopping(service, FALSE, lines)
           whole == validateContent(service, FALSE, lines)
           bare(events) == [i \in DOMAIN events |-> [events[i] EXCEPT !.text = Absent]]
<1>0. lines \in Seq(Line)
  BY DEF PayloadTypeOK
<1> SUFFICES ASSUME content.outcome # "panic"
             PROVE  content.outcome = whole.outcome /\ bare(content.events) = bare(whole.events)
  BY DEF TruncationOnlyText
<1>1. \A i \in W : i \in S
  <2>1. \A i \in W : i \in DOMAIN lines /\ isRejected(service, lines[i])
    BY SmallEnds, Zenon DEF stopping
  <2> QED BY <2>1, Zenon DEF stopping, ends
<1>2. CASE S # {}
  <2>1. content = [outcome |-> IF isRejected(service, lines[Min(S)]) THEN "error" ELSE "panic",
                   events |-> <<>>]
    BY <1>2, ContentIs DEF content
  <2>2. isRejected(service, lines[Min(S)]) /\ Min(S) \in DOMAIN lines
    BY <1>0, <2>1, <1>2, FirstStop
  <2>3. W # {}
    BY <2>2, SmallEnds, Zenon DEF stopping
  <2>4. isRejected(service, lines[Min(W)])
    <3>1. ends(service, FALSE, lines, Min(W))
      BY <1>0, <2>3, FirstStop
    <3> QED BY <3>1, SmallEnds
  <2>5. whole = [outcome |-> "error", events |-> <<>>]
    BY <2>3, <2>4, ContentIs
  <2>6. content = [outcome |-> "error", events |-> <<>>]
    BY <2>1, <2>2
  <2>7. content.outcome = whole.outcome /\ content.events = whole.events
    <3> HIDE DEF whole
    <3> QED BY <2>5, <2>6
  <2> QED BY <2>7, Zenon
<1>3. CASE S = {}
  <2>1. W = {}
    BY <1>1, <1>3
  <2> DEFINE ev == validatedEvents(service, big, lines)
             ew == validatedEvents(service, FALSE, lines)
  <2>2. content = [outcome |-> IF DOMAIN ev = {} THEN "error" ELSE "ok", events |-> ev]
    BY <1>3, ContentIs DEF content
  <2>3. whole = [outcome |-> IF DOMAIN ew = {} THEN "error" ELSE "ok", events |-> ew]
    BY <2>1, ContentIs
  <2>4. DOMAIN ev = DOMAIN ew
    BY EventLines
  <2>5. \A i \in DOMAIN ev : [ev[i] EXCEPT !.text = Absent] = [ew[i] EXCEPT !.text = Absent]
    <3> SUFFICES ASSUME NEW i \in DOMAIN ev
                 PROVE  [ev[i] EXCEPT !.text = Absent] = [ew[i] EXCEPT !.text = Absent]
      OBVIOUS
    <3>1. i \in DOMAIN lines /\ i \in DOMAIN ew
      <4>1. i \in DOMAIN ew
        BY <2>4, Zenon
      <4>2. i \in {j \in DOMAIN lines : lines[j].kind = "event"}
        BY EventLines, Zenon
      <4> QED BY <4>1, <4>2, Zenon
    <3>2. \E t : ev[i] = [lines[i] EXCEPT !.text = t]
      BY EventLines, Zenon DEF validatedEvents
    <3>3. \E t : ew[i] = [lines[i] EXCEPT !.text = t]
      BY <3>1, EventLines, Zenon DEF validatedEvents
    <3>4. lines[i] \in Line
      BY <1>0, <3>1
    <3> HIDE DEF ev, ew
    <3> QED BY <3>2, <3>3, <3>4 DEF Line
  <2>6. bare(ev) = bare(ew)
    <3> HIDE DEF ev, ew
    <3> QED BY <2>4, <2>5
  <2>7. content.events = ev /\ whole.events = ew /\ content.outcome = whole.outcome
    <3> HIDE DEF ev, ew, whole
    <3> QED BY <2>2, <2>3, <2>4
  <2> QED BY <2>6, <2>7
<1> QED BY <1>2, <1>3

\* What an accepted archive's events are, line by line.
LEMMA AcceptedEvents ==
    ASSUME PayloadTypeOK, accepted
    PROVE  /\ DOMAIN content.events = {i \in DOMAIN lines : lines[i].kind = "event"}
           /\ DOMAIN content.events # {}
           /\ \A i \in DOMAIN lines : lines[i].kind # "bad"
           /\ \A i \in DOMAIN content.events :
                content.events[i].text =
                  IF big THEN truncatedText(service, lines, i) ELSE lines[i].text
<1> USE DEF PayloadTypeOK
<1>1. /\ stopping(service, big, lines) = {}
      /\ content.events = validatedEvents(service, big, lines)
      /\ DOMAIN content.events # {}
  BY Accepted DEF accepted, content
<1>2. \A i \in DOMAIN lines : ~isRejected(service, lines[i])
  BY <1>1, Zenon DEF stopping, ends
<1>3. \A i \in DOMAIN lines : lines[i].kind # "bad"
  BY <1>2, Zenon DEF isRejected
<1> HIDE DEF PayloadTypeOK
<1>4. service \in {Playbook, PlaybookSat} /\ big \in BOOLEAN /\ lines \in Seq(Line)
  BY DEF PayloadTypeOK
<1>5. DOMAIN validatedEvents(service, big, lines) =
        {i \in DOMAIN lines : lines[i].kind = "event"}
  BY EventLines
<1>6. \A i \in DOMAIN validatedEvents(service, big, lines) :
        /\ big => validatedEvents(service, big, lines)[i].text
                    = truncatedText(service, lines, i)
        /\ ~big => validatedEvents(service, big, lines)[i].text = lines[i].text
  BY <1>4, EventFields
<1> QED BY <1>1, <1>3, <1>4, <1>5, <1>6

\* The last event of a runner archive keeps its output.
LEMMA KeepsSummary ==
    ASSUME PayloadTypeOK
    PROVE  SummaryKept
<1> DEFINE N == {i \in DOMAIN lines : lines[i].kind # "blank"}
           last == Max({0} \cup N)
           E == DOMAIN content.events
<1> SUFFICES ASSUME service = Playbook, accepted, last >= Len(lines) - 1
             PROVE  isText(content.events[Max(E)]) <=> isText(lines[last])
  BY Zenon DEF SummaryKept
<1>1. /\ E = {i \in DOMAIN lines : lines[i].kind = "event"} /\ E # {}
      /\ \A i \in DOMAIN lines : lines[i].kind # "bad"
      /\ \A i \in E : content.events[i].text =
            IF big THEN truncatedText(service, lines, i) ELSE lines[i].text
  BY AcceptedEvents
<1>2. \A i \in DOMAIN lines : lines[i].kind \in {"blank", "bad", "event"}
  <2>1. \A i \in DOMAIN lines : lines[i] \in Line
    BY DEF PayloadTypeOK
  <2> QED BY <2>1 DEF Line
<1>3. N = E
  BY <1>1, <1>2
<1>4. Len(lines) \in Nat /\ DOMAIN lines = 1..Len(lines)
  BY DEF PayloadTypeOK
<1>5. E \in SUBSET (0..Len(lines)) /\ {0} \cup E \in SUBSET (0..Len(lines))
  BY <1>1, <1>4
<1>6. Max(E) \in E /\ \A y \in E : y <= Max(E)
  <2> HIDE DEF E
  <2> QED BY <1>1, <1>4, <1>5, MaxOf
<1>7. last \in {0} \cup E /\ \A y \in {0} \cup E : y <= last
  <2> HIDE DEF E, N
  <2>1. {0} \cup N = {0} \cup E
    BY <1>3
  <2> QED BY <2>1, <1>4, <1>5, MaxOf
<1>8. last = Max(E)
  <2> HIDE DEF E, last, N
  <2>1. \A y \in E : y \in 1..Len(lines)
    BY <1>1, <1>4
  <2>2. Max(E) \in 1..Len(lines) /\ last \in 0..Len(lines)
    BY <2>1, <1>5, <1>6, <1>7
  <2>3. Max(E) <= last /\ last <= Max(E)
    BY <2>1, <2>2, <1>6, <1>7
  <2> QED BY <2>2, <2>3, <1>4
<1> HIDE DEF E, last, N
<1>9. ~isMarked(service, lines, last)
  <2>1. service # PlaybookSat
    BY DEF Playbook, PlaybookSat
  <2>2. last \in Int
    <3>1. last \in 0..Len(lines)
      BY <1>6, <1>8, <1>5
    <3> QED BY <3>1, <1>4
  <2> QED BY <2>1, <2>2, <1>4 DEF isMarked
<1>10. content.events[last].text \in {lines[last].text, "cut"}
       /\ (content.events[last].text = "cut" => lines[last].text \in {"cut", "long"})
  BY <1>1, <1>6, <1>8, <1>9 DEF truncatedText
<1> QED BY <1>8, <1>10 DEF isText, Absent

\* At most the lines up to the limit, and a runner's last two, have text left.
LEMMA BoundedText ==
    ASSUME PayloadTypeOK
    PROVE  TruncatedIsBounded
<1> DEFINE texts == {i \in DOMAIN content.events : isText(content.events[i])}
           head == 1..(TruncateAfter + 1)
           tail == (Len(lines) - 1)..Len(lines)
<1> SUFFICES ASSUME big, accepted
             PROVE  /\ \A i \in texts : content.events[i].text # "long"
                    /\ Cardinality(texts) <=
                          TruncateAfter + 1 + IF service = Playbook THEN 2 ELSE 0
  BY Zenon DEF TruncatedIsBounded
<1>1. Len(lines) \in Nat /\ DOMAIN lines = 1..Len(lines) /\ TruncateAfter \in Nat
  BY TruncateAssumption DEF PayloadTypeOK
<1>2. \A i \in texts : i \in DOMAIN lines /\ content.events[i].text = truncatedText(service, lines, i)
                       /\ isText(content.events[i])
  BY AcceptedEvents
<1>3. \A i \in texts : content.events[i].text # "long" /\ ~isMarked(service, lines, i)
  BY <1>2 DEF truncatedText, isText
<1>4. \A i \in texts : i \in head \/ (service = Playbook /\ i \in tail)
  <2> SUFFICES ASSUME NEW i \in texts PROVE i \in head \/ (service = Playbook /\ i \in tail)
    OBVIOUS
  <2> HIDE DEF texts
  <2>1. i \in 1..Len(lines) /\ ~isMarked(service, lines, i)
    BY <1>1, <1>2, <1>3
  <2>2. service \in {Playbook, PlaybookSat}
    BY DEF PayloadTypeOK
  <2> QED BY <1>1, <2>1, <2>2 DEF isMarked, isLate
<1> HIDE DEF texts
<1>5. IsFiniteSet(head) /\ Cardinality(head) = TruncateAfter + 1
  BY <1>1, FS_Interval
<1>6. IsFiniteSet(tail) /\ Cardinality(tail) = 2
  BY <1>1, FS_Interval
<1>7. CASE service = Playbook
  <2> HIDE DEF head, tail
  <2>1. texts \subseteq head \cup tail
    BY <1>4
  <2>2. /\ IsFiniteSet(head \cup tail)
        /\ Cardinality(head \cup tail) =
             Cardinality(head) + Cardinality(tail) - Cardinality(head \cap tail)
    BY <1>5, <1>6, FS_Union
  <2>3. IsFiniteSet(head \cap tail) /\ Cardinality(head \cap tail) \in Nat
    BY <1>5, FS_Intersection, FS_CardinalityType
  <2>4. Cardinality(texts) <= Cardinality(head \cup tail) /\ Cardinality(texts) \in Nat
    BY <2>1, <2>2, FS_Subset, FS_CardinalityType
  <2> QED BY <1>1, <1>3, <1>5, <1>6, <1>7, <2>2, <2>3, <2>4
<1>8. CASE service # Playbook
  <2> HIDE DEF head, tail
  <2>1. texts \subseteq head
    BY <1>4, <1>8
  <2>2. Cardinality(texts) <= Cardinality(head)
    BY <2>1, <1>5, FS_Subset
  <2> QED BY <1>1, <1>3, <1>5, <1>8, <2>2
<1> QED BY <1>7, <1>8

-----------------------------------------------------------------------------
(* The run an archive is tied to *)

\* The events that can give an archive its correlation id.
carrying(s, events) ==
    {i \in DOMAIN events : \/ s = PlaybookSat
                           \/ events[i].event = "executor_on_start" /\ events[i].corr # Absent}

LEMMA CorrelationIs ==
    ASSUME NEW s, NEW events
    PROVE  GetCorrelationId(s, events) =
             IF carrying(s, events) = {} THEN "bad" ELSE events[Min(carrying(s, events))].corr
BY Zenon DEF GetCorrelationId, carrying

\* In an accepted archive they can be found among the lines.
carrierLine(s, line) ==
    /\ line.kind = "event"
    /\ \/ s = PlaybookSat
       \/ line.event = "executor_on_start" /\ line.corr # Absent

LEMMA CarryingLines ==
    ASSUME NEW s, NEW b \in BOOLEAN, NEW ls \in Seq(Line)
    PROVE  /\ carrying(s, validatedEvents(s, b, ls)) = {i \in DOMAIN ls : carrierLine(s, ls[i])}
           /\ \A i \in carrying(s, validatedEvents(s, b, ls)) :
                 validatedEvents(s, b, ls)[i].corr = ls[i].corr
<1> DEFINE ev == validatedEvents(s, b, ls)
<1>1. DOMAIN ev = {i \in DOMAIN ls : ls[i].kind = "event"}
  BY EventLines
<1>2. \A i \in DOMAIN ev : ev[i].event = ls[i].event /\ ev[i].corr = ls[i].corr
  BY EventFields
<1> HIDE DEF ev
<1>3. /\ carrying(s, ev) = {i \in DOMAIN ls : carrierLine(s, ls[i])}
      /\ \A i \in carrying(s, ev) : ev[i].corr = ls[i].corr
  BY <1>1, <1>2 DEF carrying, carrierLine
<1> QED BY <1>3, Zenon DEF ev

\* The first of them stays the first when lines are added (GetCorrelationId).
LEMMA FirstCarrierStays ==
    ASSUME NEW s, NEW b \in BOOLEAN, NEW ls \in Seq(Line), NEW l \in Line,
           validateContent(s, b, ls).outcome = "ok",
           validateContent(s, b, Append(ls, l)).outcome = "ok",
           GetCorrelationId(s, validateContent(s, b, ls).events) # "bad"
    PROVE  GetCorrelationId(s, validateContent(s, b, Append(ls, l)).events) =
             GetCorrelationId(s, validateContent(s, b, ls).events)
<1> DEFINE ms == Append(ls, l)
           ev == validatedEvents(s, b, ls)
           em == validatedEvents(s, b, ms)
           c == carrying(s, ev)
           d == carrying(s, em)
<1>1. validateContent(s, b, ls).events = ev /\ validateContent(s, b, ms).events = em
  BY Accepted
<1>2. ms \in Seq(Line) /\ Len(ms) = Len(ls) + 1 /\ Len(ls) \in Nat
      /\ DOMAIN ls = 1..Len(ls) /\ DOMAIN ms = 1..(Len(ls) + 1)
      /\ \A i \in DOMAIN ls : ms[i] = ls[i]
  OBVIOUS
<1>3. c = {i \in DOMAIN ls : carrierLine(s, ls[i])} /\ \A i \in c : ev[i].corr = ls[i].corr
  BY CarryingLines
<1>4. d = {i \in DOMAIN ms : carrierLine(s, ms[i])} /\ \A i \in d : em[i].corr = ms[i].corr
  BY <1>2, CarryingLines
<1>5. c # {} /\ GetCorrelationId(s, ev) = ev[Min(c)].corr
  BY <1>1, CorrelationIs
<1> HIDE DEF ms, ev, em, c, d
<1>6. c \in SUBSET Nat /\ d \in SUBSET Nat /\ c \subseteq d
  BY <1>2, <1>3, <1>4
<1>7. \A i \in d : i \in c \/ i = Len(ls) + 1
  BY <1>2, <1>3, <1>4
<1>8. Min(c) \in c /\ \A y \in c : Min(c) <= y
  BY <1>5, <1>6, MinOf
<1>9. Min(d) \in d /\ \A y \in d : Min(d) <= y
  BY <1>5, <1>6, MinOf
<1>10. Min(c) = Min(d)
  <2>1. Min(c) \in Nat /\ Min(d) \in Nat /\ Min(d) <= Min(c)
    BY <1>6, <1>8, <1>9
  <2>2. Min(c) <= Len(ls)
    BY <1>2, <1>3, <1>8
  <2>3. Min(d) \in c
    BY <1>2, <1>7, <1>9, <2>1, <2>2
  <2>4. Min(c) <= Min(d)
    BY <1>8, <2>3
  <2> QED BY <2>1, <2>4
<1>11. GetCorrelationId(s, em) = em[Min(d)].corr
  BY <1>9, CorrelationIs DEF d
<1>12. ms[Min(c)] = ls[Min(c)]
  BY <1>2, <1>3, <1>8
<1>13. GetCorrelationId(s, em) = GetCorrelationId(s, ev)
  BY <1>3, <1>4, <1>5, <1>8, <1>9, <1>10, <1>11, <1>12
<1> QED BY <1>1, <1>13, Zenon DEF ms

-----------------------------------------------------------------------------
(* Sorting: SortSatEvents permutes an upload *)

\* What the lemmas on sorting need of an upload.
Sortable(events) ==
    /\ DOMAIN events = 1..Len(events)
    /\ Len(events) \in Nat
    /\ \A i \in DOMAIN events : events[i].sequence \in Nat \cup {NoSeq}

\* The comparison, with ties broken by position, is a strict total order.
LEMMA BeforeOrder ==
    ASSUME NEW events, Sortable(events),
           NEW i \in DOMAIN events, NEW j \in DOMAIN events, NEW k \in DOMAIN events
    PROVE  /\ ~comesBefore(events, i, i)
           /\ i # j => comesBefore(events, i, j) \/ comesBefore(events, j, i)
           /\ comesBefore(events, i, j) /\ comesBefore(events, j, k) => comesBefore(events, i, k)
<1>1. /\ events[i].sequence \in Nat \cup {-1}
      /\ events[j].sequence \in Nat \cup {-1}
      /\ events[k].sequence \in Nat \cup {-1}
      /\ i \in Nat /\ j \in Nat /\ k \in Nat
  BY DEF Sortable, NoSeq
<1> QED BY <1>1 DEF comesBefore, seqLess, NoSeq

before(events, i) == {j \in DOMAIN events : comesBefore(events, j, i)}

LEMMA BeforeFinite ==
    ASSUME NEW events, Sortable(events), NEW i \in DOMAIN events
    PROVE  /\ IsFiniteSet(before(events, i))
           /\ Cardinality(before(events, i)) \in Nat
           /\ Cardinality(before(events, i)) < Len(events)
           /\ place(events, i) = 1 + Cardinality(before(events, i))
<1>1. /\ IsFiniteSet(DOMAIN events) /\ Cardinality(DOMAIN events) = Len(events)
      /\ Len(events) \in Nat
  <2>1. DOMAIN events = 1..Len(events) /\ Len(events) \in Nat
    BY DEF Sortable
  <2> DEFINE n == Len(events)
  <2>2. n \in Nat
    BY <2>1
  <2> HIDE DEF n
  <2>3. IsFiniteSet(1..n) /\ Cardinality(1..n) = IF 1 > n THEN 0 ELSE n - 1 + 1
    BY <2>2, FS_Interval
  <2>4. IsFiniteSet(1..n) /\ Cardinality(1..n) = n
    BY <2>2, <2>3
  <2> QED BY <2>1, <2>4 DEF n
<1>2. before(events, i) \subseteq DOMAIN events
  BY DEF before
<1>3. i \notin before(events, i)
  BY BeforeOrder DEF before
<1>4. /\ IsFiniteSet(before(events, i))
      /\ Cardinality(before(events, i)) <= Cardinality(DOMAIN events)
      /\ Cardinality(before(events, i)) = Cardinality(DOMAIN events)
           => before(events, i) = DOMAIN events
  BY <1>1, <1>2, FS_Subset
<1>5. Cardinality(before(events, i)) \in Nat
  BY <1>4, FS_CardinalityType
<1>6. place(events, i) = 1 + Cardinality(before(events, i))
  BY Zenon DEF place, before
<1> QED BY <1>1, <1>3, <1>4, <1>5, <1>6

\* An event has more events before it than any of those.
LEMMA PlaceGrows ==
    ASSUME NEW events, Sortable(events), NEW i \in DOMAIN events, NEW j \in DOMAIN events,
           comesBefore(events, i, j)
    PROVE  place(events, i) < place(events, j)
<1>1. before(events, i) \subseteq before(events, j)
  <2> SUFFICES ASSUME NEW k \in before(events, i) PROVE k \in before(events, j)
    OBVIOUS
  <2>1. k \in DOMAIN events /\ comesBefore(events, k, i)
    BY DEF before
  <2>2. comesBefore(events, k, j)
    BY <2>1, BeforeOrder
  <2> QED BY <2>1, <2>2 DEF before
<1>2. i \in before(events, j) /\ i \notin before(events, i)
  BY BeforeOrder DEF before
<1>3. /\ Cardinality(before(events, i)) <= Cardinality(before(events, j))
      /\ Cardinality(before(events, i)) = Cardinality(before(events, j))
           => before(events, i) = before(events, j)
  BY <1>1, BeforeFinite, FS_Subset
<1>4. /\ Cardinality(before(events, i)) \in Nat /\ Cardinality(before(events, j)) \in Nat
      /\ place(events, i) = 1 + Cardinality(before(events, i))
      /\ place(events, j) = 1 + Cardinality(before(events, j))
  BY BeforeFinite
<1> QED BY <1>2, <1>3, <1>4

\* So every place from the first to the last is taken, by one event.
LEMMA PlacesTaken ==
    ASSUME NEW events, Sortable(events)
    PROVE  /\ \A i \in DOMAIN events : place(events, i) \in DOMAIN events
           /\ \A i, j \in DOMAIN events : place(events, i) = place(events, j) => i = j
           /\ \A k \in DOMAIN events : \E i \in DOMAIN events : place(events, i) = k
<1> DEFINE D == DOMAIN events
           f == [i \in D |-> place(events, i)]
<1>1. D = 1..Len(events) /\ Len(events) \in Nat
  BY DEF Sortable
<1>2. \A i \in D : place(events, i) \in D
  <2> SUFFICES ASSUME NEW i \in D PROVE place(events, i) \in D
    OBVIOUS
  <2>1. /\ Cardinality(before(events, i)) \in Nat
        /\ Cardinality(before(events, i)) < Len(events)
        /\ place(events, i) = 1 + Cardinality(before(events, i))
    BY BeforeFinite
  <2> QED BY <1>1, <2>1
<1>3. \A i, j \in D : place(events, i) = place(events, j) => i = j
  <2> SUFFICES ASSUME NEW i \in D, NEW j \in D, i # j PROVE place(events, i) # place(events, j)
    OBVIOUS
  <2>1. comesBefore(events, i, j) \/ comesBefore(events, j, i)
    BY BeforeOrder
  <2>2. place(events, i) < place(events, j) \/ place(events, j) < place(events, i)
    BY <2>1, PlaceGrows
  <2>3. place(events, i) \in Nat /\ place(events, j) \in Nat
    BY <1>1, <1>2
  <2> QED BY <2>2, <2>3
<1>4. f \in Injection(D, D)
  <2>1. f \in [D -> D] /\ \A a, b \in D : f[a] = f[b] => a = b
    BY <1>2, <1>3
  <2> HIDE DEF f, D
  <2> QED BY <2>1 DEF Injection, IsInjective
<1>5. IsFiniteSet(D)
  BY <1>1, FS_Interval
<1>6. f \in Surjection(D, D)
  <2> HIDE DEF f, D
  <2> QED BY <1>4, <1>5, FS_Injection
<1>7. \A k \in D : \E i \in D : f[i] = k
  <2> HIDE DEF f, D
  <2> QED BY <1>6 DEF Surjection
<1> QED BY <1>2, <1>3, <1>7

\* eventAt is the inverse of place.
LEMMA EventAtPlace ==
    ASSUME NEW events, Sortable(events)
    PROVE  /\ \A k \in DOMAIN events : /\ eventAt(events, k) \in DOMAIN events
                                       /\ place(events, eventAt(events, k)) = k
           /\ \A i \in DOMAIN events : /\ place(events, i) \in DOMAIN events
                                       /\ eventAt(events, place(events, i)) = i
<1>1. ASSUME NEW k \in DOMAIN events
      PROVE  eventAt(events, k) \in DOMAIN events /\ place(events, eventAt(events, k)) = k
  <2>1. \E i \in DOMAIN events : place(events, i) = k
    BY PlacesTaken
  <2> QED BY <2>1, Zenon DEF eventAt
<1>2. ASSUME NEW i \in DOMAIN events
      PROVE  place(events, i) \in DOMAIN events /\ eventAt(events, place(events, i)) = i
  <2>1. place(events, i) \in DOMAIN events
    BY PlacesTaken
  <2>2. /\ eventAt(events, place(events, i)) \in DOMAIN events
        /\ place(events, eventAt(events, place(events, i))) = place(events, i)
    BY <1>1, <2>1
  <2> QED BY <2>1, <2>2, PlacesTaken
<1> QED BY <1>1, <1>2

-----------------------------------------------------------------------------
(* What a Satellite upload says, read off the set of its events *)

\* The uploads of a Satellite: no two events of a host have the same type and
\* sequence.
SatUpload(events) ==
    /\ events \in Seq(MCSatEvent)
    /\ \A i, j \in DOMAIN events :
          i # j => \/ events[i].host # events[j].host
                   \/ events[i].type # events[j].type
                   \/ events[i].sequence # events[j].sequence

LEMMA SatEventFields ==
    ASSUME NEW e \in MCSatEvent
    PROVE  /\ e.sequence \in Nat \cup {NoSeq}
           /\ \/ /\ e.type = "playbook_run_update"
                 /\ e.host \in Host /\ e.status = Nil
              \/ /\ e.type = "playbook_run_finished"
                 /\ e.host \in Host /\ e.status \in {"success", "failure", "canceled"}
              \/ /\ e.type = "playbook_run_completed"
                 /\ e.host = Nil /\ e.status \in {"success", "failure", "canceled"}
<1> DEFINE U == {satEvent("playbook_run_update", Nil, h, n) : h \in Host, n \in UpdateNumbers}
           F == {satEvent("playbook_run_finished", s, h, n) :
                    s \in {"success", "failure", "canceled"}, h \in Host,
                    n \in {NoSeq} \cup FinishNumbers}
           C == {satEvent("playbook_run_completed", s, Nil, NoSeq) :
                    s \in {"success", "failure", "canceled"}}
<1>1. e \in U \/ e \in F \/ e \in C
  BY DEF MCSatEvent
<1>2. CASE e \in U
  <2>1. PICK h \in Host, n \in UpdateNumbers : e = satEvent("playbook_run_update", Nil, h, n)
    BY <1>2
  <2> QED BY <2>1, NumbersAssumption DEF satEvent
<1>3. CASE e \in F
  <2>1. PICK s \in {"success", "failure", "canceled"}, h \in Host,
             n \in {NoSeq} \cup FinishNumbers :
                e = satEvent("playbook_run_finished", s, h, n)
    BY <1>3
  <2> QED BY <2>1, NumbersAssumption DEF satEvent
<1>4. CASE e \in C
  <2>1. PICK s \in {"success", "failure", "canceled"} :
                e = satEvent("playbook_run_completed", s, Nil, NoSeq)
    BY <1>4
  <2> QED BY <2>1 DEF satEvent
<1> QED BY <1>1, <1>2, <1>3, <1>4

LEMMA SatSortable ==
    ASSUME NEW events, SatUpload(events)
    PROVE  /\ Sortable(events)
           /\ \A i \in DOMAIN events : events[i] \in MCSatEvent
<1>1. /\ DOMAIN events = 1..Len(events) /\ Len(events) \in Nat
      /\ \A i \in DOMAIN events : events[i] \in MCSatEvent
  BY DEF SatUpload
<1>2. \A i \in DOMAIN events : events[i].sequence \in Nat \cup {NoSeq}
  BY <1>1, SatEventFields
<1> QED BY <1>1, <1>2 DEF Sortable

\* The events of one type about one host, and the first and last of them.
told(R, t, h) == {e \in R : e.type = t /\ e.host = h}
isFirst(R, t, h, e) == e \in told(R, t, h) /\ \A f \in told(R, t, h) : f = e \/ seqLess(e, f)
isLast(R, t, h, e) == e \in told(R, t, h) /\ \A f \in told(R, t, h) : f = e \/ seqLess(f, e)
first(R, t, h) == CHOOSE e : isFirst(R, t, h, e)
last(R, t, h) == CHOOSE e : isLast(R, t, h, e)

LEMMA OneFirst ==
    ASSUME NEW R, \A e \in R : e.sequence \in Nat \cup {NoSeq}, NEW t, NEW h, NEW e
    PROVE  /\ isFirst(R, t, h, e) => first(R, t, h) = e
           /\ isLast(R, t, h, e) => last(R, t, h) = e
<1>1. \A a, b \in told(R, t, h) : ~(seqLess(a, b) /\ seqLess(b, a))
  <2>1. \A a \in told(R, t, h) : a.sequence \in Nat \cup {-1}
    BY DEF told, NoSeq
  <2> QED BY <2>1 DEF seqLess, NoSeq
<1>2. ASSUME isFirst(R, t, h, e) PROVE first(R, t, h) = e
  <2>1. isFirst(R, t, h, first(R, t, h))
    BY <1>2, Zenon DEF first
  <2> QED BY <1>1, <1>2, <2>1, Zenon DEF isFirst
<1>3. ASSUME isLast(R, t, h, e) PROVE last(R, t, h) = e
  <2>1. isLast(R, t, h, last(R, t, h))
    BY <1>3, Zenon DEF last
  <2> QED BY <1>1, <1>3, <2>1, Zenon DEF isLast
<1> QED BY <1>2, <1>3

\* Where the sorted upload has them.
found(events, t, h) ==
    {k \in DOMAIN SortSatEvents(events) :
        SortSatEvents(events)[k].type = t /\ SortSatEvents(events)[k].host = h}

LEMMA SortedAt ==
    ASSUME NEW events, Sortable(events)
    PROVE  /\ DOMAIN SortSatEvents(events) = DOMAIN events
           /\ \A k \in DOMAIN events : SortSatEvents(events)[k] = events[eventAt(events, k)]
BY DEF SortSatEvents, Sortable

LEMMA FoundTold ==
    ASSUME NEW events, SatUpload(events), NEW t, NEW h
    PROVE  /\ found(events, t, h) \subseteq DOMAIN events
           /\ \A k \in found(events, t, h) :
                /\ eventAt(events, k) \in DOMAIN events
                /\ place(events, eventAt(events, k)) = k
                /\ SortSatEvents(events)[k] = events[eventAt(events, k)]
                /\ events[eventAt(events, k)] \in told(Range(events), t, h)
           /\ \A e \in told(Range(events), t, h) : \E i \in DOMAIN events :
                e = events[i] /\ place(events, i) \in found(events, t, h)
<1>1. Sortable(events)
  BY SatSortable
<1>2. found(events, t, h) \subseteq DOMAIN events
  BY <1>1, SortedAt DEF found
<1>3. ASSUME NEW k \in found(events, t, h)
      PROVE  /\ eventAt(events, k) \in DOMAIN events
             /\ place(events, eventAt(events, k)) = k
             /\ SortSatEvents(events)[k] = events[eventAt(events, k)]
             /\ events[eventAt(events, k)] \in told(Range(events), t, h)
  <2>1. k \in DOMAIN events
    BY <1>2
  <2>2. eventAt(events, k) \in DOMAIN events /\ place(events, eventAt(events, k)) = k
    BY <1>1, <2>1, EventAtPlace
  <2>3. SortSatEvents(events)[k] = events[eventAt(events, k)]
    BY <1>1, <2>1, SortedAt
  <2>4. events[eventAt(events, k)].type = t /\ events[eventAt(events, k)].host = h
    BY <2>3 DEF found
  <2> QED BY <2>2, <2>3, <2>4 DEF told, Range
<1>4. ASSUME NEW e \in told(Range(events), t, h)
      PROVE  \E i \in DOMAIN events : e = events[i] /\ place(events, i) \in found(events, t, h)
  <2>1. PICK i \in DOMAIN events : e = events[i] /\ e.type = t /\ e.host = h
    BY DEF told, Range
  <2>2. place(events, i) \in DOMAIN events /\ eventAt(events, place(events, i)) = i
    BY <1>1, EventAtPlace
  <2>3. /\ place(events, i) \in DOMAIN SortSatEvents(events)
        /\ SortSatEvents(events)[place(events, i)] = e
    BY <1>1, <2>1, <2>2, SortedAt
  <2> QED BY <2>1, <2>3 DEF found
<1> QED BY <1>2, <1>3, <1>4

\* Of two of them the one that is sorted first has the lower sequence.
LEMMA SortedLess ==
    ASSUME NEW events, SatUpload(events), NEW t, NEW h,
           NEW i \in DOMAIN events, NEW j \in DOMAIN events,
           events[i].type = t, events[i].host = h, events[j].type = t, events[j].host = h,
           place(events, i) <= place(events, j)
    PROVE  events[i] = events[j] \/ seqLess(events[i], events[j])
<1> SUFFICES ASSUME i # j PROVE seqLess(events[i], events[j])
  OBVIOUS
<1>1. Sortable(events)
  BY SatSortable
<1>2. events[i].sequence # events[j].sequence
  BY DEF SatUpload
<1>3. place(events, i) \in Nat /\ place(events, j) \in Nat
  BY <1>1, BeforeFinite
<1>4. ~comesBefore(events, j, i)
  BY <1>1, <1>3, PlaceGrows
<1>5. comesBefore(events, i, j)
  BY <1>1, <1>4, BeforeOrder
<1>6. events[i].sequence \in Nat \cup {-1} /\ events[j].sequence \in Nat \cup {-1}
  BY <1>1 DEF Sortable, NoSeq
<1> QED BY <1>2, <1>5, <1>6 DEF comesBefore, seqLess, NoSeq

\* So the first and the last the sorted upload has are the first and the last
\* by sequence, whatever order the upload had them in.
LEMMA FoundFirst ==
    ASSUME NEW events, SatUpload(events), NEW t, NEW h, found(events, t, h) # {}
    PROVE  /\ isFirst(Range(events), t, h, SortSatEvents(events)[Min(found(events, t, h))])
           /\ isLast(Range(events), t, h, SortSatEvents(events)[Max(found(events, t, h))])
<1> DEFINE F == found(events, t, h)
           R == Range(events)
<1>1. Sortable(events)
  BY SatSortable
<1>2. F \in SUBSET Nat /\ F \in SUBSET (0..Len(events)) /\ Len(events) \in Nat
  <2>1. F \subseteq DOMAIN events
    BY FoundTold
  <2>2. DOMAIN events = 1..Len(events) /\ Len(events) \in Nat
    BY <1>1 DEF Sortable
  <2> HIDE DEF F
  <2> QED BY <2>1, <2>2
<1>3. Min(F) \in F /\ \A y \in F : Min(F) <= y
  <2> HIDE DEF F
  <2> QED BY <1>2, MinOf DEF F
<1>4. Max(F) \in F /\ \A y \in F : y <= Max(F)
  <2> HIDE DEF F
  <2> QED BY <1>2, MaxOf DEF F
<1> DEFINE a == eventAt(events, Min(F))
           z == eventAt(events, Max(F))
<1>5. /\ a \in DOMAIN events /\ place(events, a) = Min(F)
      /\ SortSatEvents(events)[Min(F)] = events[a] /\ events[a] \in told(R, t, h)
  BY <1>3, FoundTold
<1>6. /\ z \in DOMAIN events /\ place(events, z) = Max(F)
      /\ SortSatEvents(events)[Max(F)] = events[z] /\ events[z] \in told(R, t, h)
  BY <1>4, FoundTold
<1>7. ASSUME NEW f \in told(R, t, h)
      PROVE  /\ f = events[a] \/ seqLess(events[a], f)
             /\ f = events[z] \/ seqLess(f, events[z])
  <2>1. PICK i \in DOMAIN events : f = events[i] /\ place(events, i) \in F
    BY FoundTold
  <2>2. /\ events[i].type = t /\ events[i].host = h
        /\ events[a].type = t /\ events[a].host = h
        /\ events[z].type = t /\ events[z].host = h
    BY <1>5, <1>6, <2>1 DEF told
  <2>3. place(events, a) <= place(events, i) /\ place(events, i) <= place(events, z)
    BY <1>3, <1>4, <1>5, <1>6, <2>1
  <2> HIDE DEF a, z
  <2>4. events[a] = events[i] \/ seqLess(events[a], events[i])
    BY <1>5, <2>1, <2>2, <2>3, SortedLess
  <2>5. events[i] = events[z] \/ seqLess(events[i], events[z])
    BY <1>6, <2>1, <2>2, <2>3, SortedLess
  <2> QED BY <2>1, <2>4, <2>5
<1> HIDE DEF a, z
<1> QED BY <1>5, <1>6, <1>7 DEF isFirst, isLast

\* The sets of positions that the three inferences look at.
LEMMA FoundIs ==
    ASSUME NEW events, SatUpload(events), NEW h \in Host
    PROVE  LET sorted == SortSatEvents(events)
           IN  /\ {i \in DOMAIN sorted : sorted[i].type = "playbook_run_completed"} =
                    found(events, "playbook_run_completed", Nil)
               /\ {i \in DOMAIN sorted : /\ sorted[i].type = "playbook_run_completed"
                                         /\ sorted[i].status # Nil} =
                    found(events, "playbook_run_completed", Nil)
               /\ {i \in aboutHost(sorted, h) : /\ sorted[i].type = "playbook_run_finished"
                                                /\ sorted[i].status # Nil} =
                    found(events, "playbook_run_finished", h)
               /\ {i \in DOMAIN sorted : sorted[i].host = h /\ sorted[i].status # Nil} =
                    found(events, "playbook_run_finished", h)
<1> DEFINE sorted == SortSatEvents(events)
<1>1. Sortable(events) /\ \A i \in DOMAIN events : events[i] \in MCSatEvent
  BY SatSortable
<1>2. \A k \in DOMAIN sorted : sorted[k] \in MCSatEvent
  <2>1. \A k \in DOMAIN events : eventAt(events, k) \in DOMAIN events
    BY <1>1, EventAtPlace
  <2> QED BY <1>1, <2>1, SortedAt
<1>3. /\ found(events, "playbook_run_completed", Nil) =
           {k \in DOMAIN sorted : sorted[k].type = "playbook_run_completed" /\ sorted[k].host = Nil}
      /\ found(events, "playbook_run_finished", h) =
           {k \in DOMAIN sorted : sorted[k].type = "playbook_run_finished" /\ sorted[k].host = h}
  BY Zenon DEF found
<1> HIDE DEF sorted
<1>4. \A k \in DOMAIN sorted :
           \/ /\ sorted[k].type = "playbook_run_update"
              /\ sorted[k].host \in Host /\ sorted[k].status = Nil
           \/ /\ sorted[k].type = "playbook_run_finished"
              /\ sorted[k].host \in Host /\ sorted[k].status \in {"success", "failure", "canceled"}
           \/ /\ sorted[k].type = "playbook_run_completed"
              /\ sorted[k].host = Nil /\ sorted[k].status \in {"success", "failure", "canceled"}
  BY <1>2, SatEventFields
<1>5. {i \in DOMAIN sorted : sorted[i].type = "playbook_run_completed"} =
         found(events, "playbook_run_completed", Nil)
  BY <1>3, <1>4
<1>6. {i \in DOMAIN sorted : /\ sorted[i].type = "playbook_run_completed"
                             /\ sorted[i].status # Nil} =
         found(events, "playbook_run_completed", Nil)
  BY <1>3, <1>4 DEF Nil
<1>7. {i \in aboutHost(sorted, h) : /\ sorted[i].type = "playbook_run_finished"
                                    /\ sorted[i].status # Nil} =
         found(events, "playbook_run_finished", h)
  BY <1>3, <1>4, HostAssumption DEF Nil, aboutHost
<1>8. {i \in DOMAIN sorted : sorted[i].host = h /\ sorted[i].status # Nil} =
         found(events, "playbook_run_finished", h)
  BY <1>3, <1>4, HostAssumption DEF Nil
<1> QED BY <1>5, <1>6, <1>7, <1>8, Zenon DEF sorted

LEMMA FoundNone ==
    ASSUME NEW events, SatUpload(events), NEW t, NEW h
    PROVE  /\ found(events, t, h) = {} <=> told(Range(events), t, h) = {}
           /\ found(events, t, h) # {} =>
                /\ SortSatEvents(events)[Min(found(events, t, h))] = first(Range(events), t, h)
                /\ SortSatEvents(events)[Max(found(events, t, h))] = last(Range(events), t, h)
                /\ isFirst(Range(events), t, h, first(Range(events), t, h))
                /\ isLast(Range(events), t, h, last(Range(events), t, h))
<1>1. found(events, t, h) = {} <=> told(Range(events), t, h) = {}
  BY FoundTold
<1>2. \A e \in Range(events) : e.sequence \in Nat \cup {NoSeq}
  <2>1. Sortable(events)
    BY SatSortable
  <2> QED BY <2>1 DEF Sortable, Range
<1>3. ASSUME found(events, t, h) # {}
      PROVE  /\ SortSatEvents(events)[Min(found(events, t, h))] = first(Range(events), t, h)
             /\ SortSatEvents(events)[Max(found(events, t, h))] = last(Range(events), t, h)
             /\ isFirst(Range(events), t, h, first(Range(events), t, h))
             /\ isLast(Range(events), t, h, last(Range(events), t, h))
  BY <1>2, <1>3, FoundFirst, OneFirst
<1> QED BY <1>1, <1>3

\* The three inferences as functions of the set of events.
partialVerdict(R) ==
    IF told(R, "playbook_run_completed", Nil) = {} THEN "running"
    ELSE satStatusEventDbMap(first(R, "playbook_run_completed", Nil).status)

hostVerdict(R, h) ==
    IF told(R, "playbook_run_finished", h) = {} THEN "running"
    ELSE satStatusEventDbMap(first(R, "playbook_run_finished", h).status)

lastVerdict(R, h) ==
    IF told(R, "playbook_run_finished", h) = {} THEN "running"
    ELSE satStatusEventDbMap(last(R, "playbook_run_finished", h).status)

joined(verdicts) ==
    IF "running" \in verdicts THEN "running"
    ELSE IF "failure" \in verdicts THEN "failure"
    ELSE IF "canceled" \in verdicts THEN "canceled" ELSE "success"

satHosts(R) == {e.host : e \in R} \ {Nil}

fullVerdict(R) ==
    IF told(R, "playbook_run_completed", Nil) # {} THEN partialVerdict(R)
    ELSE joined({lastVerdict(R, h) : h \in satHosts(R)})

\* checkSatStatusPartial and inferSatHostStatus.
LEMMA PartialIs ==
    ASSUME NEW events, SatUpload(events)
    PROVE  checkSatStatusPartial(events) = partialVerdict(Range(events))
<1> DEFINE F == found(events, "playbook_run_completed", Nil)
<1>1. checkSatStatusPartial(events) =
        IF F = {} THEN "running" ELSE satStatusEventDbMap(SortSatEvents(events)[Min(F)].status)
  <2>1. LocalHost \in Host
    BY HostAssumption
  <2>2. {i \in DOMAIN SortSatEvents(events) :
            /\ SortSatEvents(events)[i].type = "playbook_run_completed"
            /\ SortSatEvents(events)[i].status # Nil} = F
    BY <2>1, FoundIs, Zenon
  <2> HIDE DEF F
  <2> QED BY <2>2, Zenon DEF checkSatStatusPartial
<1> QED BY <1>1, FoundNone DEF partialVerdict

LEMMA HostIs ==
    ASSUME NEW events, SatUpload(events), NEW h \in Host
    PROVE  /\ inferSatHostStatus(events, h) = hostVerdict(Range(events), h)
           /\ lastHostStatus(SortSatEvents(events), h) = lastVerdict(Range(events), h)
<1> DEFINE F == found(events, "playbook_run_finished", h)
<1>1. inferSatHostStatus(events, h) =
        IF F = {} THEN "running" ELSE satStatusEventDbMap(SortSatEvents(events)[Min(F)].status)
  <2>1. {i \in aboutHost(SortSatEvents(events), h) :
            /\ SortSatEvents(events)[i].type = "playbook_run_finished"
            /\ SortSatEvents(events)[i].status # Nil} = F
    BY FoundIs, Zenon
  <2> HIDE DEF F
  <2> QED BY <2>1, Zenon DEF inferSatHostStatus
<1>2. lastHostStatus(SortSatEvents(events), h) =
        IF F = {} THEN "running" ELSE satStatusEventDbMap(SortSatEvents(events)[Max(F)].status)
  <2>1. {i \in DOMAIN SortSatEvents(events) :
            /\ SortSatEvents(events)[i].host = h
            /\ SortSatEvents(events)[i].status # Nil} = F
    BY FoundIs, Zenon
  <2> HIDE DEF F
  <2> QED BY <2>1, Zenon DEF lastHostStatus
<1> QED BY <1>1, <1>2, FoundNone DEF hostVerdict, lastVerdict

\* The hosts of an upload are hosts, and are read off its events.
LEMMA SatHostsIs ==
    ASSUME NEW events, SatUpload(events)
    PROVE  GetSatHosts(events) = satHosts(Range(events)) /\ GetSatHosts(events) \subseteq Host
<1>1. \A i \in DOMAIN events : events[i] \in MCSatEvent
  BY SatSortable
<1>2. \A i \in DOMAIN events : events[i].host \in Host \cup {Nil}
  BY <1>1, SatEventFields
<1>3. GetSatHosts(events) = satHosts(Range(events))
  BY DEF GetSatHosts, satHosts, Range
<1> QED BY <1>2, <1>3 DEF GetSatHosts

\* inferSatPlaybookStatus.
LEMMA FullIs ==
    ASSUME NEW events, SatUpload(events)
    PROVE  inferSatPlaybookStatus(events) = fullVerdict(Range(events))
<1> DEFINE F == found(events, "playbook_run_completed", Nil)
           V == {lastHostStatus(SortSatEvents(events), h) : h \in GetSatHosts(events)}
           W == {lastVerdict(Range(events), h) : h \in satHosts(Range(events))}
<1>1. {i \in DOMAIN SortSatEvents(events) :
         SortSatEvents(events)[i].type = "playbook_run_completed"} = F
  BY HostAssumption, FoundIs, Zenon
<1>2. inferSatPlaybookStatus(events) =
        CASE F # {} -> satStatusEventDbMap(SortSatEvents(events)[Min(F)].status)
          [] F = {} /\ "running" \in V -> "running"
          [] F = {} /\ "running" \notin V ->
                IF "failure" \in V THEN "failure"
                ELSE IF "canceled" \in V THEN "canceled" ELSE "success"
  <2> HIDE DEF F
  <2> QED BY <1>1, Zenon DEF inferSatPlaybookStatus
<1>3. V = W
  <2>1. \A h \in GetSatHosts(events) :
           lastHostStatus(SortSatEvents(events), h) = lastVerdict(Range(events), h)
    BY SatHostsIs, HostIs
  <2> QED BY <2>1, SatHostsIs
<1>4. F = {} <=> told(Range(events), "playbook_run_completed", Nil) = {}
  BY FoundNone
<1>5. CASE F # {}
  <2>1. inferSatPlaybookStatus(events) = satStatusEventDbMap(SortSatEvents(events)[Min(F)].status)
    <3> HIDE DEF F, V
    <3> QED BY <1>2, <1>5
  <2>2. SortSatEvents(events)[Min(F)] = first(Range(events), "playbook_run_completed", Nil)
    BY <1>5, FoundNone
  <2> QED BY <1>4, <1>5, <2>1, <2>2 DEF fullVerdict, partialVerdict
<1>6. CASE F = {}
  <2>1. inferSatPlaybookStatus(events) = joined(V)
    <3> HIDE DEF F, V
    <3> QED BY <1>2, <1>6 DEF joined
  <2>2. fullVerdict(Range(events)) = joined(W)
    BY <1>4, <1>6 DEF fullVerdict
  <2> HIDE DEF V, W
  <2> QED BY <1>3, <2>1, <2>2
<1> QED BY <1>5, <1>6

\* A Satellite upload written backwards is one too, with the same events.
LEMMA ReverseUpload ==
    ASSUME NEW events, SatUpload(events)
    PROVE  SatUpload(Reverse(events)) /\ Range(Reverse(events)) = Range(events)
<1> DEFINE n == Len(events)
           r == Reverse(events)
<1>1. n \in Nat /\ DOMAIN events = 1..n /\ \A i \in 1..n : events[i] \in MCSatEvent
  BY DEF SatUpload
<1>2. r = [i \in 1..n |-> events[(n - i) + 1]]
  BY Zenon DEF Reverse
<1> HIDE DEF n, r
<1>3. \A i \in 1..n : (n - i) + 1 \in 1..n /\ (n - ((n - i) + 1)) + 1 = i
  BY <1>1
<1>4. r \in Seq(MCSatEvent) /\ DOMAIN r = 1..n /\ \A i \in 1..n : r[i] = events[(n - i) + 1]
  BY <1>1, <1>2, <1>3
<1>5. ASSUME NEW i \in 1..n, NEW j \in 1..n, i # j
      PROVE  \/ r[i].host # r[j].host \/ r[i].type # r[j].type
             \/ r[i].sequence # r[j].sequence
  <2>1. (n - i) + 1 # (n - j) + 1
    BY <1>1, <1>5
  <2> DEFINE a == (n - i) + 1
             b == (n - j) + 1
  <2>2. a \in DOMAIN events /\ b \in DOMAIN events /\ a # b /\ r[i] = events[a] /\ r[j] = events[b]
    BY <1>1, <1>3, <1>4, <2>1
  <2> HIDE DEF a, b
  <2>3. \/ events[a].host # events[b].host \/ events[a].type # events[b].type
        \/ events[a].sequence # events[b].sequence
    BY <2>2 DEF SatUpload
  <2> QED BY <2>2, <2>3
<1>6. SatUpload(r)
  BY <1>4, <1>5 DEF SatUpload
<1>7. Range(r) = Range(events)
  <2>1. \A i \in 1..n : events[i] = r[(n - i) + 1]
    BY <1>3, <1>4
  <2> QED BY <1>1, <1>3, <1>4, <2>1 DEF Range
<1> QED BY <1>6, <1>7 DEF r

-----------------------------------------------------------------------------
(* The verdicts agree *)

EventsTypeOK ==
    /\ kind \in {"runner", "sat", "none"}
    /\ kind = "runner" => upload \in Seq(MCRunnerEvent)
    /\ kind = "sat" => SatUpload(upload)
    /\ kind = "none" => upload = <<>>

LEMMA SatAgrees ==
    ASSUME EventsTypeOK
    PROVE  SatVerdictAgrees
<1> DEFINE R == Range(upload)
           verdicts == {inferSatHostStatus(upload, h) : h \in GetSatHosts(upload)}
<1> SUFFICES ASSUME kind = "sat",
                    \A i \in DOMAIN upload : upload[i].type # "playbook_run_completed",
                    \A i, j \in DOMAIN upload :
                       isFinished(i) /\ isFinished(j) /\ upload[i].host = upload[j].host => i = j
             PROVE  inferSatPlaybookStatus(upload) = joined(verdicts)
  BY Zenon DEF SatVerdictAgrees, joined
<1>1. SatUpload(upload)
  BY DEF EventsTypeOK
<1>2. told(R, "playbook_run_completed", Nil) = {}
  BY DEF told, Range
<1>3. inferSatPlaybookStatus(upload) = joined({lastVerdict(R, h) : h \in GetSatHosts(upload)})
  BY <1>1, <1>2, FullIs, SatHostsIs DEF fullVerdict
<1>4. \A h : \A e, f \in told(R, "playbook_run_finished", h) : e = f
  BY DEF told, Range, isFinished
<1>5. ASSUME NEW h \in GetSatHosts(upload)
      PROVE  inferSatHostStatus(upload, h) = lastVerdict(R, h)
  <2>1. h \in Host
    BY <1>1, SatHostsIs
  <2>2. inferSatHostStatus(upload, h) = hostVerdict(R, h)
    BY <1>1, <2>1, HostIs
  <2>3. CASE told(R, "playbook_run_finished", h) = {}
    BY <2>2, <2>3 DEF hostVerdict, lastVerdict
  <2>4. CASE told(R, "playbook_run_finished", h) # {}
    <3>1. /\ isFirst(R, "playbook_run_finished", h, first(R, "playbook_run_finished", h))
          /\ isLast(R, "playbook_run_finished", h, last(R, "playbook_run_finished", h))
      BY <1>1, <2>4, FoundNone
    <3>2. first(R, "playbook_run_finished", h) = last(R, "playbook_run_finished", h)
      BY <1>4, <3>1, Zenon DEF isFirst, isLast
    <3> QED BY <2>2, <3>2 DEF hostVerdict, lastVerdict
  <2> QED BY <2>3, <2>4
<1>6. verdicts = {lastVerdict(R, h) : h \in GetSatHosts(upload)}
  BY <1>5
<1> HIDE DEF verdicts, R
<1> QED BY <1>3, <1>6

LEMMA OrderIrrelevant ==
    ASSUME EventsTypeOK
    PROVE  SatOrderIrrelevant
<1> SUFFICES ASSUME kind = "sat"
             PROVE  /\ inferSatPlaybookStatus(Reverse(upload)) = inferSatPlaybookStatus(upload)
                    /\ checkSatStatusPartial(Reverse(upload)) = checkSatStatusPartial(upload)
                    /\ \A h \in Host : inferSatHostStatus(Reverse(upload), h)
                                         = inferSatHostStatus(upload, h)
  BY Zenon DEF SatOrderIrrelevant
<1>1. SatUpload(upload)
  BY DEF EventsTypeOK
<1>2. SatUpload(Reverse(upload)) /\ Range(Reverse(upload)) = Range(upload)
  BY <1>1, ReverseUpload
<1>3. inferSatPlaybookStatus(Reverse(upload)) = inferSatPlaybookStatus(upload)
  BY <1>1, <1>2, FullIs
<1>4. checkSatStatusPartial(Reverse(upload)) = checkSatStatusPartial(upload)
  BY <1>1, <1>2, PartialIs
<1>5. ASSUME NEW h \in Host
      PROVE  inferSatHostStatus(Reverse(upload), h) = inferSatHostStatus(upload, h)
  BY <1>1, <1>2, HostIs
<1> QED BY <1>3, <1>4, <1>5

LEMMA NeverEarly ==
    ASSUME EventsTypeOK
    PROVE  PartialNeverEarly
<1> DEFINE ended == \E i \in DOMAIN upload : upload[i].type = "playbook_run_completed"
           T == told(Range(upload), "playbook_run_completed", Nil)
<1> SUFFICES ASSUME kind = "sat"
             PROVE  /\ ended => checkSatStatusPartial(upload) = inferSatPlaybookStatus(upload)
                    /\ ~ended => checkSatStatusPartial(upload) = "running"
  BY Zenon DEF PartialNeverEarly
<1>1. SatUpload(upload)
  BY DEF EventsTypeOK
<1>2. \A i \in DOMAIN upload : upload[i].type = "playbook_run_completed" => upload[i].host = Nil
  <2>1. \A i \in DOMAIN upload : upload[i] \in MCSatEvent
    BY <1>1, SatSortable
  <2> QED BY <2>1, SatEventFields
<1>3. ended <=> T # {}
  BY <1>2 DEF told, Range
<1>4. /\ checkSatStatusPartial(upload) = partialVerdict(Range(upload))
      /\ inferSatPlaybookStatus(upload) = fullVerdict(Range(upload))
  BY <1>1, PartialIs, FullIs
<1>5. /\ T # {} => fullVerdict(Range(upload)) = partialVerdict(Range(upload))
      /\ T = {} => partialVerdict(Range(upload)) = "running"
  BY DEF fullVerdict, partialVerdict
<1> HIDE DEF ended, T
<1> QED BY <1>3, <1>4, <1>5

-----------------------------------------------------------------------------
(* Runner uploads *)

\* What finishes a run for a host, and what fails it.
concerns(e, h) == h = Nil \/ e.host = Nil \/ e.host = h
ending(events, h) ==
    \E i \in DOMAIN events :
        \/ events[i].event = "playbook_on_stats"
        \/ concerns(events[i], h) /\ events[i].event = "executor_on_failed"
failing(events, h) ==
    \E i \in DOMAIN events :
        /\ concerns(events[i], h)
        /\ events[i].event \in {"runner_on_failed", "executor_on_failed"}

LEMMA RunnerIs ==
    ASSUME NEW events, NEW h
    PROVE  inferStatus(events, h) =
             IF ~ending(events, h) THEN "running"
             ELSE IF failing(events, h) THEN "failure" ELSE "success"
<1> DEFINE about == {i \in DOMAIN events : h = Nil \/ events[i].host \in {Nil, h}}
           finished == \/ \E i \in DOMAIN events : events[i].event = "playbook_on_stats"
                       \/ \E i \in about : events[i].event = "executor_on_failed"
           failed == \E i \in about :
                        events[i].event \in {"runner_on_failed", "executor_on_failed"}
<1>1. inferStatus(events, h) =
        IF ~finished THEN "running" ELSE IF failed THEN "failure" ELSE "success"
  BY Zenon DEF inferStatus
<1>2. about = {i \in DOMAIN events : concerns(events[i], h)}
  BY DEF concerns
<1>3. finished <=> ending(events, h)
  BY <1>2 DEF ending
<1>4. failed <=> failing(events, h)
  BY <1>2 DEF failing
<1> HIDE DEF finished, failed
<1> QED BY <1>1, <1>3, <1>4

\* Some host is there, and every event concerns one that the upload names, or
\* all of them.
LEMMA RunnerHostsNamed ==
    ASSUME NEW events
    PROVE  /\ \E h \in runnerHosts(events) : h # Nil
           /\ \A h \in runnerHosts(events) : h # Nil
           /\ \A i \in DOMAIN events : \E h \in runnerHosts(events) : concerns(events[i], h)
<1>1. LocalHost # Nil
  BY HostAssumption
<1>2. CASE GetAnsibleHosts(events) = {}
  <2>1. runnerHosts(events) = {LocalHost}
    BY <1>2 DEF runnerHosts
  <2>2. \A i \in DOMAIN events : events[i].host = Nil
    BY <1>2 DEF GetAnsibleHosts
  <2> QED BY <1>1, <2>1, <2>2 DEF concerns
<1>3. CASE GetAnsibleHosts(events) # {}
  <2>1. runnerHosts(events) = GetAnsibleHosts(events)
    BY <1>3 DEF runnerHosts
  <2>2. \A h \in GetAnsibleHosts(events) : h # Nil
    BY DEF GetAnsibleHosts
  <2>3. ASSUME NEW i \in DOMAIN events
        PROVE  \E h \in GetAnsibleHosts(events) : concerns(events[i], h)
    <3>1. CASE events[i].host = Nil
      BY <1>3, <3>1 DEF concerns
    <3>2. CASE events[i].host # Nil
      <4>1. events[i].host \in GetAnsibleHosts(events)
        BY <3>2 DEF GetAnsibleHosts
      <4> QED BY <4>1 DEF concerns
    <3> QED BY <3>1, <3>2
  <2> QED BY <1>3, <2>1, <2>2, <2>3
<1> QED BY <1>2, <1>3

LEMMA RunnerAgrees ==
    RunnerVerdictAgrees
<1> DEFINE H == runnerHosts(upload)
<1>1. /\ \E h \in H : h # Nil
      /\ \A h \in H : h # Nil
      /\ \A i \in DOMAIN upload : \E h \in H : concerns(upload[i], h)
  BY RunnerHostsNamed
<1> HIDE DEF H
<1>2. ending(upload, Nil) <=> \E h \in H : ending(upload, h)
  BY <1>1 DEF ending, concerns
<1>3. ending(upload, Nil) /\ failing(upload, Nil)
        <=> \E h \in H : ending(upload, h) /\ failing(upload, h)
  <2>1. ASSUME NEW h \in H, ending(upload, h), failing(upload, h)
        PROVE  ending(upload, Nil) /\ failing(upload, Nil)
    BY <2>1 DEF ending, failing, concerns
  <2>2. ASSUME ending(upload, Nil), failing(upload, Nil)
        PROVE  \E h \in H : ending(upload, h) /\ failing(upload, h)
    <3>1. CASE \E i \in DOMAIN upload : upload[i].event = "executor_on_failed"
      <4>1. PICK i \in DOMAIN upload : upload[i].event = "executor_on_failed"
        BY <3>1
      <4>2. PICK h \in H : concerns(upload[i], h)
        BY <1>1
      <4>3. ending(upload, h) /\ failing(upload, h)
        BY <4>1, <4>2 DEF ending, failing
      <4> QED BY <4>3
    <3>2. CASE \A i \in DOMAIN upload : upload[i].event # "executor_on_failed"
      <4>1. PICK i \in DOMAIN upload : upload[i].event = "playbook_on_stats"
        BY <2>2, <3>2 DEF ending
      <4>2. PICK j \in DOMAIN upload :
               upload[j].event \in {"runner_on_failed", "executor_on_failed"}
        BY <2>2 DEF failing
      <4>3. PICK h \in H : concerns(upload[j], h)
        BY <1>1
      <4>4. ending(upload, h) /\ failing(upload, h)
        BY <4>1, <4>2, <4>3 DEF ending, failing
      <4> QED BY <4>4
    <3> QED BY <3>1, <3>2
  <2> QED BY <2>1, <2>2
<1>4. \A h : inferStatus(upload, h) =
               IF ~ending(upload, h) THEN "running"
               ELSE IF failing(upload, h) THEN "failure" ELSE "success"
  BY RunnerIs
<1>5. inferStatus(upload, Nil) = "running" <=> \A h \in H : inferStatus(upload, h) = "running"
  BY <1>2, <1>4
<1>6. inferStatus(upload, Nil) = "failure" <=> \E h \in H : inferStatus(upload, h) = "failure"
  BY <1>3, <1>4
<1> QED BY <1>5, <1>6, Zenon DEF RunnerVerdictAgrees, H

\* An event more finishes and fails no less.
LEMMA RunnerGrows ==
    ASSUME NEW S, NEW events \in Seq(S), NEW e \in S, NEW h
    PROVE  /\ inferStatus(events, h) \in Complete => inferStatus(Append(events, e), h) \in Complete
           /\ inferStatus(events, h) = "failure" => inferStatus(Append(events, e), h) = "failure"
<1> DEFINE more == Append(events, e)
<1>1. \A i \in DOMAIN events : i \in DOMAIN more /\ more[i] = events[i]
  OBVIOUS
<1> HIDE DEF more
<1>2. ending(events, h) => ending(more, h)
  BY <1>1 DEF ending
<1>3. failing(events, h) => failing(more, h)
  BY <1>1 DEF failing
<1>4. /\ inferStatus(events, h) =
             IF ~ending(events, h) THEN "running"
             ELSE IF failing(events, h) THEN "failure" ELSE "success"
      /\ inferStatus(more, h) =
             IF ~ending(more, h) THEN "running"
             ELSE IF failing(more, h) THEN "failure" ELSE "success"
  BY RunnerIs
<1>5. /\ inferStatus(events, h) \in Complete => inferStatus(more, h) \in Complete
      /\ inferStatus(events, h) = "failure" => inferStatus(more, h) = "failure"
  BY <1>2, <1>3, <1>4 DEF Complete
<1> QED BY <1>5 DEF more

-----------------------------------------------------------------------------
(* The specification *)

ArchivesInv == EventsTypeOK /\ PayloadTypeOK

ArchivesInit == (Init /\ PayloadAtRest) \/ (PayloadInit /\ EventsAtRest)
ArchivesNext == (Next /\ UNCHANGED payloadVars) \/ (Grow /\ UNCHANGED vars)

\* The lines the instance of a runner and of a Satellite writes are lines.
LEMMA LinesTyped ==
    MCLine \subseteq Line /\ noEvent("bad") \in Line
<1>1. noEvent("blank") \in Line /\ noEvent("bad") \in Line
  BY DEF noEvent, event, Line
<1>2. RunnerLine \subseteq Line
  BY DEF RunnerLine, event, Line
<1>3. SatLine \subseteq Line
  BY DEF SatLine, event, Line
<1> QED BY <1>1, <1>2, <1>3 DEF MCLine

LEMMA InitArchives ==
    ASSUME ArchivesInit
    PROVE  ArchivesInv
<1>1. CASE Init /\ PayloadAtRest
  <2>1. upload = <<>> /\ kind \in {"runner", "sat"}
    BY <1>1 DEF Init
  <2>2. EventsTypeOK
    BY <2>1 DEF EventsTypeOK, SatUpload
  <2>3. lines \in Seq(Line)
    BY <1>1, LinesTyped, LinesAssumption DEF PayloadAtRest
  <2> QED BY <1>1, <2>2, <2>3 DEF ArchivesInv, PayloadTypeOK, PayloadAtRest, Playbook
<1>2. CASE PayloadInit /\ EventsAtRest
  <2>1. EventsTypeOK
    BY <1>2 DEF EventsAtRest, EventsTypeOK
  <2>2. PICK l \in MCLine : lines = <<l>>
    BY <1>2 DEF PayloadInit
  <2>3. l \in Line
    BY <2>2, LinesTyped
  <2>4. lines \in Seq(Line)
    BY <2>2, <2>3
  <2> QED BY <1>2, <2>1, <2>4 DEF ArchivesInv, PayloadTypeOK, PayloadInit
<1> QED BY <1>1, <1>2 DEF ArchivesInit

\* A fresh event keeps the events of a host apart.
LEMMA FreshUpload ==
    ASSUME SatUpload(upload), NEW e \in MCSatEvent, Fresh(e)
    PROVE  SatUpload(Append(upload, e))
<1> DEFINE m == Append(upload, e)
           n == Len(upload)
<1>1. /\ upload \in Seq(MCSatEvent) /\ n \in Nat /\ DOMAIN upload = 1..n
      /\ m \in Seq(MCSatEvent) /\ DOMAIN m = 1..(n + 1) /\ m[n + 1] = e
      /\ \A i \in 1..n : m[i] = upload[i]
  BY DEF SatUpload
<1> HIDE DEF m, n
<1>2. \A i \in 1..n : \/ m[i].host # m[n + 1].host
                      \/ m[i].type # m[n + 1].type
                      \/ m[i].sequence # m[n + 1].sequence
  BY <1>1 DEF Fresh
<1>3. \A i, j \in 1..n : i # j => \/ m[i].host # m[j].host
                                  \/ m[i].type # m[j].type
                                  \/ m[i].sequence # m[j].sequence
  BY <1>1 DEF SatUpload
<1>4. \A i \in 1..(n + 1) : i \in 1..n \/ i = n + 1
  BY <1>1
<1>5. \A i, j \in DOMAIN m : i # j => \/ m[i].host # m[j].host
                                      \/ m[i].type # m[j].type
                                      \/ m[i].sequence # m[j].sequence
  BY <1>1, <1>2, <1>3, <1>4
<1> QED BY <1>1, <1>5 DEF SatUpload, m

LEMMA NextArchives ==
    ASSUME ArchivesInv, [ArchivesNext]_<<vars, payloadVars>>
    PROVE  ArchivesInv'
<1> USE DEF ArchivesInv
<1>1. CASE RunnerReports /\ UNCHANGED payloadVars
  <2>1. PayloadTypeOK'
    BY <1>1 DEF payloadVars, PayloadTypeOK
  <2>2. PICK e \in MCRunnerEvent : upload' = Append(upload, e)
    BY <1>1 DEF RunnerReports
  <2>3. kind = "runner" /\ kind' = "runner" /\ upload \in Seq(MCRunnerEvent)
    BY <1>1 DEF RunnerReports, EventsTypeOK
  <2>4. upload' \in Seq(MCRunnerEvent)
    BY <2>2, <2>3
  <2> QED BY <2>1, <2>3, <2>4 DEF EventsTypeOK
<1>2. CASE SatelliteReports /\ UNCHANGED payloadVars
  <2>1. PayloadTypeOK'
    BY <1>2 DEF payloadVars, PayloadTypeOK
  <2>2. PICK e \in MCSatEvent : Fresh(e) /\ upload' = Append(upload, e)
    BY <1>2 DEF SatelliteReports
  <2>3. kind = "sat" /\ kind' = "sat" /\ SatUpload(upload)
    BY <1>2 DEF SatelliteReports, EventsTypeOK
  <2>4. SatUpload(Append(upload, e))
    BY <2>2, <2>3, FreshUpload
  <2>5. SatUpload(upload')
    BY <2>2, <2>4
  <2>6. EventsTypeOK'
    BY <2>3, <2>5 DEF EventsTypeOK
  <2> QED BY <2>1, <2>6
<1>3. CASE Grow /\ UNCHANGED vars
  <2>1. EventsTypeOK'
    BY <1>3 DEF vars, EventsTypeOK
  <2>2. PICK l \in MCLine : lines' = Append(lines, l)
    BY <1>3 DEF Grow
  <2>3. l \in Line
    BY <2>2, LinesTyped
  <2>4. lines' \in Seq(Line)
    BY <2>2, <2>3 DEF PayloadTypeOK
  <2> QED BY <1>3, <2>1, <2>4 DEF PayloadTypeOK, Grow
<1>4. CASE UNCHANGED <<vars, payloadVars>>
  BY <1>4 DEF vars, payloadVars, EventsTypeOK, PayloadTypeOK
<1> QED BY <1>1, <1>2, <1>3, <1>4 DEF ArchivesNext, Next

LEMMA ArchivesInvariant ==
    ArchivesSpec => []ArchivesInv
<1>1. ArchivesSpec <=> ArchivesInit /\ [][ArchivesNext]_<<vars, payloadVars>>
  BY DEF ArchivesSpec, ArchivesInit, ArchivesNext
<1> QED BY <1>1, InitArchives, NextArchives, PTL

\* The verdicts on a run and on its hosts agree and do not depend on the order
\* of the upload: inferStatus, inferSatPlaybookStatus, checkSatStatusPartial and
\* inferSatHostStatus over SortSatEvents, for uploads of any length.
THEOREM VerdictsAlwaysAgree ==
    ArchivesSpec => []VerdictsAgree
<1>1. ArchivesInv => VerdictsAgree
  BY RunnerAgrees, SatAgrees, OrderIrrelevant DEF ArchivesInv, VerdictsAgree
<1> QED BY <1>1, ArchivesInvariant, PTL

\* With partial responses only the completed event ends a run, with the verdict
\* a full response would give (checkSatStatusPartial, inferSatPlaybookStatus).
THEOREM PartialIsNeverEarly ==
    ArchivesSpec => []PartialNeverEarly
<1>1. ArchivesInv => PartialNeverEarly
  BY NeverEarly DEF ArchivesInv
<1> QED BY <1>1, ArchivesInvariant, PTL

\* Truncation costs output only, never the summary of a play, and leaves a
\* bounded archive, for every limit and length (validateContent).
THEOREM TruncationIsSound ==
    ArchivesSpec => []TruncationSound
<1>1. ArchivesInv => TruncationSound
  BY OnlyText, KeepsSummary, BoundedText DEF ArchivesInv, TruncationSound
<1> QED BY <1>1, ArchivesInvariant, PTL

\* A longer version of an upload takes back neither a final verdict
\* (inferStatus) nor the run the upload is tied to (GetCorrelationId).
THEOREM GrowthIsHarmless ==
    ArchivesSpec => GrowthHarmless
<1> DEFINE final == \A h \in Host \cup {Nil} :
              /\ inferStatus(upload, h) \in Complete => inferStatus(upload', h) \in Complete
              /\ inferStatus(upload, h) = "failure" => inferStatus(upload', h) = "failure"
           id == GetCorrelationId(service, content.events)
           more == validateContent(service, big, lines')
           tied == (accepted /\ id # "bad" /\ more.outcome = "ok") =>
                      GetCorrelationId(service, more.events) = id
<1>1. ASSUME ArchivesInv, [ArchivesNext]_<<vars, payloadVars>>
      PROVE  [kind = "runner" => final]_vars
  <2> SUFFICES ASSUME kind = "runner", ~UNCHANGED vars PROVE final
    OBVIOUS
  <2>1. RunnerReports
    BY <1>1 DEF ArchivesNext, Next, SatelliteReports, vars
  <2>2. PICK e \in MCRunnerEvent : upload' = Append(upload, e)
    BY <2>1 DEF RunnerReports
  <2>3. upload \in Seq(MCRunnerEvent)
    BY <1>1 DEF ArchivesInv, EventsTypeOK
  <2> QED BY <2>2, <2>3, RunnerGrows
<1>2. ASSUME ArchivesInv, [ArchivesNext]_<<vars, payloadVars>>
      PROVE  [tied]_payloadVars
  <2> SUFFICES ASSUME ~UNCHANGED payloadVars, accepted, id # "bad", more.outcome = "ok"
               PROVE  GetCorrelationId(service, more.events) = id
    BY Zenon
  <2>1. Grow
    BY <1>2 DEF ArchivesNext, payloadVars
  <2>2. PICK l \in MCLine : lines' = Append(lines, l)
    BY <2>1 DEF Grow
  <2>3. l \in Line /\ big \in BOOLEAN /\ lines \in Seq(Line)
    BY <1>2, <2>2, LinesTyped DEF ArchivesInv, PayloadTypeOK
  <2> QED BY <2>2, <2>3, FirstCarrierStays DEF accepted, content
<1>3. ArchivesSpec => [][ArchivesNext]_<<vars, payloadVars>>
  BY DEF ArchivesSpec, ArchivesNext
<1>4. ArchivesSpec => RunnerVerdictFinal
  BY <1>1, <1>3, ArchivesInvariant, PTL DEF RunnerVerdictFinal
<1>5. ArchivesSpec => TiedForGood
  BY <1>2, <1>3, ArchivesInvariant, PTL DEF TiedForGood
<1> QED BY <1>4, <1>5 DEF GrowthHarmless
=============================================================================
