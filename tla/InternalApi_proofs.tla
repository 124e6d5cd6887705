------------------------- MODULE InternalApi_proofs --------------------------
(***************************************************************************)
(* Proofs about the internal API: lists of runs to create or to cancel, of *)
(* any length; the life of an API process, for any set of requests; and    *)
(* the connection status of hosts, for any inventory and any replies.      *)
(***************************************************************************)
EXTENDS MCInternalApi, FiniteSetTheorems, WellFoundedInduction, TLAPS

-----------------------------------------------------------------------------
(* Lists of runs *)

\* What a cancel request needs to be passed on.
Justified(i) ==
    LET r == request.items[i].run
    IN  /\ r \in open
        /\ RunRows[r].satellite /\ RunRows[r].org = request.items[i].org

\* Where an item is says what has happened to it: before the message, after a
\* message that was delivered, and with an answer.
Before(i) ==
    at[i] \in {"start", "wait", "send"} =>
        /\ result[i] = 0
        /\ i \notin recorded /\ i \notin delivered
        /\ request.op # "status" => i \notin sent

Between(i) ==
    at[i] = "record" => i \in delivered /\ i \notin recorded /\ result[i] = 0

After(i) ==
    at[i] = "answered" =>
        /\ result[i] # 0
        /\ result[i] = 201 <=> i \in recorded
        /\ result[i] \in {201, 202} => i \in delivered
        /\ result[i] \in {400, 404, 409} => i \notin delivered

Asked(i) ==
    request.op = "status" => at[i] \in {"start", "answered"} /\ (at[i] = "answered" => result[i] = 200)

Canceled(i) ==
    request.op = "cancel" /\ (at[i] \in {"wait", "send"} \/ i \in sent) => Justified(i)

ItemOK(i) == Before(i) /\ Between(i) /\ After(i) /\ Asked(i) /\ Canceled(i)

\* The request as a whole.
WholeOK ==
    /\ request \in Requests
    /\ phase # "dead"
    /\ phase = "new" => sent = {} /\ delivered = {} /\ recorded = {} /\ \A i \in items : at[i] = "start"
    /\ phase = "running" /\ request.op = "create_v2" =>
          \A i \in items : validateSatelliteFields(request.items[i])
    /\ phase = "done" =>
          /\ code \in {400, 401, 403} => sent = {} /\ recorded = {}
          /\ code \in {200, 207} => \A i \in items : at[i] = "answered"
          /\ code = 200 => request.op = "status"
    /\ {r \in DOMAIN RunRows : status[r] = "running"} \subseteq open

IInv == TypeOK /\ WholeOK /\ \A i \in items : ItemOK(i)

\* Items that have taken a token of the limiter.
Ticket == sent \cup {i \in items : at[i] = "send"}

-----------------------------------------------------------------------------

LEMMA ItemsFinite ==
    ASSUME request \in Requests
    PROVE  items \subseteq Nat /\ IsFiniteSet(items)
<1>1. request.items \in inputs(request.op)
  BY RequestsAssumption
<1>2. PICK S : request.items \in Seq(S)
  BY <1>1, RequestsAssumption DEF inputs
<1>3. items = 1..Len(request.items) /\ Len(request.items) \in Nat
  BY <1>2 DEF items
<1> QED BY <1>3, FS_Interval

LEMMA Codes ==
    /\ \A e : errorCode(e) \in RunCreated \cup RunCanceled
    /\ \A e : errorCode(e) \notin {0, 201, 202}
    /\ errorCode("error") = 500
    /\ errorCode("canceled") = 500
  BY DEF errorCode, handleRunCancelError, handleRunCreateError, RunCreated, RunCanceled

LEMMA InitIInv == Init => IInv
<1> SUFFICES ASSUME Init PROVE IInv
  OBVIOUS
<1>1. TypeOK
  <2>1. at \in [items -> {"start"}] /\ result \in [items -> {0}]
    BY DEF Init
  <2>2. /\ at \in [items -> {"start", "wait", "send", "record", "answered"}]
        /\ result \in [items -> {0, 200} \cup RunCreated \cup RunCanceled]
    BY <2>1
  <2>3. tokens \in 0..Bucket
    BY DEF Init
  <2> QED BY <2>2, <2>3 DEF Init, TypeOK
<1>2. WholeOK
  BY DEF Init, WholeOK
<1>3. \A i \in items : ItemOK(i)
  BY DEF Init, ItemOK, Before, Between, After, Asked, Canceled
<1> QED BY <1>1, <1>2, <1>3 DEF IInv

-----------------------------------------------------------------------------

\* What no step does to an item that it is not about.
Same(j) ==
    /\ at'[j] = at[j] /\ result'[j] = result[j]
    /\ j \in sent' <=> j \in sent
    /\ j \in delivered' <=> j \in delivered
    /\ j \in recorded' <=> j \in recorded

LEMMA OthersKeep ==
    ASSUME NEW j \in items, ItemOK(j), Same(j), request' = request, open \subseteq open'
    PROVE  ItemOK(j)'
<1> USE DEF Same
<1>1. Justified(j) => Justified(j)'
  BY DEF Justified
<1>2. Before(j)' /\ Between(j)' /\ After(j)' /\ Asked(j)'
  BY DEF ItemOK, Before, Between, After, Asked
<1>3. Canceled(j)'
  BY <1>1 DEF ItemOK, Canceled
<1> QED BY <1>2, <1>3 DEF ItemOK

-----------------------------------------------------------------------------
(* The steps of the request as a whole                                     *)

LEMMA WholeKeeps ==
    ASSUME IInv, Whole
    PROVE  IInv'
<1> USE DEF IInv
<1>1. request' = request /\ items' = items
  BY DEF Whole, CheckPskAuth, RejectBatch, StartBatch, AnswerBatch, answer, items
<1>2. UNCHANGED <<result, sent, delivered, recorded, tokens, refills, run>>
  BY DEF Whole, CheckPskAuth, RejectBatch, StartBatch, AnswerBatch, answer
<1>3. open' = open /\ status' = status
  BY <1>2 DEF run
<1>4. at' = at \/ (phase = "new" /\ at' = [i \in items |-> "start"])
  BY DEF Whole, CheckPskAuth, RejectBatch, StartBatch, AnswerBatch, answer
<1>5. \A i \in items : at'[i] = at[i]
  BY <1>4 DEF WholeOK
<1>6. phase' \in {"running", "done"}
        /\ (phase' = "done" => code' \in {200, 207, 400, 401, 403})
        /\ (phase' = "running" => code' = code)
  BY ZenonT(40) DEF Whole, CheckPskAuth, RejectBatch, StartBatch, AnswerBatch, answer
<1>7. TypeOK'
  BY <1>1, <1>2, <1>4, <1>6 DEF TypeOK
<1>8. \A i \in items : ItemOK(i)'
  <2> TAKE i \in items
  <2>1. Same(i)
    BY <1>2, <1>5 DEF Same
  <2> QED BY <2>1, <1>1, <1>3, OthersKeep
<1>9. WholeOK'
  <2>1. CASE CheckPskAuth
    <3>1. phase = "new" /\ phase' = "done" /\ code' \in {401, 403}
      BY <2>1 DEF CheckPskAuth, answer
    <3> QED BY <3>1, <1>1, <1>2, <1>3, <1>5 DEF WholeOK
  <2>2. CASE RejectBatch
    BY <2>2, <1>1, <1>2, <1>3, <1>5 DEF RejectBatch, answer, WholeOK
  <2>3. CASE StartBatch
    BY <2>3, <1>1, <1>2, <1>3, <1>5 DEF StartBatch, WholeOK, validateSatelliteFields
  <2>4. CASE AnswerBatch
    BY <2>4, <1>1, <1>2, <1>3, <1>5 DEF AnswerBatch, answer, WholeOK
  <2> QED BY <2>1, <2>2, <2>3, <2>4 DEF Whole
<1> QED BY <1>1, <1>7, <1>8, <1>9

\* A step of the limiter, or of the runs' own lives.
LEMMA WorldKeeps ==
    ASSUME IInv, Refill \/ RunsChange \/ UNCHANGED vars
    PROVE  IInv'
<1> USE DEF IInv
<1>1. request' = request /\ items' = items
  BY DEF Refill, RunsChange, vars, whole, items
<1>2. UNCHANGED <<phase, code, at, result, sent, delivered, recorded>>
  BY DEF Refill, RunsChange, vars, whole
<1>3. open \subseteq open' /\ {r \in DOMAIN RunRows : status'[r] = "running"} \subseteq open'
  BY DEF Refill, RunsChange, vars, run, WholeOK
<1>4. tokens' \in 0..Bucket
  BY BucketAssumption DEF Refill, RunsChange, vars, TypeOK
<1>5. TypeOK'
  BY <1>1, <1>2, <1>4 DEF TypeOK
<1>6. WholeOK'
  BY <1>1, <1>2, <1>3 DEF WholeOK, validateSatelliteFields
<1>7. \A i \in items : ItemOK(i)'
  <2> TAKE i \in items
  <2>1. Same(i)
    BY <1>2 DEF Same
  <2> QED BY <2>1, <1>1, <1>3, OthersKeep
<1> QED BY <1>1, <1>5, <1>6, <1>7

-----------------------------------------------------------------------------
(* The steps of an item                                                    *)

\* What the steps of the goroutine of item i leave alone.
Frame(i) ==
    /\ phase = "running" /\ request' = request /\ items' = items
    /\ open' = open /\ status' = status
    /\ \A j \in items : j # i => Same(j)

\* A step within the frame of item i keeps the invariant if it keeps the types
\* and what is said of i itself, and does not end the process.
LEMMA ItemStep ==
    ASSUME IInv, NEW i \in items, Frame(i), TypeOK', ItemOK(i)', phase' = "running"
    PROVE  IInv'
<1> USE DEF IInv, Frame
<1>1. \A j \in items : ItemOK(j)'
  <2> TAKE j \in items
  <2> QED BY OthersKeep
<1>2. WholeOK'
  BY DEF WholeOK, validateSatelliteFields
<1> QED BY <1>1, <1>2

\* An item on its way to its message: the next place, or an answer that stands
\* for no delivery.
OnlyPlace(i) ==
    /\ UNCHANGED <<sent, delivered, recorded>>
    /\ \/ at' = [at EXCEPT ![i] = "wait"] /\ result' = result
       \/ /\ at' = [at EXCEPT ![i] = "answered"]
          /\ \E e : result' = [result EXCEPT ![i] = errorCode(e)]

LEMMA PlaceStep ==
    ASSUME IInv, NEW i \in items, OnlyPlace(i), request' = request, items' = items,
           UNCHANGED <<phase, code, tokens, run>>, phase = "running",
           request.op # "status", at[i] \in {"start", "wait"},
           request.op = "cancel" /\ at'[i] = "wait" => Justified(i)
    PROVE  IInv'
<1> USE DEF IInv, OnlyPlace
<1>1. open' = open /\ status' = status
  BY DEF run
<1>2. at' \in [items -> {"start", "wait", "send", "record", "answered"}]
        /\ result' \in [items -> {0, 200} \cup RunCreated \cup RunCanceled]
        /\ \A j \in items : j # i => at'[j] = at[j] /\ result'[j] = result[j]
  BY Codes DEF TypeOK
<1>3. TypeOK'
  BY <1>2 DEF TypeOK
<1>4. Frame(i)
  BY <1>1, <1>2 DEF Frame, Same
<1>5. Before(i) /\ Asked(i) /\ Canceled(i)
  BY DEF ItemOK
<1>6. result[i] = 0 /\ i \notin recorded /\ i \notin delivered /\ i \notin sent
  BY <1>5 DEF Before
<1>7. Justified(i) => Justified(i)'
  BY <1>1 DEF Justified
<1>8. CASE at' = [at EXCEPT ![i] = "wait"] /\ result' = result
  <2>1. at'[i] = "wait" /\ result'[i] = 0
    BY <1>8, <1>6 DEF TypeOK
  <2>2. ItemOK(i)'
    BY <2>1, <1>6, <1>7 DEF ItemOK, Before, Between, After, Asked, Canceled
  <2> QED BY <2>2, <1>3, <1>4, ItemStep
<1>9. CASE /\ at' = [at EXCEPT ![i] = "answered"]
           /\ \E e : result' = [result EXCEPT ![i] = errorCode(e)]
  <2>1. PICK e : result' = [result EXCEPT ![i] = errorCode(e)]
    BY <1>9
  <2>2. at'[i] = "answered" /\ result'[i] = errorCode(e)
    BY <1>9, <2>1 DEF TypeOK
  <2>3. result'[i] \notin {0, 201, 202}
    BY <2>2, Codes
  <2>4. ItemOK(i)'
    BY <2>2, <2>3, <1>6 DEF ItemOK, Before, Between, After, Asked, Canceled
  <2> QED BY <2>4, <1>3, <1>4, ItemStep
<1> QED BY <1>8, <1>9

LEMMA TranslateKeeps ==
    ASSUME IInv, NEW i \in items, phase = "running", TranslateV1(i)
    PROVE  IInv'
<1>1. /\ request.op = "create_v1" /\ at[i] = "start"
      /\ request' = request /\ items' = items
      /\ UNCHANGED <<phase, code, tokens, run>>
  BY DEF TranslateV1, whole, items
<1>2. OnlyPlace(i)
  BY DEF TranslateV1, finish, goto, OnlyPlace
<1> QED BY <1>1, <1>2, PlaceStep

\* The request was validated as a whole, so nothing that is not there is
\* dereferenced.
LEMMA PrepareKeeps ==
    ASSUME IInv, NEW i \in items, phase = "running", PrepareV2(i)
    PROVE  IInv'
<1>1. /\ request.op = "create_v2" /\ at[i] = "start"
      /\ request' = request /\ items' = items
  BY DEF PrepareV2, items
<1>2. validateSatelliteFields(request.items[i])
  BY <1>1 DEF IInv, WholeOK
<1>3. ~buildPanics(RunInputV2GenericMap(request.items[i]))
  BY <1>2 DEF buildPanics, RunInputV2GenericMap, getProtocol, validateSatelliteFields
<1>4. UNCHANGED <<phase, code, tokens, run>>
  BY <1>3 DEF PrepareV2
<1>5. OnlyPlace(i)
  BY <1>3 DEF PrepareV2, finish, goto, OnlyPlace
<1> QED BY <1>1, <1>4, <1>5, PlaceStep

LEMMA ReadRunKeeps ==
    ASSUME IInv, NEW i \in items, phase = "running", ReadRun(i)
    PROVE  IInv'
<1>1. /\ request.op = "cancel" /\ at[i] = "start"
      /\ request' = request /\ items' = items
      /\ UNCHANGED <<phase, code, tokens, run>>
  BY DEF ReadRun, whole, items
<1>2. OnlyPlace(i)
  BY DEF ReadRun, finish, goto, OnlyPlace
<1>3. cancelError(request.items[i]) = "none" => Justified(i)
  BY DEF cancelError, Justified, IInv, WholeOK
<1>4. at'[i] = "wait" => cancelError(request.items[i]) = "none"
  BY DEF ReadRun, finish, goto, IInv, TypeOK
<1> QED BY <1>1, <1>2, <1>3, <1>4, PlaceStep

LEMMA WaitKeeps ==
    ASSUME IInv, NEW i \in items, phase = "running", Wait(i)
    PROVE  IInv'
<1>1. /\ at[i] = "wait" /\ phase' = "running" /\ code' = code
      /\ request' = request /\ items' = items
      /\ open' = open /\ status' = status
      /\ UNCHANGED <<sent, delivered, recorded>>
  BY DEF Wait, whole, items, run
<1>2. TypeOK
  BY DEF IInv
<1>3. Before(i) /\ Asked(i) /\ Canceled(i)
  BY DEF IInv, ItemOK
<1>4. request.op # "status"
  BY <1>1, <1>3 DEF Asked
<1>5. result[i] = 0 /\ i \notin recorded /\ i \notin delivered /\ i \notin sent
  BY <1>1, <1>3, <1>4 DEF Before
<1>6. Canceled(i) => (request.op = "cancel" => Justified(i)')
  BY <1>1 DEF Canceled, Justified
<1>7. CASE tokens > 0 /\ tokens' = tokens - 1 /\ goto(i, "send")
  <2>1. at' = [at EXCEPT ![i] = "send"] /\ result' = result
    BY <1>7 DEF goto
  <2>2. tokens' \in 0..Bucket
    BY <1>2, <1>7, BucketAssumption DEF TypeOK
  <2>3. TypeOK'
    BY <1>1, <1>2, <2>1, <2>2 DEF TypeOK
  <2>4. Frame(i) /\ at'[i] = "send"
    BY <1>1, <1>2, <2>1 DEF Frame, Same, TypeOK
  <2>5. ItemOK(i)'
    BY <1>1, <1>3, <1>4, <1>5, <1>6, <2>1, <2>4 DEF ItemOK, Before, Between, After, Asked, Canceled
  <2> QED BY <1>1, <2>3, <2>4, <2>5, ItemStep
<1>8. CASE finish(i, errorCode("canceled")) /\ UNCHANGED tokens
  <2>1. at' = [at EXCEPT ![i] = "answered"] /\ result' = [result EXCEPT ![i] = 500]
    BY <1>8, Codes DEF finish
  <2>2. TypeOK'
    BY <1>1, <1>2, <1>8, <2>1 DEF TypeOK, RunCreated
  <2>3. Frame(i) /\ at'[i] = "answered" /\ result'[i] = 500
    BY <1>1, <1>2, <2>1 DEF Frame, Same, TypeOK
  <2>4. ItemOK(i)'
    BY <1>1, <1>4, <1>5, <2>3 DEF ItemOK, Before, Between, After, Asked, Canceled
  <2> QED BY <1>1, <2>2, <2>3, <2>4, ItemStep
<1> QED BY <1>7, <1>8 DEF Wait

\* What the reply says of the delivery: accepted, or refused as unknown.
LEMMA Replies ==
    ASSUME NEW i, NEW rsp \in Reply, NEW d \in deliveries(i, rsp)
    PROVE  LET error == SendCloudConnectorRequest(rsp)
           IN  /\ error \in {"none", "error", "recipient_not_found"}
               /\ error = "none" => d = delivered \cup {i}
               /\ error = "recipient_not_found" => d = delivered
               /\ d = delivered \/ d = delivered \cup {i}
<1>1. rsp.status \in {0, 201, 404, 500}
  BY DEF Reply
<1>2. CASE rsp.status = 201
  BY <1>2 DEF SendCloudConnectorRequest, ParsePostV2ConnectionsClientIdMessageResponse, deliveries
<1>3. CASE rsp.status = 404
  BY <1>3 DEF SendCloudConnectorRequest, ParsePostV2ConnectionsClientIdMessageResponse, deliveries
<1>4. CASE rsp.status \in {0, 500}
  BY <1>4 DEF SendCloudConnectorRequest, ParsePostV2ConnectionsClientIdMessageResponse, deliveries
<1> QED BY <1>1, <1>2, <1>3, <1>4

LEMMA SendKeeps ==
    ASSUME IInv, NEW i \in items, phase = "running", Send(i)
    PROVE  IInv'
<1>1. /\ at[i] = "send" /\ phase' = "running" /\ code' = code
      /\ request' = request /\ items' = items
      /\ open' = open /\ status' = status
      /\ UNCHANGED <<recorded, tokens>> /\ sent' = sent \cup {i}
  BY DEF Send, whole, items, run
<1>2. TypeOK
  BY DEF IInv
<1>3. Before(i) /\ Asked(i) /\ Canceled(i)
  BY DEF IInv, ItemOK
<1>4. request.op # "status"
  BY <1>1, <1>3 DEF Asked
<1>5. result[i] = 0 /\ i \notin recorded /\ i \notin delivered /\ i \notin sent
  BY <1>1, <1>3, <1>4 DEF Before
<1>6. request.op = "cancel" => Justified(i)'
  BY <1>1, <1>3 DEF Canceled, Justified
<1>7. PICK rsp \in Reply :
        /\ delivered' \in deliveries(i, rsp)
        /\ IF SendCloudConnectorRequest(rsp) # "none"
           THEN finish(i, errorCode(SendCloudConnectorRequest(rsp)))
           ELSE IF request.op = "cancel" THEN finish(i, 202)
           ELSE goto(i, "record")
  BY DEF Send
<1> DEFINE error == SendCloudConnectorRequest(rsp)
<1>8. /\ error \in {"none", "error", "recipient_not_found"}
      /\ error = "none" => delivered' = delivered \cup {i}
      /\ error = "recipient_not_found" => delivered' = delivered
      /\ delivered' = delivered \/ delivered' = delivered \cup {i}
  BY <1>7, Replies
<1>9. \/ error = "recipient_not_found" /\ finish(i, errorCode("recipient_not_found"))
      \/ error = "error" /\ finish(i, 500)
      \/ error = "none" /\ finish(i, 202)
      \/ error = "none" /\ goto(i, "record")
  BY <1>7, <1>8, Codes
<1> HIDE DEF error
<1>10. delivered' \subseteq sent' /\ sent' \subseteq items
  BY <1>1, <1>2, <1>8 DEF TypeOK
<1>11. CASE \E c \in RunCreated \cup RunCanceled :
              /\ finish(i, c) /\ c \notin {0, 201}
              /\ c = 202 => i \in delivered'
              /\ c \in {400, 404, 409} => i \notin delivered'
  <2>1. PICK c \in RunCreated \cup RunCanceled :
              /\ finish(i, c) /\ c \notin {0, 201}
              /\ c = 202 => i \in delivered'
              /\ c \in {400, 404, 409} => i \notin delivered'
    BY <1>11
  <2>2. at' = [at EXCEPT ![i] = "answered"] /\ result' = [result EXCEPT ![i] = c]
    BY <2>1 DEF finish
  <2>3. at' \in [items -> {"start", "wait", "send", "record", "answered"}]
          /\ result' \in [items -> {0, 200} \cup RunCreated \cup RunCanceled]
          /\ at'[i] = "answered" /\ result'[i] = c
          /\ \A j \in items : j # i => at'[j] = at[j] /\ result'[j] = result[j]
    BY <1>2, <2>2 DEF TypeOK
  <2>4. TypeOK'
    BY <1>1, <1>2, <1>10, <2>3 DEF TypeOK
  <2>5. Frame(i)
    BY <1>1, <1>8, <2>3 DEF Frame, Same
  <2>6. ItemOK(i)'
    BY <1>1, <1>4, <1>5, <1>6, <2>1, <2>3 DEF ItemOK, Before, Between, After, Asked, Canceled
  <2> QED BY <1>1, <2>4, <2>5, <2>6, ItemStep
<1>12. CASE error = "none" /\ goto(i, "record")
  <2>1. at' = [at EXCEPT ![i] = "record"] /\ result' = result
    BY <1>12 DEF goto
  <2>2. TypeOK'
    BY <1>1, <1>2, <1>10, <2>1 DEF TypeOK
  <2>3. Frame(i) /\ at'[i] = "record" /\ i \in delivered'
    BY <1>1, <1>2, <1>8, <1>12, <2>1 DEF Frame, Same, TypeOK
  <2>4. ItemOK(i)'
    BY <1>1, <1>4, <1>5, <1>6, <2>1, <2>3 DEF ItemOK, Before, Between, After, Asked, Canceled
  <2> QED BY <1>1, <2>2, <2>3, <2>4, ItemStep
<1>13. CASE error = "recipient_not_found" /\ finish(i, errorCode("recipient_not_found"))
  BY <1>5, <1>8, <1>11, <1>13, Codes
<1>14. CASE error = "error" /\ finish(i, 500)
  BY <1>11, <1>14 DEF RunCreated
<1>15. CASE error = "none" /\ finish(i, 202)
  BY <1>8, <1>11, <1>15 DEF RunCanceled
<1> QED BY <1>9, <1>12, <1>13, <1>14, <1>15

LEMMA RecordKeeps ==
    ASSUME IInv, NEW i \in items, phase = "running", RecordRun(i)
    PROVE  IInv'
<1>1. /\ at[i] = "record" /\ phase' = "running" /\ code' = code
      /\ request' = request /\ items' = items
      /\ open' = open /\ status' = status
      /\ UNCHANGED <<sent, delivered, tokens>>
  BY DEF RecordRun, whole, items, run
<1>2. TypeOK
  BY DEF IInv
<1>3. Between(i) /\ Asked(i) /\ Canceled(i)
  BY DEF IInv, ItemOK
<1>4. i \in delivered /\ i \notin recorded /\ i \in sent /\ request.op # "status"
  BY <1>1, <1>2, <1>3 DEF Between, Asked, TypeOK
<1>5. PICK c \in {201, 500} :
        /\ at' = [at EXCEPT ![i] = "answered"] /\ result' = [result EXCEPT ![i] = c]
        /\ recorded' = IF c = 201 THEN recorded \cup {i} ELSE recorded
  BY Codes DEF RecordRun, finish
<1>6. at' \in [items -> {"start", "wait", "send", "record", "answered"}]
        /\ result' \in [items -> {0, 200} \cup RunCreated \cup RunCanceled]
        /\ at'[i] = "answered" /\ result'[i] = c
        /\ \A j \in items : j # i => at'[j] = at[j] /\ result'[j] = result[j]
  BY <1>2, <1>5 DEF TypeOK, RunCreated
<1>7. TypeOK'
  BY <1>1, <1>2, <1>5, <1>6 DEF TypeOK
<1>8. Frame(i)
  BY <1>1, <1>5, <1>6 DEF Frame, Same
<1>9. Justified(i) => Justified(i)'
  BY <1>1 DEF Justified
<1>10. ItemOK(i)'
  BY <1>1, <1>3, <1>4, <1>5, <1>6, <1>9 DEF ItemOK, Before, Between, After, Asked, Canceled
<1> QED BY <1>1, <1>7, <1>8, <1>10, ItemStep

\* A status request: an item answered, or the end of the request with an error.
LEMMA AskKeeps ==
    ASSUME IInv, NEW i \in items, AskStatus(i)
    PROVE  IInv'
<1>1. /\ phase = "running" /\ request.op = "status" /\ at[i] = "start"
      /\ request' = request /\ items' = items
      /\ open' = open /\ status' = status
      /\ UNCHANGED <<delivered, recorded>> /\ (sent' = sent \/ sent' = sent \cup {i})
  BY DEF AskStatus, items, run
<1>2. TypeOK /\ ItemOK(i)
  BY DEF IInv
<1>3. tokens' \in 0..Bucket
  BY <1>2, BucketAssumption DEF AskStatus, TypeOK
<1>4. CASE finish(i, 200) /\ UNCHANGED <<phase, code>>
  <2>1. at' = [at EXCEPT ![i] = "answered"] /\ result' = [result EXCEPT ![i] = 200]
    BY <1>4 DEF finish
  <2>2. at' \in [items -> {"start", "wait", "send", "record", "answered"}]
          /\ result' \in [items -> {0, 200} \cup RunCreated \cup RunCanceled]
          /\ at'[i] = "answered" /\ result'[i] = 200
          /\ \A j \in items : j # i => at'[j] = at[j] /\ result'[j] = result[j]
    BY <1>2, <2>1 DEF TypeOK
  <2>3. TypeOK'
    BY <1>1, <1>2, <1>3, <1>4, <2>2 DEF TypeOK
  <2>4. Frame(i)
    BY <1>1, <2>2 DEF Frame, Same
  <2>5. ItemOK(i)'
    BY <1>1, <1>2, <2>2 DEF ItemOK, Before, Between, After, Asked, Canceled
  <2> QED BY <1>1, <1>4, <2>3, <2>4, <2>5, ItemStep
<1>5. CASE phase' = "done" /\ code' = 500 /\ UNCHANGED <<at, result>>
  <2>1. TypeOK'
    BY <1>1, <1>2, <1>3, <1>5 DEF TypeOK
  <2>2. WholeOK'
    BY <1>1, <1>5 DEF IInv, WholeOK
  <2>3. \A j \in items : ItemOK(j)'
    BY <1>1, <1>5 DEF IInv, ItemOK, Before, Between, After, Asked, Canceled
  <2> QED BY <1>1, <2>1, <2>2, <2>3 DEF IInv
<1> QED BY <1>4, <1>5 DEF AskStatus

LEMMA NextIInv == IInv /\ [Next]_vars => IInv'
<1> SUFFICES ASSUME IInv, [Next]_vars PROVE IInv'
  OBVIOUS
<1>1. CASE Whole
  BY <1>1, WholeKeeps
<1>2. CASE Goroutines
  <2>1. PICK i \in items : Process(i) \/ AskStatus(i)
    BY <1>2 DEF Goroutines
  <2>2. CASE Process(i)
    BY <2>2, TranslateKeeps, PrepareKeeps, ReadRunKeeps, WaitKeeps, SendKeeps, RecordKeeps
    DEF Process
  <2> QED BY <2>1, <2>2, AskKeeps
<1>3. CASE Refill \/ RunsChange \/ UNCHANGED vars
  BY <1>3, WorldKeeps
<1> QED BY <1>1, <1>2, <1>3 DEF Next

\* Where the goroutine of an item is tells what has happened to its message,
\* its run and its answer; so it is for every list, of any length.
THEOREM Invariant == Spec => []IInv
  BY InitIInv, NextIInv, PTL DEF Spec

\* The variables of a list keep their types, and the bucket of the limiter
\* stays between empty and full.
THEOREM TypeCorrect == Spec => []TypeOK
<1>1. IInv => TypeOK
  BY DEF IInv
<1> QED BY <1>1, Invariant, PTL

\* No list takes the process down: validateSatelliteFields rules out what
\* BuildMetaData would dereference, for every item and every host.
THEOREM NeverDies == Spec => []ProcessSurvives
<1>1. IInv => ProcessSurvives
  BY DEF IInv, WholeOK, ProcessSurvives
<1> QED BY <1>1, Invariant, PTL

\* The codes of the answer are true of every item, for any number of
\* goroutines and any replies of cloud connector.
THEOREM AnswersAlwaysTrue == Spec => []AnswersTrue
<1>1. IInv => AnswersTrue
  BY DEF IInv, WholeOK, ItemOK, After, Asked, AnswersTrue
<1> QED BY <1>1, Invariant, PTL

\* ProcessCancel passes on nothing but requests for Satellite runs of the
\* organization that were running at some time during the request.
THEOREM CancelsJustified == Spec => []CancelJustified
<1>1. IInv => CancelJustified
  BY DEF IInv, TypeOK, ItemOK, Canceled, Justified, CancelJustified
<1> QED BY <1>1, Invariant, PTL

-----------------------------------------------------------------------------
(* The limiter                                                             *)

RateInv ==
    /\ refills \in Nat
    /\ Cardinality(Ticket) + tokens <= Bucket + refills

\* An item takes part in the count when it takes its token, not when it sends.
LEMMA TicketStep ==
    ASSUME IInv, [Next]_vars
    PROVE  \/ Ticket' = Ticket /\ tokens' = tokens /\ refills' = refills
           \/ Ticket' = Ticket /\ tokens' = tokens + 1 /\ refills' = refills + 1
           \/ \E i \in items : /\ Ticket' = Ticket \cup {i}
                               /\ tokens' = tokens - 1 /\ refills' = refills
<1> USE DEF Ticket
<1>0. TypeOK
  BY DEF IInv
<1>1. CASE Whole
  <2>1. items' = items /\ sent' = sent /\ tokens' = tokens /\ refills' = refills
    BY <1>1 DEF Whole, CheckPskAuth, RejectBatch, StartBatch, AnswerBatch, answer, items
  <2>2. at' = at \/ (phase = "new" /\ at' = [i \in items |-> "start"])
    BY <1>1 DEF Whole, CheckPskAuth, RejectBatch, StartBatch, AnswerBatch, answer
  <2>3. \A i \in items : at'[i] = at[i]
    BY <2>2 DEF IInv, WholeOK
  <2> QED BY <2>1, <2>3
<1>2. CASE Refill
  BY <1>2 DEF Refill, whole, items
<1>3. CASE RunsChange \/ UNCHANGED vars
  BY <1>3 DEF RunsChange, vars, whole, items
<1>4. CASE Goroutines
  <2>1. PICK i \in items : Process(i) \/ AskStatus(i)
    BY <1>4 DEF Goroutines
  <2>2. items' = items /\ refills' = refills
    BY <2>1 DEF Process, TranslateV1, PrepareV2, ReadRun, Wait, Send, RecordRun, AskStatus, whole, items
  <2>3. CASE at[i] # "send" /\ at'[i] # "send" /\ sent' = sent /\ tokens' = tokens
               /\ \A j \in items : j # i => at'[j] = at[j]
    BY <2>2, <2>3
  <2>4. CASE TranslateV1(i) \/ PrepareV2(i) \/ ReadRun(i) \/ RecordRun(i)
    BY <2>3, <2>4, <1>0 DEF TranslateV1, PrepareV2, ReadRun, RecordRun, finish, goto, TypeOK
  <2>5. CASE Wait(i)
    <3>1. CASE tokens' = tokens - 1 /\ goto(i, "send")
      BY <3>1, <2>2, <2>5, <1>0 DEF Wait, goto, TypeOK
    <3>2. CASE finish(i, errorCode("canceled")) /\ UNCHANGED tokens
      BY <3>2, <2>3, <2>5, <1>0 DEF Wait, finish, TypeOK
    <3> QED BY <3>1, <3>2, <2>5 DEF Wait
  <2>6. CASE Send(i)
    <3>1. at[i] = "send" /\ sent' = sent \cup {i} /\ tokens' = tokens
      BY <2>6 DEF Send
    <3>2. at'[i] # "send" /\ \A j \in items : j # i => at'[j] = at[j]
      BY <2>6, <1>0 DEF Send, finish, goto, TypeOK
    <3> QED BY <3>1, <3>2, <2>2
  <2>7. CASE AskStatus(i)
    <3>1. at[i] = "start" /\ at'[i] # "send" /\ \A j \in items : j # i => at'[j] = at[j]
      BY <2>7, <1>0 DEF AskStatus, finish, TypeOK
    <3>2. CASE tokens' = tokens - 1 /\ sent' = sent \cup {i}
      BY <3>1, <3>2, <2>2
    <3>3. CASE tokens' = tokens /\ sent' = sent
      BY <3>1, <3>3, <2>2
    <3> QED BY <3>2, <3>3, <2>7 DEF AskStatus
  <2> QED BY <2>1, <2>4, <2>5, <2>6, <2>7 DEF Process
<1> QED BY <1>1, <1>2, <1>3, <1>4 DEF Next

LEMMA RateKept == IInv /\ RateInv /\ [Next]_vars => RateInv'
<1> SUFFICES ASSUME IInv, RateInv, [Next]_vars PROVE RateInv'
  OBVIOUS
<1>1. IsFiniteSet(Ticket)
  <2>1. IsFiniteSet(items) /\ Ticket \in SUBSET items
    BY ItemsFinite DEF IInv, WholeOK, TypeOK, Ticket
  <2> QED BY <2>1, FS_Subset
<1>2. Cardinality(Ticket) \in Nat
  BY <1>1, FS_CardinalityType
<1>3. tokens \in Int /\ Bucket \in Nat /\ refills \in Nat
  BY BucketAssumption DEF IInv, TypeOK, RateInv
<1>4. CASE \E i \in items : /\ Ticket' = Ticket \cup {i}
                            /\ tokens' = tokens - 1 /\ refills' = refills
  <2>1. PICK i \in items : Ticket' = Ticket \cup {i}
                           /\ tokens' = tokens - 1 /\ refills' = refills
    BY <1>4
  <2>2. Cardinality(Ticket \cup {i}) \in {Cardinality(Ticket), Cardinality(Ticket) + 1}
    BY <1>1, FS_AddElement
  <2> QED BY <2>1, <2>2, <1>2, <1>3 DEF RateInv
<1>5. CASE Ticket' = Ticket /\ tokens' = tokens /\ refills' = refills
  BY <1>5 DEF RateInv
<1>6. CASE Ticket' = Ticket /\ tokens' = tokens + 1 /\ refills' = refills + 1
  BY <1>6, <1>2, <1>3 DEF RateInv
<1> QED BY <1>4, <1>5, <1>6, TicketStep

\* However many goroutines of a list ask cloud connector at once, they stay
\* within the burst and what rateLimiter has been refilled with since, whatever
\* other lists had left in the bucket.  (Only lists wait for the limiter: the
\* connection status of hosts asks without.)
THEOREM RateAlwaysRespected == Spec => []RateRespected
<1>1. Init => RateInv
  <2> SUFFICES ASSUME Init PROVE RateInv
    OBVIOUS
  <2>1. Ticket = {}
    BY DEF Init, Ticket
  <2>2. tokens \in 0..Bucket /\ refills = 0
    BY DEF Init
  <2> QED BY <2>1, <2>2, FS_EmptySet, BucketAssumption DEF RateInv
<1>2. IInv /\ RateInv => RateRespected
  <2> SUFFICES ASSUME IInv, RateInv PROVE RateRespected
    OBVIOUS
  <2>1. IsFiniteSet(items) /\ Ticket \in SUBSET items /\ sent \in SUBSET Ticket
    BY ItemsFinite DEF IInv, WholeOK, TypeOK, Ticket
  <2>2. IsFiniteSet(Ticket) /\ IsFiniteSet(sent) /\ Cardinality(sent) <= Cardinality(Ticket)
    BY <2>1, FS_Subset
  <2>3. Cardinality(sent) \in Nat /\ Cardinality(Ticket) \in Nat
    BY <2>2, FS_CardinalityType
  <2>4. tokens \in Int /\ Bucket \in Nat
    BY BucketAssumption DEF IInv, TypeOK
  <2> QED BY <2>2, <2>3, <2>4 DEF RateInv, RateRespected
<1> QED BY <1>1, <1>2, RateKept, Invariant, PTL DEF Spec

-----------------------------------------------------------------------------
(* The life of the process *)


\* The order of the shutdown: the listener is closed before requests are
\* drained, they are drained or late when the goroutine ends, main passes the
\* wait group only then, and the Kessel client is closed after that.
Order ==
    /\ stopper # "blocked" => api # "listening"
    /\ stopper = "done" => late \/ \A r \in Client : clients[r] # "inflight"
    /\ main \in {"metrics", "closing", "leaving", "exited"} => stopper = "done"
    /\ manager = "closed" => main \in {"leaving", "exited"}
    /\ \A r \in Client : clients[r] = "cut" => late

ServerInv == ServerTypeOK /\ Order

-----------------------------------------------------------------------------

LEMMA InitServerInv == ServerInit => ServerInv
<1> SUFFICES ASSUME ServerInit PROVE ServerInv
  OBVIOUS
<1>1. clients \in [Client -> {"none"}]
  BY DEF ServerInit
<1>2. late \in BOOLEAN
  BY DEF ServerInit
<1>3. clients \in [Client -> {"none", "inflight", "answered", "cut"}]
  BY <1>1
<1>4. senders \subseteq {"api", "metrics"} /\ errs \in 0..1
  BY DEF ServerInit
<1>5. ServerTypeOK
  BY <1>2, <1>3, <1>4, Zenon DEF ServerInit, ServerTypeOK
<1>6. Order
  BY <1>1 DEF ServerInit, Order
<1> QED BY <1>5, <1>6 DEF ServerInv

\* A step of a client: only a listening server accepts, so none is accepted
\* once the goroutine that stops the API has ended.
LEMMA ClientsKeep ==
    ASSUME ServerInv, Accept \/ Answer
    PROVE  ServerInv'
<1> USE DEF ServerInv, ServerTypeOK, Order
<1>1. CASE Accept
  <2>1. PICK r \in Client : clients' = [clients EXCEPT ![r] = "inflight"]
    BY <1>1 DEF Accept
  <2>2. stopper = "blocked" /\ stopper' = "blocked"
    BY <1>1 DEF Accept
  <2>3. ServerTypeOK'
    BY <1>1, <2>1 DEF Accept
  <2>4. Order'
    BY <1>1, <2>1, <2>2 DEF Accept
  <2> QED BY <2>3, <2>4
<1>2. CASE Answer
  <2>1. PICK r \in Client : clients' = [clients EXCEPT ![r] = "answered"]
    BY <1>2 DEF Answer, inflight
  <2>2. ServerTypeOK'
    BY <1>2, <2>1 DEF Answer
  <2>3. Order'
    BY <1>2, <2>1 DEF Answer
  <2> QED BY <2>2, <2>3
<1> QED BY <1>1, <1>2

\* The process leaves only after the wait group: what it cuts off was late.
LEMMA ExitKeeps ==
    ASSUME ServerInv, Exit
    PROVE  ServerInv'
<1> USE DEF ServerInv, ServerTypeOK, Order
<1>1. clients' = [r \in Client |-> IF clients[r] = "inflight" THEN "cut" ELSE clients[r]]
  BY DEF Exit, inflight
<1>2. stopper = "done"
  BY DEF Exit
<1>3. ServerTypeOK'
  BY <1>1 DEF Exit
<1>4. Order'
  BY <1>1, <1>2 DEF Exit
<1> QED BY <1>3, <1>4

LEMMA NextServerInv == ServerInv /\ [ServerNext]_serverVars => ServerInv'
<1> SUFFICES ASSUME ServerInv, [ServerNext]_serverVars PROVE ServerInv'
  OBVIOUS
<1> USE DEF ServerInv, ServerTypeOK, Order
<1>1. CASE Listen
  BY <1>1 DEF Listen, return
<1>2. CASE MetricsFails
  BY <1>2 DEF MetricsFails, return
<1>3. CASE SendError
  BY <1>3 DEF SendError
<1>4. CASE Accept \/ Answer
  BY <1>4, ClientsKeep
<1>5. CASE TakeSignal
  BY <1>5 DEF TakeSignal
<1>6. CASE TakeError
  BY <1>6 DEF TakeError
<1>7. CASE WgWaitFor
  BY <1>7 DEF WgWaitFor
<1>8. CASE StopMetrics
  BY <1>8 DEF StopMetrics, return
<1>9. CASE KesselClose
  BY <1>9 DEF KesselClose
<1>10. CASE Exit
  BY <1>10, ExitKeeps
<1>11. CASE StopApi
  BY <1>11 DEF StopApi, return
<1>12. CASE Drained
  BY <1>12 DEF Drained, inflight
<1>13. CASE DrainTimeout
  BY <1>13 DEF DrainTimeout
<1>14. CASE UNCHANGED serverVars
  BY <1>14 DEF serverVars
<1> QED
  BY <1>1, <1>2, <1>3, <1>4, <1>5, <1>6, <1>7, <1>8, <1>9, <1>10, <1>11, <1>12, <1>13, <1>14
  DEF ServerNext, Main, Stopper

\* The order of the shutdown is kept whatever signals, errors, servers and
\* clients do.
THEOREM ShutdownOrdered == ServerSpec => []ServerInv
  BY InitServerInv, NextServerInv, PTL DEF ServerSpec

\* The variables of an API process keep their types: the error channel of
\* run never holds more than one error.
THEOREM ServerTypes == ServerSpec => []ServerTypeOK
<1>1. ServerInv => ServerTypeOK
  BY DEF ServerInv
<1> QED BY <1>1, ShutdownOrdered, PTL

\* An accepted request keeps the Kessel client and the process until it is
\* answered, unless it outlasts the time Start gives the API to drain.
THEOREM OutlivedAlways == ServerSpec => []RequestsOutlived
<1>1. ServerInv => RequestsOutlived
  BY DEF ServerInv, ServerTypeOK, Order, RequestsOutlived
<1> QED BY <1>1, ShutdownOrdered, PTL

-----------------------------------------------------------------------------
(* The connection status of hosts *)

\* An entry about a recipient has the status that cloud connector gave for it.
Told(entry) ==
    entry.type # "none" => \E s \in said :
        /\ s[3] = entry.status
        /\ entry.recipient \in {s[2], ZeroUuid}
        /\ s[1] = IF entry.type = "satellite" THEN entry.sat[2] ELSE asked.org

AllTold(entries) == \A e \in DOMAIN entries : Told(entries[e])

\* The lists of responses are sequences, of whatever inventory's facts make of
\* their entries.
Lists ==
    \E S : partial \in [satellite : Seq(S), direct : Seq(S), none : Seq(S)]

\* What is true of the parts of the answer before they are put together, and
\* of the status before it is sent.
StatusInv ==
    /\ Lists
    /\ AllTold(partial.satellite) /\ AllTold(partial.direct) /\ AllTold(partial.none)
    /\ AllTold(body)
    /\ failed => committed = 500

\* Cloud connector's answers of a request are not forgotten.
LEMMA StaysTold ==
    ASSUME said \subseteq said', asked' = asked, NEW entries, AllTold(entries)
    PROVE  \A e \in DOMAIN entries : Told(entries[e])'
<1> SUFFICES ASSUME NEW e \in DOMAIN entries, entries[e].type # "none"
             PROVE  \E s \in said' :
                      /\ s[3] = entries[e].status
                      /\ entries[e].recipient \in {s[2], ZeroUuid}
                      /\ s[1] = IF entries[e].type = "satellite" THEN entries[e].sat[2]
                                ELSE asked.org
  BY DEF Told
<1> QED BY DEF AllTold, Told

\* Sending an answer does not hide a failure.
LEMMA SendKeepsFailure ==
    ASSUME NEW reply, NEW responses, send(reply, responses), failed' = failed,
           failed => committed = 500
    PROVE  failed' => committed' = 500
BY DEF send

\* Appending to a sequence leaves the rest alone.
LEMMA AppendTold ==
    ASSUME NEW S, NEW q \in Seq(S), NEW x
    PROVE  /\ Append(q, x) \in Seq(S \cup {x})
           /\ \A e \in DOMAIN Append(q, x) : (e \in DOMAIN q /\ Append(q, x)[e] = q[e])
                                             \/ Append(q, x)[e] = x
<1>1. q \in Seq(S \cup {x}) /\ x \in S \cup {x}
  OBVIOUS
<1> QED BY <1>1

\* A question to cloud connector keeps the invariant: what is appended has the
\* status just given for its recipient, and an error commits 500.
LEMMA AskTold ==
    ASSUME StatusInv, asked' = asked, NEW org, NEW entry, NEW next,
           NEW list \in {"satellite", "direct"}, ask(org, entry, list, next),
           org = IF entry.type = "satellite" THEN entry.sat[2] ELSE asked.org
    PROVE  StatusInv'
<1> USE DEF StatusInv
<1>1. PICK r \in GetConnectionStatus :
        CASE r = "panic" -> send(500, <<>>) /\ UNCHANGED <<partial, said, failed>>
          [] r = "error" ->
                /\ step' = next
                /\ committed' = 500
                /\ failed' = TRUE
                /\ partial' = [partial EXCEPT ![list] = <<>>]
                /\ UNCHANGED <<said, body>>
          [] OTHER ->
                /\ partial' = [partial EXCEPT ![list] = Append(@,
                      formatConnectionResponse(entry.sat, entry.rhc, entry.systems,
                                               entry.type, r))]
                /\ said' = said \cup {<<org, entry.rhc[1], r>>}
                /\ UNCHANGED <<step, failed, committed, body>>
  BY DEF ask
<1>2. PICK S : partial \in [satellite : Seq(S), direct : Seq(S), none : Seq(S)]
  BY DEF Lists
<1>3. CASE r = "panic"
  <2>1. send(500, <<>>) /\ UNCHANGED <<partial, said, failed>>
    BY <1>1, <1>3
  <2>2. AllTold(partial.satellite)' /\ AllTold(partial.direct)' /\ AllTold(partial.none)'
    BY <2>1 DEF AllTold, Told
  <2>3. AllTold(body)'
    BY <2>1 DEF send, AllTold
  <2>4. Lists'
    BY <2>1 DEF Lists
  <2> QED BY <2>1, <2>2, <2>3, <2>4, SendKeepsFailure
<1>4. CASE r = "error"
  <2>1. /\ committed' = 500
        /\ partial' = [partial EXCEPT ![list] = <<>>]
        /\ UNCHANGED <<said, body>>
    BY <1>1, <1>4
  <2>2. partial' \in [satellite : Seq(S), direct : Seq(S), none : Seq(S)]
    <3>1. <<>> \in Seq(S)
      OBVIOUS
    <3>2. CASE list = "satellite"
      BY <1>2, <2>1, <3>1, <3>2
    <3>3. CASE list = "direct"
      BY <1>2, <2>1, <3>1, <3>3
    <3> QED BY <3>2, <3>3
  <2>3. ASSUME NEW l \in {"satellite", "direct", "none"}, AllTold(partial[l])
        PROVE  AllTold(partial[l])'
    BY <1>2, <2>1, <2>3 DEF AllTold, Told
  <2>4. AllTold(body)'
    BY <2>1 DEF AllTold, Told
  <2> QED BY <2>1, <2>2, <2>3, <2>4 DEF Lists
<1>5. CASE r # "panic" /\ r # "error"
  <2> DEFINE x == formatConnectionResponse(entry.sat, entry.rhc, entry.systems, entry.type, r)
  <2>1. /\ partial' = [partial EXCEPT ![list] = Append(@, x)]
        /\ said' = said \cup {<<org, entry.rhc[1], r>>}
        /\ UNCHANGED <<failed, committed, body>>
    BY <1>1, <1>5
  <2>2. Told(x)'
    <3>1. /\ x.type = entry.type /\ x.status = r /\ x.sat = entry.sat
          /\ x.recipient \in {entry.rhc[1], ZeroUuid}
      BY DEF formatConnectionResponse
    <3>2. <<org, entry.rhc[1], r>> \in said'
      BY <2>1
    <3> HIDE DEF x
    <3> QED BY <3>1, <3>2 DEF Told
  <2> HIDE DEF x
  <2>3. ASSUME NEW l \in {"satellite", "direct", "none"}, AllTold(partial[l])
        PROVE  AllTold(partial[l])'
    <3>1. CASE l = list
      <4>1. partial[l] \in Seq(S)
        BY <1>2
      <4>2. partial'[l] = Append(partial[l], x)
        BY <1>2, <2>1, <3>1
      <4>3. \A e \in DOMAIN partial[l] : Told(partial[l][e])'
        BY <2>1, <2>3, StaysTold
      <4> QED BY <2>2, <4>1, <4>2, <4>3, AppendTold DEF AllTold
    <3>2. CASE l # list
      <4>1. partial'[l] = partial[l]
        BY <1>2, <2>1, <3>2
      <4>2. \A e \in DOMAIN partial[l] : Told(partial[l][e])'
        BY <2>1, <2>3, StaysTold
      <4> QED BY <4>1, <4>2 DEF AllTold
    <3> QED BY <3>1, <3>2
  <2>4. AllTold(body)'
    <3>1. \A e \in DOMAIN body : Told(body[e])'
      BY <2>1, StaysTold
    <3> QED BY <2>1, <3>1 DEF AllTold
  <2>5. Lists'
    <3>1. ASSUME NEW l \in {"satellite", "direct", "none"}
          PROVE  partial'[l] \in Seq(S \cup {x})
      <4>1. partial[l] \in Seq(S) /\ partial[l] \in Seq(S \cup {x})
        BY <1>2
      <4>2. CASE l = list
        <5>1. partial'[l] = Append(partial[l], x)
          BY <1>2, <2>1, <4>2
        <5> QED BY <4>1, <5>1, AppendTold
      <4>3. CASE l # list
        BY <1>2, <2>1, <4>1, <4>3
      <4> QED BY <4>2, <4>3
    <3>2. partial' \in [satellite : Seq(S \cup {x}), direct : Seq(S \cup {x}),
                        none : Seq(S \cup {x})]
      BY <1>2, <2>1, <3>1
    <3> QED BY <3>2 DEF Lists
  <2> QED BY <2>1, <2>3, <2>4, <2>5
<1> QED BY <1>3, <1>4, <1>5

\* The invariant survives steps that leave the lists of responses alone.
LEMMA ListsAlone ==
    ASSUME StatusInv, UNCHANGED <<asked, partial, said, failed>>,
           (\E reply, responses : send(reply, responses) /\ AllTold(responses))
              \/ UNCHANGED <<committed, body>>
    PROVE  StatusInv'
<1> USE DEF StatusInv
<1>1. /\ AllTold(partial.satellite)' /\ AllTold(partial.direct)' /\ AllTold(partial.none)'
      /\ Lists'
  BY DEF AllTold, Told, Lists
<1>2. CASE UNCHANGED <<committed, body>>
  BY <1>1, <1>2 DEF AllTold, Told
<1>3. CASE \E reply, responses : send(reply, responses) /\ AllTold(responses)
  <2>1. PICK reply, responses : send(reply, responses) /\ AllTold(responses)
    BY <1>3
  <2>2. AllTold(body)'
    BY <2>1 DEF send, AllTold, Told
  <2>3. failed' => committed' = 500
    BY <2>1, SendKeepsFailure
  <2> QED BY <1>1, <2>2, <2>3
<1> QED BY <1>2, <1>3

LEMMA StatusInvInit == StatusInit => StatusInv
<1> SUFFICES ASSUME StatusInit PROVE StatusInv
  OBVIOUS
<1>1. /\ partial = [satellite |-> <<>>, direct |-> <<>>, none |-> <<>>]
      /\ body = <<>> /\ failed = FALSE
  BY DEF StatusInit
<1>2. AllTold(<<>>)
  BY DEF AllTold
<1>3. partial \in [satellite : Seq({}), direct : Seq({}), none : Seq({})]
  BY <1>1
<1> QED BY <1>1, <1>2, <1>3 DEF StatusInv, Lists

\* The hosts without a recipient make at most one entry, which has no status
\* that could be told.
LEMMA SortKeeps ==
    ASSUME StatusInv, Sort
    PROVE  StatusInv'
<1> USE DEF StatusInv
<1>1. \E x : /\ x.type = "none"
             /\ \E n \in {<<>>, <<x>>} :
                  /\ partial' = [partial EXCEPT !.none = n]
                  /\ send(200, n) \/ send(500, <<>>) \/ UNCHANGED <<committed, body>>
             /\ UNCHANGED <<asked, said, failed>>
  <2> DEFINE list == sortHostsByRecipient.none
             x == getRHCStatus(list)
             n == IF list = {} THEN <<>> ELSE <<x>>
  <2>1. x.type = "none"
    BY DEF getRHCStatus, formatConnectionResponse
  <2>2. /\ partial' = [partial EXCEPT !.none = n]
        /\ send(200, n) \/ send(500, <<>>) \/ UNCHANGED <<committed, body>>
        /\ UNCHANGED <<asked, said, failed>>
    BY DEF Sort, upstream
  <2>3. n \in {<<>>, <<x>>}
    OBVIOUS
  <2> HIDE DEF x, n
  <2> QED BY <2>1, <2>2, <2>3
<1>2. PICK x : /\ x.type = "none"
               /\ \E n \in {<<>>, <<x>>} :
                    /\ partial' = [partial EXCEPT !.none = n]
                    /\ send(200, n) \/ send(500, <<>>) \/ UNCHANGED <<committed, body>>
               /\ UNCHANGED <<asked, said, failed>>
  BY <1>1
<1>3. PICK n \in {<<>>, <<x>>} :
           /\ partial' = [partial EXCEPT !.none = n]
           /\ send(200, n) \/ send(500, <<>>) \/ UNCHANGED <<committed, body>>
  BY <1>2
<1>4. n \in Seq({x}) /\ \A e \in DOMAIN n : n[e].type = "none"
  <2>1. CASE n = <<>>
    BY <2>1
  <2>2. CASE n = <<x>>
    BY <1>2, <2>2
  <2> QED BY <2>1, <2>2
<1>5. AllTold(n) /\ (\A e \in DOMAIN n : Told(n[e])') /\ AllTold(<<>>)
  BY <1>4 DEF AllTold, Told
<1>6. PICK S : partial \in [satellite : Seq(S), direct : Seq(S), none : Seq(S)]
  BY DEF Lists
<1>7. Lists'
  <2> DEFINE T == S \cup {x}
  <2>1. /\ n \in Seq(T)
        /\ partial.satellite \in Seq(T) /\ partial.direct \in Seq(T)
    BY <1>4, <1>6
  <2> HIDE DEF T
  <2>2. partial' \in [satellite : Seq(T), direct : Seq(T), none : Seq(T)]
    BY <1>3, <1>6, <2>1
  <2> QED BY <2>2 DEF Lists
<1>8. /\ partial'.none = n
      /\ partial'.satellite = partial.satellite /\ partial'.direct = partial.direct
  BY <1>3, <1>6
<1>9. AllTold(partial.satellite)' /\ AllTold(partial.direct)' /\ AllTold(partial.none)'
  BY <1>2, <1>5, <1>8 DEF AllTold, Told
<1>10. AllTold(body)'
  <2>1. body' \in {n, <<>>, body}
    BY <1>3 DEF send
  <2> QED BY <1>2, <1>5, <2>1 DEF AllTold, Told
<1>11. failed' => committed' = 500
  <2>1. failed' = failed
    BY <1>2
  <2> QED BY <1>3, <2>1, SendKeepsFailure
<1> QED BY <1>7, <1>9, <1>10, <1>11

\* The parts joined together are told if each is.
LEMMA ConcatTold ==
    ASSUME StatusInv
    PROVE  AllTold(concatResponses)
<1>1. PICK S : partial \in [satellite : Seq(S), direct : Seq(S), none : Seq(S)]
  BY DEF StatusInv, Lists
<1>2. /\ partial.satellite \in Seq(S) /\ partial.direct \in Seq(S) /\ partial.none \in Seq(S)
  BY <1>1
<1>3. ASSUME NEW a \in Seq(S), NEW b \in Seq(S), AllTold(a), AllTold(b)
      PROVE  a \o b \in Seq(S) /\ AllTold(a \o b)
  <2>1. a \o b \in Seq(S)
    OBVIOUS
  <2>2. ASSUME NEW e \in DOMAIN (a \o b)
        PROVE  Told((a \o b)[e])
    <3>1. e \in 1..(Len(a) + Len(b))
      OBVIOUS
    <3>2. CASE e <= Len(a)
      <4>1. (a \o b)[e] = a[e] /\ e \in DOMAIN a
        BY <3>1, <3>2
      <4> QED BY <1>3, <4>1 DEF AllTold
    <3>3. CASE e > Len(a)
      <4>1. (a \o b)[e] = b[e - Len(a)] /\ e - Len(a) \in DOMAIN b
        BY <3>1, <3>3
      <4> QED BY <1>3, <4>1 DEF AllTold
    <3> QED BY <3>1, <3>2, <3>3
  <2> QED BY <2>1, <2>2 DEF AllTold
<1>4. AllTold(partial.satellite) /\ AllTold(partial.direct) /\ AllTold(partial.none)
  BY DEF StatusInv
<1> DEFINE both == partial.satellite \o partial.direct
<1>5. both \in Seq(S) /\ AllTold(both)
  BY <1>2, <1>3, <1>4
<1>6. AllTold(both \o partial.none)
  <2> HIDE DEF both
  <2> QED BY <1>2, <1>3, <1>4, <1>5, Zenon
<1> QED BY <1>6 DEF concatResponses

LEMMA StatusInvNext == StatusInv /\ [StatusNext]_statusVars => StatusInv'
<1> SUFFICES ASSUME StatusInv, [StatusNext]_statusVars PROVE StatusInv'
  OBVIOUS
<1> DEFINE Quiet == /\ UNCHANGED <<asked, partial, said, failed>>
                    /\ \/ \E reply, responses : send(reply, responses) /\ AllTold(responses)
                       \/ UNCHANGED <<committed, body>>
<1>0. AllTold(<<>>)
  BY DEF AllTold
<1>1. CASE ReadRequest
  <2>1. Quiet
    BY <1>0, <1>1 DEF ReadRequest, upstream, parts
  <2> QED BY <2>1, ListsAlone
<1>2. CASE AskHosts
  <2>1. /\ UNCHANGED <<asked, partial, said, failed>>
        /\ (\E c \in {200, 400} : send(c, <<>>)) \/ UNCHANGED <<committed, body>>
    BY <1>2 DEF AskHosts, upstream
  <2>2. Quiet
    BY <1>0, <2>1
  <2> QED BY <2>2, ListsAlone
<1>3. CASE AskProfiles
  <2>1. /\ UNCHANGED <<asked, partial, said, failed>>
        /\ (\E c \in {400, 500} : send(c, <<>>)) \/ UNCHANGED <<committed, body>>
    BY <1>3 DEF AskProfiles, upstream
  <2>2. Quiet
    BY <1>0, <2>1
  <2> QED BY <2>2, ListsAlone
<1>4. CASE Sort
  BY <1>4, SortKeeps
<1>5. CASE getSourceInfo
  <2>1. /\ UNCHANGED <<asked, partial, said, failed>>
        /\ send(500, <<>>) \/ UNCHANGED <<committed, body>>
    BY <1>5 DEF getSourceInfo, upstream
  <2>2. Quiet
    BY <1>0, <2>1
  <2> QED BY <2>2, ListsAlone
<1>6. CASE SourcesDone
  <2>1. Quiet
    BY <1>6 DEF SourcesDone, upstream
  <2> QED BY <2>1, ListsAlone
<1>7. CASE createSatelliteConnectionResponses
  <2> DEFINE about(k) == [sat |-> <<groups[k].instance, groups[k].org>>, rhc |-> groups[k].rhc,
                          systems |-> groups[k].hosts, type |-> "satellite"]
  <2>1. PICK k \in todo : ask(groups[k].org, about(k), "satellite", "direct")
    BY <1>7 DEF createSatelliteConnectionResponses
  <2>2. about(k).type = "satellite" /\ about(k).sat[2] = groups[k].org
    OBVIOUS
  <2>3. asked' = asked
    BY <1>7 DEF createSatelliteConnectionResponses, upstream
  <2> HIDE DEF about
  <2> QED BY <2>1, <2>2, <2>3, AskTold
<1>8. CASE SatellitesDone
  <2>1. Quiet
    BY <1>8 DEF SatellitesDone, upstream, parts
  <2> QED BY <2>1, ListsAlone
<1>9. CASE getDirectConnectStatus
  <2>1. /\ \E n : ask(asked.org, [sat |-> <<>>, rhc |-> details[n].rhc, systems |-> {n},
                                  type |-> "directConnect"], "direct", "answer")
        /\ asked' = asked
    BY <1>9 DEF getDirectConnectStatus, upstream
  <2>2. PICK entry : ask(asked.org, entry, "direct", "answer") /\ entry.type = "directConnect"
    BY <2>1
  <2> QED BY <2>1, <2>2, AskTold
<1>10. CASE ApiInternalHighlevelConnectionStatus
  <2>1. UNCHANGED <<asked, partial, said, failed>> /\ send(200, concatResponses)
    BY <1>10 DEF ApiInternalHighlevelConnectionStatus, upstream, parts
  <2>2. Quiet
    BY <2>1, ConcatTold
  <2> QED BY <2>2, ListsAlone
<1>11. CASE DeleteHost
  <2>1. Quiet
    BY <1>11 DEF DeleteHost, parts
  <2> QED BY <2>1, ListsAlone
<1>12. CASE UNCHANGED statusVars
  <2>1. Quiet
    BY <1>12 DEF statusVars, upstream
  <2> QED BY <2>1, ListsAlone
<1> QED
  BY <1>1, <1>2, <1>3, <1>4, <1>5, <1>6, <1>7, <1>8, <1>9, <1>10, <1>11, <1>12
  DEF StatusNext, Handler

\* In every answer a recipient has the status cloud connector gave for it in
\* this request and in the right organization, and a question that was not
\* answered is never hidden by a success, though the handler goes on after it
\* (createSatelliteConnectionResponses, getDirectConnectStatus).
THEOREM AlwaysAsTold == StatusSpec => []StatusAsTold
<1>1. StatusInv => StatusAsTold
  BY DEF StatusInv, AllTold, Told, StatusAsTold, ToldInThisRequest, FailureShows
<1> QED BY <1>1, StatusInvInit, StatusInvNext, PTL DEF StatusSpec

-----------------------------------------------------------------------------
(* Least and greatest numbers, for Min and Max of FiniteSetsExt *)

\* Every non-empty set of natural numbers has a least element, which is its Min:
\* the intervals 0..x of its elements are ordered well by strict inclusion.
LEMMA MinOf ==
    ASSUME NEW T \in SUBSET Nat, T # {}
    PROVE  Min(T) \in T /\ \A y \in T : Min(T) <= y
<1> DEFINE K == {0..x : x \in T}
<1>1. K \subseteq FiniteSubsetsOf(Nat) /\ K # {}
  <2>1. ASSUME NEW x \in T PROVE 0..x \in FiniteSubsetsOf(Nat)
    <3>1. IsFiniteSet(0..x) /\ 0..x \in SUBSET Nat
      BY FS_Interval
    <3> QED BY <3>1 DEF FiniteSubsetsOf
  <2> QED BY <2>1
<1>2. PICK k \in K : \A y \in K : ~(<<y, k>> \in StrictSubsetOrdering(Nat))
  <2>1. IsWellFoundedOn(StrictSubsetOrdering(Nat), FiniteSubsetsOf(Nat))
    BY FS_StrictSubsetOrderingWellFounded
  <2> HIDE DEF K
  <2> QED BY <1>1, <2>1, WFMin
<1>3. PICK x \in T : k = 0..x
  OBVIOUS
<1>4. ASSUME NEW y \in T, y < x PROVE FALSE
  <2>1. 0..y \subseteq 0..x /\ x \in 0..x /\ x \notin 0..y
    BY <1>4
  <2>2. 0..y \in SUBSET Nat /\ 0..x \in SUBSET Nat /\ 0..y # 0..x
    BY <2>1
  <2>3. <<0..y, 0..x>> \in StrictSubsetOrdering(Nat)
    BY <2>1, <2>2 DEF StrictSubsetOrdering
  <2> QED BY <1>2, <1>3, <2>3
<1>5. \E z \in T : \A y \in T : z <= y
  BY <1>4
<1> QED BY <1>5 DEF Min

\* A bounded one has a greatest element: the distances to the bound have a
\* least one.
LEMMA MaxOf ==
    ASSUME NEW n \in Nat, NEW T \in SUBSET (0..n), T # {}
    PROVE  Max(T) \in T /\ \A y \in T : y <= Max(T)
<1> DEFINE D == {n - x : x \in T}
<1>1. D \in SUBSET Nat /\ D # {}
  <2>1. \A x \in T : n - x \in Nat
    OBVIOUS
  <2> QED BY <2>1
<1>2. PICK d \in D : \A e \in D : d <= e
  <2> HIDE DEF D
  <2> QED BY <1>1, MinOf
<1>3. PICK x \in T : d = n - x
  OBVIOUS
<1>4. \A y \in T : y <= x
  <2> SUFFICES ASSUME NEW y \in T PROVE y <= x
    OBVIOUS
  <2>1. n - x <= n - y
    BY <1>2, <1>3
  <2> QED BY <2>1
<1> QED BY <1>4 DEF Max

-----------------------------------------------------------------------------
(* The connection status of hosts: types *)

Pointer(S) == {<<>>} \cup {<<x>> : x \in S}
ClientId == RhcIds \cup {Malformed}

HostDetail ==
    [id : DOMAIN Inventory \cup {NoId}, instance : Pointer(Seq(Int)), org : Pointer(Seq(Int)),
     rhc : Pointer(ClientId)]

Group == [instance : Seq(Int), org : Seq(Int), hosts : SUBSET Nat, rhc : Pointer(ClientId)]

Info == RecipientWithConnectionInfo

StatusTypes ==
    /\ StatusTypeOK
    /\ asked \in HostRequests
    /\ found \in Seq(DOMAIN Inventory)
    /\ details \in Seq(HostDetail)
    /\ groups \in [DOMAIN groups -> Group]
    /\ partial \in [satellite : Seq(Info), direct : Seq(Info), none : Seq(Info)]

LEMMA PointerTo ==
    ASSUME NEW S
    PROVE  /\ <<>> \in Pointer(S)
           /\ \A x \in S : <<x>> \in Pointer(S)
           /\ \A p \in Pointer(S) : p # <<>> => p[1] \in S /\ p = <<p[1]>>
BY DEF Pointer

\* A fact is nil or a text, whatever it was stored as.
LEMMA FactTyped ==
    ASSUME NEW h \in DOMAIN Inventory, Inventory[h].facts # <<>>, NEW key
    PROVE  satelliteFact(Inventory[h].facts[1], key) \in Pointer(Seq(Int))
<1> DEFINE sets == Inventory[h].facts[1]
           having == {i \in DOMAIN sets : sets[i].namespace = "satellite" /\ key \in DOMAIN sets[i].facts}
<1>1. /\ Len(sets) \in Nat /\ DOMAIN sets = 1..Len(sets)
      /\ \A i \in DOMAIN sets : \A k \in DOMAIN sets[i].facts :
            /\ sets[i].facts[k].kind = "float64" => sets[i].facts[k].value \in Int
            /\ sets[i].facts[k].kind = "string" => sets[i].facts[k].value \in Seq(Int)
  BY InventoryAssumption, Zenon
<1>2. satelliteFact(sets, key) =
        IF having = {} THEN <<>> ELSE <<convertInterfaceToString(sets[Max(having)].facts[key])>>
  BY Zenon DEF satelliteFact
<1>3. CASE having = {}
  <2>1. satelliteFact(sets, key) = <<>>
    BY <1>2, <1>3, Zenon
  <2> QED BY <2>1, PointerTo
<1> HIDE DEF sets
<1>4. CASE having # {}
  <2>1. having \in SUBSET (0..Len(sets))
    BY <1>1
  <2>2. Max(having) \in having
    <3> HIDE DEF having
    <3> QED BY <1>1, <1>4, <2>1, MaxOf
  <2> DEFINE v == sets[Max(having)].facts[key]
  <2>3. /\ v.kind = "float64" => v.value \in Int
        /\ v.kind = "string" => v.value \in Seq(Int)
    BY <1>1, <2>2
  <2>4. convertInterfaceToString(v) \in Seq(Int)
    <3> HIDE DEF v
    <3>1. CASE v.kind = "float64"
      <4>1. convertInterfaceToString(v) = <<v.value \div 10>>
        BY <3>1 DEF convertInterfaceToString
      <4>2. v.value \div 10 \in Int
        BY <2>3, <3>1
      <4> QED BY <4>1, <4>2
    <3>2. CASE v.kind = "string"
      <4>1. convertInterfaceToString(v) = v.value
        BY <3>2 DEF convertInterfaceToString
      <4> QED BY <2>3, <3>2, <4>1
    <3>3. CASE v.kind # "float64" /\ v.kind # "string"
      <4>1. convertInterfaceToString(v) = <<>>
        BY <3>3 DEF convertInterfaceToString
      <4> QED BY <4>1
    <3> QED BY <3>1, <3>2, <3>3
  <2> HIDE DEF having, v
  <2>5. satelliteFact(sets, key) = <<convertInterfaceToString(v)>>
    BY <1>2, <1>4 DEF v
  <2> QED BY <2>4, <2>5, PointerTo DEF sets
<1> QED BY <1>3, <1>4

\* What GetHostConnectionDetails returns, place by place.
LEMMA DetailsAt ==
    ASSUME NEW i \in DOMAIN asked.hosts
    PROVE  LET facts0 == getSatelliteFacts(Inventory[found[i]].facts[1])
           IN  GetHostConnectionDetails[i] =
                 IF i > Len(found) THEN noDetails
                 ELSE [id |-> found[i], instance |-> facts0.instance, org |-> facts0.org,
                       rhc |-> Inventory[found[i]].rhc]
BY Zenon DEF GetHostConnectionDetails

LEMMA DetailsTyped ==
    ASSUME Len(asked.hosts) \in Nat, DOMAIN asked.hosts = 1..Len(asked.hosts), found \in Seq(DOMAIN Inventory),
           \A i \in DOMAIN found : Inventory[found[i]].facts # <<>>
    PROVE  /\ GetHostConnectionDetails \in Seq(HostDetail)
           /\ DOMAIN GetHostConnectionDetails = DOMAIN asked.hosts
<1> DEFINE D == GetHostConnectionDetails
           n == Len(asked.hosts)
<1>1. DOMAIN D = 1..n /\ n \in Nat /\ DOMAIN asked.hosts = 1..n
  BY DEF GetHostConnectionDetails
<1>2. ASSUME NEW i \in 1..n PROVE D[i] \in HostDetail
  <2>1. CASE i > Len(found)
    <3>1. D[i] = noDetails
      BY <1>1, <2>1, DetailsAt
    <3>2. noDetails \in HostDetail
      <4>1. <<>> \in Pointer(Seq(Int)) /\ <<>> \in Pointer(ClientId)
        BY PointerTo
      <4> HIDE DEF D, n
      <4> QED BY <4>1 DEF noDetails, HostDetail
    <3> QED BY <3>1, <3>2
  <2>2. CASE ~(i > Len(found))
    <3>1. i \in DOMAIN found /\ found[i] \in DOMAIN Inventory
      BY <1>1, <2>2
    <3> DEFINE fs == Inventory[found[i]].facts[1]
    <3>2. D[i] = [id |-> found[i], instance |-> getSatelliteFacts(fs).instance,
                  org |-> getSatelliteFacts(fs).org, rhc |-> Inventory[found[i]].rhc]
      BY <1>1, <2>2, DetailsAt
    <3>3. /\ satelliteFact(fs, "satellite_instance_id") \in Pointer(Seq(Int))
          /\ satelliteFact(fs, "organization_id") \in Pointer(Seq(Int))
      BY <3>1, FactTyped
    <3>4. /\ getSatelliteFacts(fs).instance = satelliteFact(fs, "satellite_instance_id")
          /\ getSatelliteFacts(fs).org = satelliteFact(fs, "organization_id")
      BY DEF getSatelliteFacts
    <3>5. Inventory[found[i]].rhc \in Pointer(ClientId)
      BY <3>1, InventoryAssumption DEF Pointer, ClientId
    <3> HIDE DEF fs, D
    <3> QED BY <3>1, <3>2, <3>3, <3>4, <3>5 DEF HostDetail
  <2> QED BY <2>1, <2>2
<1>3. D = [i \in 1..n |-> D[i]]
  BY <1>1 DEF GetHostConnectionDetails
<1> HIDE DEF D, n
<1>4. D \in [1..n -> HostDetail]
  BY <1>2, <1>3
<1>5. D \in Seq(HostDetail)
  BY <1>1, <1>4
<1> QED BY <1>1, <1>5 DEF D

\* What sources answers has a client id or none.
LEMMA SourceTyped ==
    ASSUME NEW r \in GetSourceConnectionDetails
    PROVE  r.rhc \in Pointer(ClientId)
<1> DEFINE rhcs == {<<>>} \cup {<<c>> : c \in RhcIds}
<1>1. (\E k : r = sourceAnswer(k, <<>>)) \/ (\E c \in rhcs : r = sourceAnswer("ok", c))
  BY DEF GetSourceConnectionDetails
<1>2. r.rhc \in rhcs
  BY <1>1 DEF sourceAnswer
<1> QED BY <1>2 DEF Pointer, ClientId

LEMMA FormatTyped ==
    ASSUME NEW sat \in Seq(Seq(Int)), NEW rhc \in Pointer(ClientId), NEW S \in SUBSET Nat,
           NEW type \in RecipientType,
           NEW state \in {"connected", "disconnected", "rhc_not_configured"}
    PROVE  /\ formatConnectionResponse(sat, rhc, S, type, state) \in Info
           /\ formatConnectionResponse(sat, rhc, S, type, state).systems = S
           /\ formatConnectionResponse(sat, rhc, S, type, state).type = type
           /\ formatConnectionResponse(sat, rhc, S, type, state).sat = sat
<1> DEFINE who == IF rhc = <<>> \/ rhc = <<Malformed>> THEN ZeroUuid ELSE rhc[1]
<1>1. who \in RhcIds \cup {ZeroUuid}
  BY PointerTo DEF ClientId
<1>2. formatConnectionResponse(sat, rhc, S, type, state) =
        [sat |-> sat, recipient |-> who, systems |-> S, type |-> type, status |-> state]
  BY DEF formatConnectionResponse
<1> HIDE DEF who
<1> QED BY <1>1, <1>2 DEF Info, RecipientWithConnectionInfo

\* The three outcomes of a question to cloud connector.
Stopped == send(500, <<>>) /\ UNCHANGED <<partial, said, failed>>

LEMMA AskCases ==
    ASSUME NEW org, NEW entry, NEW list, NEW next, ask(org, entry, list, next)
    PROVE  \/ Stopped
           \/ /\ step' = next /\ committed' = 500 /\ failed' = TRUE
              /\ partial' = [partial EXCEPT ![list] = <<>>]
              /\ UNCHANGED body
           \/ /\ \E r \in {"connected", "disconnected"} :
                   partial' = [partial EXCEPT ![list] = Append(partial[list],
                     formatConnectionResponse(entry.sat, entry.rhc, entry.systems, entry.type, r))]
              /\ UNCHANGED <<step, failed, committed, body>>
<1>1. PICK r \in GetConnectionStatus :
        CASE r = "panic" -> send(500, <<>>) /\ UNCHANGED <<partial, said, failed>>
          [] r = "error" ->
                /\ step' = next
                /\ committed' = 500
                /\ failed' = TRUE
                /\ partial' = [partial EXCEPT ![list] = <<>>]
                /\ UNCHANGED <<said, body>>
          [] OTHER ->
                /\ partial' = [partial EXCEPT ![list] = Append(@,
                      formatConnectionResponse(entry.sat, entry.rhc, entry.systems,
                                               entry.type, r))]
                /\ said' = said \cup {<<org, entry.rhc[1], r>>}
                /\ UNCHANGED <<step, failed, committed, body>>
  BY DEF ask
<1>2. r \in {"connected", "disconnected", "panic", "error"}
  BY DEF GetConnectionStatus
<1>3. CASE r = "panic"
  <2>1. send(500, <<>>) /\ UNCHANGED <<partial, said, failed>>
    BY <1>1, <1>3
  <2> QED BY <2>1 DEF Stopped
<1>4. CASE r = "error"
  BY <1>1, <1>4
<1>5. CASE r \in {"connected", "disconnected"}
  BY <1>1, <1>5
<1> QED BY <1>2, <1>3, <1>4, <1>5

-----------------------------------------------------------------------------
(* The groups of hosts *)

Sat == {i \in DOMAIN details : details[i].instance # <<>>}
Direct == {i \in DOMAIN details : details[i].instance = <<>> /\ details[i].rhc # <<>>}
NoOne == {i \in DOMAIN details : details[i].instance = <<>> /\ details[i].rhc = <<>>}

LEMMA SortedIs ==
    /\ sortHostsByRecipient.satellite = Sat
    /\ sortHostsByRecipient.direct = Direct
    /\ sortHostsByRecipient.none = NoOne
BY DEF sortHostsByRecipient, Sat, Direct, NoOne

\* Every host of a Satellite is in the group of its key, which has the
\* instance and the organization of all its hosts.
Grouped(g) ==
    /\ \A i \in Sat : details[i].org # <<>>
    /\ DOMAIN g = {satInstanceAndOrg(details[i]) : i \in Sat}
    /\ \A k \in DOMAIN g :
         /\ g[k].hosts = {i \in Sat : satInstanceAndOrg(details[i]) = k}
         /\ \A i \in g[k].hosts : /\ details[i].instance[1] = g[k].instance
                                  /\ details[i].org[1] = g[k].org

LEMMA ConcatParts ==
    \A S : \A a, b \in Seq(S) :
        /\ a \o b \in Seq(S) /\ Len(a \o b) = Len(a) + Len(b)
        /\ Len(a) \in Nat /\ Len(b) \in Nat
        /\ \A i \in 1..Len(a) : (a \o b)[i] = a[i]
        /\ \A i \in 1..Len(b) : (a \o b)[Len(a) + i] = b[i]
<1> SUFFICES ASSUME NEW S, NEW a \in Seq(S), NEW b \in Seq(S)
             PROVE  /\ a \o b \in Seq(S) /\ Len(a \o b) = Len(a) + Len(b)
                    /\ Len(a) \in Nat /\ Len(b) \in Nat
                    /\ \A i \in 1..Len(a) : (a \o b)[i] = a[i]
                    /\ \A i \in 1..Len(b) : (a \o b)[Len(a) + i] = b[i]
  OBVIOUS
<1>1. Len(a) \in Nat /\ Len(b) \in Nat
  OBVIOUS
<1>2. a \o b \in Seq(S) /\ Len(a \o b) = Len(a) + Len(b)
  OBVIOUS
<1>3. \A i \in 1..Len(a) : (a \o b)[i] = a[i]
  BY <1>1
<1>4. ASSUME NEW i \in 1..Len(b) PROVE (a \o b)[Len(a) + i] = b[i]
  <2>1. Len(a) + i \in 1..(Len(a) + Len(b)) /\ ~(Len(a) + i <= Len(a)) /\ (Len(a) + i) - Len(a) = i
    BY <1>1
  <2> QED BY <1>1, <2>1
<1> QED BY <1>1, <1>2, <1>3, <1>4

\* Satellite ids have one length, so that the key of a group determines both of
\* the texts it is put together from.
LEMMA KeyDetermines ==
    \A a, b, c, d \in Seq(Int) : Len(a) = Len(c) /\ a \o b = c \o d => a = c /\ b = d
<1> DEFINE Parts(z, p, q) ==
             /\ Len(z) = Len(p) + Len(q) /\ Len(p) \in Nat /\ Len(q) \in Nat
             /\ \A i \in 1..Len(p) : z[i] = p[i]
             /\ \A i \in 1..Len(q) : z[Len(p) + i] = q[i]
<1>1. \A p, q \in Seq(Int) : Parts(p \o q, p, q)
  BY ConcatParts
<1> SUFFICES ASSUME NEW a \in Seq(Int), NEW b \in Seq(Int), NEW c \in Seq(Int), NEW d \in Seq(Int),
                    Len(a) = Len(c), NEW x, x = a \o b, x = c \o d
             PROVE  a = c /\ b = d
  BY ZenonT(40)
<1>2. Parts(x, a, b)
  <2> HIDE DEF Parts
  <2> QED BY <1>1
<1>3. Parts(x, c, d)
  <2> HIDE DEF Parts
  <2> QED BY <1>1
<1>4. Len(b) = Len(d)
  BY <1>2, <1>3
<1>5. (\A i \in 1..Len(a) : a[i] = c[i]) /\ (\A i \in 1..Len(b) : b[i] = d[i])
  BY <1>2, <1>3, <1>4, Zenon
<1>6. a = [i \in 1..Len(a) |-> a[i]] /\ c = [i \in 1..Len(a) |-> c[i]]
  OBVIOUS
<1>7. b = [i \in 1..Len(b) |-> b[i]] /\ d = [i \in 1..Len(b) |-> d[i]]
  BY <1>4
<1> QED BY <1>5, <1>6, <1>7

LEMMA GroupsFormed ==
    ASSUME details \in Seq(HostDetail), \A i \in Sat : details[i].org # <<>>,
           \A i, j \in Sat : Len(details[i].instance[1]) = Len(details[j].instance[1])
    PROVE  LET g == groupHostsBySatellite(Sat)
           IN  Grouped(g) /\ g \in [DOMAIN g -> Group]
<1> DEFINE keys == {satInstanceAndOrg(details[i]) : i \in Sat}
           members(k) == {i \in Sat : satInstanceAndOrg(details[i]) = k}
           leader(k) == details[Min(members(k))]
           g == groupHostsBySatellite(Sat)
<1>1. g = [k \in keys |-> [instance |-> leader(k).instance[1], org |-> leader(k).org[1],
                           hosts |-> members(k), rhc |-> <<>>]]
  BY Zenon DEF groupHostsBySatellite
<1>2. \A i \in Sat : /\ i \in Nat /\ details[i] \in HostDetail
                     /\ details[i].instance[1] \in Seq(Int) /\ details[i].org[1] \in Seq(Int)
  <2> SUFFICES ASSUME NEW i \in Sat
               PROVE  /\ i \in Nat /\ details[i] \in HostDetail
                      /\ details[i].instance[1] \in Seq(Int) /\ details[i].org[1] \in Seq(Int)
    OBVIOUS
  <2>1. i \in DOMAIN details /\ details[i].instance # <<>>
    BY DEF Sat
  <2>2. i \in Nat /\ details[i] \in HostDetail
    BY <2>1
  <2>3. details[i].instance \in Pointer(Seq(Int)) /\ details[i].org \in Pointer(Seq(Int))
    BY <2>2 DEF HostDetail
  <2> QED BY <2>1, <2>2, <2>3, PointerTo
<1>3. ASSUME NEW k \in keys
      PROVE  /\ Min(members(k)) \in members(k)
             /\ \A i \in members(k) : /\ details[i].instance[1] = leader(k).instance[1]
                                      /\ details[i].org[1] = leader(k).org[1]
  <2> DEFINE M == members(k)
  <2>1. M \in SUBSET Nat /\ M # {}
    BY <1>2, <1>3
  <2>2. Min(M) \in M
    <3> HIDE DEF M
    <3> QED BY <2>1, MinOf
  <2>3. ASSUME NEW i \in M
        PROVE  /\ details[i].instance[1] = details[Min(M)].instance[1]
               /\ details[i].org[1] = details[Min(M)].org[1]
    <3> DEFINE j == Min(M)
    <3>1. i \in Sat /\ j \in Sat /\ satInstanceAndOrg(details[i]) = satInstanceAndOrg(details[j])
      BY <2>2, <2>3
    <3> HIDE DEF j, M
    <3>2. details[i].instance[1] \o details[i].org[1] = details[j].instance[1] \o details[j].org[1]
      BY <3>1 DEF satInstanceAndOrg
    <3>3. Len(details[i].instance[1]) = Len(details[j].instance[1])
      BY <3>1
    <3>4. /\ details[i].instance[1] \in Seq(Int) /\ details[i].org[1] \in Seq(Int)
          /\ details[j].instance[1] \in Seq(Int) /\ details[j].org[1] \in Seq(Int)
      BY <1>2, <3>1
    <3>5. details[i].instance[1] = details[j].instance[1] /\ details[i].org[1] = details[j].org[1]
      <4> DEFINE a == details[i].instance[1]
                 b == details[i].org[1]
                 c == details[j].instance[1]
                 d == details[j].org[1]
      <4>1. /\ a \in Seq(Int) /\ b \in Seq(Int) /\ c \in Seq(Int) /\ d \in Seq(Int)
            /\ Len(a) = Len(c) /\ a \o b = c \o d
        BY <3>2, <3>3, <3>4, Zenon
      <4> HIDE DEF a, b, c, d
      <4>2. a = c /\ b = d
        BY <4>1, KeyDetermines, Zenon
      <4> QED BY <4>2 DEF a, b, c, d
    <3> QED BY <3>5 DEF j
  <2> QED BY <2>2, <2>3
<1>4. ASSUME NEW k \in keys PROVE g[k] \in Group
  <2>1. Min(members(k)) \in Sat /\ members(k) \in SUBSET Nat
    BY <1>2, <1>3, <1>4
  <2>2. leader(k).instance[1] \in Seq(Int) /\ leader(k).org[1] \in Seq(Int)
    BY <1>2, <2>1
  <2>3. <<>> \in Pointer(ClientId)
    BY PointerTo
  <2>4. g[k] = [instance |-> leader(k).instance[1], org |-> leader(k).org[1],
                hosts |-> members(k), rhc |-> <<>>]
    BY <1>1, <1>4, Zenon
  <2> HIDE DEF members, leader, g, keys
  <2> QED BY <2>1, <2>2, <2>3, <2>4 DEF Group
<1>5. DOMAIN g = keys
  BY <1>1, Zenon
<1>6. ASSUME NEW k \in keys
      PROVE  /\ g[k].hosts = members(k)
             /\ g[k].instance = leader(k).instance[1] /\ g[k].org = leader(k).org[1]
  <2> HIDE DEF members, leader, g, keys
  <2> QED BY <1>1, <1>6
<1>7. Grouped(g)
  <2> HIDE DEF leader, g
  <2> QED BY <1>3, <1>5, <1>6 DEF Grouped
<1>8. g \in [keys -> Group]
  <2>1. g = [k \in keys |-> g[k]]
    BY <1>1
  <2> HIDE DEF g, keys
  <2> QED BY <1>4, <2>1
<1> HIDE DEF keys
<1> QED BY <1>5, <1>7, <1>8

-----------------------------------------------------------------------------
(* The connection status of hosts: what holds on the way to the answer *)

\* The entries of a list name the positions of P, each once.
Once(list, P) ==
    /\ \A e \in DOMAIN list : list[e].systems \subseteq P
    /\ \A i \in P : \E e \in DOMAIN list : i \in list[e].systems
    /\ \A e, f \in DOMAIN list : \A i \in list[e].systems : i \in list[f].systems => e = f

\* A Satellite's entry names hosts of that Satellite and organization only.
Kept(entry) ==
    entry.type = "satellite" =>
        \A i \in entry.systems : <<details[i].instance[1], details[i].org[1]>> = entry.sat
AllKept(list) == \A e \in DOMAIN list : Kept(list[e])

\* Inventory names no host twice, and only hosts that were asked for.
FoundOnce ==
    /\ \A i, j \in DOMAIN found : found[i] = found[j] => i = j
    /\ Len(found) <= Len(asked.hosts)

DetailsOfFound ==
    details # <<>> =>
        /\ details = GetHostConnectionDetails
        /\ \A i \in DOMAIN found : Inventory[found[i]].facts # <<>>

Sourced == {k \in DOMAIN groups : groups[k].rhc # <<>>}
HostsOf(keys) == {i \in Sat : satInstanceAndOrg(details[i]) \in keys}

\* Nothing is put together before the hosts are sorted.
Early ==
    /\ step \in {"read", "hosts", "profiles"} => details = <<>>
    /\ step \in {"read", "hosts", "profiles", "sort"} =>
         groups = <<>> /\ partial = [satellite |-> <<>>, direct |-> <<>>, none |-> <<>>]

\* How far the three lists are, unless a question failed.
Underway ==
    /\ step \in {"sources", "satellites", "direct"} => Grouped(groups) /\ Once(partial.none, NoOne)
    /\ step = "sources" => partial.satellite = <<>> /\ partial.direct = <<>>
    /\ step = "satellites" =>
         /\ todo \subseteq Sourced
         /\ Once(partial.satellite, HostsOf(Sourced \ todo))
         /\ partial.direct = <<>>
    /\ step = "direct" =>
         /\ committed = 0 => Once(partial.satellite, HostsOf(Sourced))
         /\ Once(partial.direct, Direct \ directHosts)

\* An answer is not sent twice, and a failed question has committed a status.
NotYet ==
    /\ step # "done" => committed \in {0, 500} /\ body = <<>>
    /\ step = "answer" => committed = 500

KeptApart == AllKept(partial.satellite) /\ AllKept(partial.direct) /\ AllKept(partial.none) /\ AllKept(body)

Divided ==
    answeredFully => Once(body, DOMAIN details \ unsourced) /\ unsourced \subseteq Sat

HostsInv ==
    /\ FoundOnce /\ DetailsOfFound /\ Early /\ Underway /\ NotYet /\ KeptApart /\ Divided

\* The request lists ids at positions 1, 2, ...
LEMMA RequestShape ==
    ASSUME asked \in HostRequests
    PROVE  Len(asked.hosts) \in Nat /\ DOMAIN asked.hosts = 1..Len(asked.hosts)
BY InventoryAssumption

\* A list of what was asked for that inventory still has, in any order.
LEMMA FoundIs ==
    ASSUME NEW S, IsFiniteSet(S), NEW f \in SetToSeqs(S)
    PROVE  /\ f \in Seq(S) /\ Len(f) = Cardinality(S) /\ DOMAIN f = 1..Len(f)
           /\ \A i, j \in DOMAIN f : f[i] = f[j] => i = j
<1>1. Cardinality(S) \in Nat
  BY FS_CardinalityType
<1>2. f \in [1..Cardinality(S) -> S] /\ \A i, j \in 1..Cardinality(S) : i # j => f[i] # f[j]
  BY Zenon DEF SetToSeqs
<1> QED BY <1>1, <1>2

LEMMA AskedFinite ==
    ASSUME asked \in HostRequests, NEW K
    PROVE  LET S == {asked.hosts[i] : i \in DOMAIN asked.hosts} \cap K
           IN  IsFiniteSet(S) /\ Cardinality(S) <= Len(asked.hosts)
<1> DEFINE n == Len(asked.hosts)
           T == {asked.hosts[i] : i \in 1..n}
           S == T \cap K
           g == [i \in 1..n |-> asked.hosts[i]]
<1>1. n \in Nat /\ DOMAIN asked.hosts = 1..n
  BY RequestShape
<1>2. IsFiniteSet(1..n) /\ Cardinality(1..n) = n
  <2> HIDE DEF n
  <2> QED BY <1>1, FS_Interval
<1>3. g \in Surjection(1..n, T)
  BY DEF Surjection
<1>4. IsFiniteSet(T) /\ Cardinality(T) <= n
  <2> HIDE DEF g, T, n
  <2> QED BY <1>2, <1>3, FS_Surjection
<1>5. IsFiniteSet(S) /\ Cardinality(S) <= Cardinality(T)
  <2> HIDE DEF T
  <2> QED BY <1>4, FS_Subset
<1>6. Cardinality(S) \in Nat /\ Cardinality(T) \in Nat
  <2> HIDE DEF S, T
  <2> QED BY <1>4, <1>5, FS_CardinalityType
<1>7. Cardinality(S) <= n
  <2> HIDE DEF S, T, n
  <2> QED BY <1>1, <1>4, <1>5, <1>6
<1> HIDE DEF n
<1> QED BY <1>1, <1>5, <1>7, Zenon DEF n

\* The three outcomes of a question, for either list.
LEMMA AskSatellite ==
    ASSUME StatusTypes, NEW org, NEW entry, NEW next,
           entry.sat \in Seq(Seq(Int)), entry.rhc \in Pointer(ClientId), entry.systems \in SUBSET Nat,
           entry.type \in RecipientType, ask(org, entry, "satellite", next)
    PROVE  \/ Stopped
           \/ /\ step' = next /\ committed' = 500 /\ failed' = TRUE /\ UNCHANGED body
              /\ partial' = [satellite |-> <<>>, direct |-> partial.direct, none |-> partial.none]
           \/ /\ UNCHANGED <<step, failed, committed, body>>
              /\ \E x \in Info :
                   /\ x.systems = entry.systems /\ x.type = entry.type /\ x.sat = entry.sat
                   /\ partial' = [satellite |-> Append(partial.satellite, x), direct |-> partial.direct,
                                  none |-> partial.none]
<1>1. partial \in [satellite : Seq(Info), direct : Seq(Info), none : Seq(Info)]
  BY DEF StatusTypes
<1>2. CASE Stopped
  BY <1>2
<1>3. CASE /\ step' = next /\ committed' = 500 /\ failed' = TRUE
           /\ partial' = [partial EXCEPT !["satellite"] = <<>>]
           /\ UNCHANGED body
  <2>1. partial' = [satellite |-> <<>>, direct |-> partial.direct, none |-> partial.none]
    BY <1>1, <1>3
  <2> QED BY <1>3, <2>1
<1>4. ASSUME NEW r \in {"connected", "disconnected"},
             partial' = [partial EXCEPT !["satellite"] = Append(partial["satellite"],
               formatConnectionResponse(entry.sat, entry.rhc, entry.systems, entry.type, r))]
      PROVE  \E x \in Info :
                   /\ x.systems = entry.systems /\ x.type = entry.type /\ x.sat = entry.sat
                   /\ partial' = [satellite |-> Append(partial.satellite, x), direct |-> partial.direct,
                                  none |-> partial.none]
  <2> DEFINE x == formatConnectionResponse(entry.sat, entry.rhc, entry.systems, entry.type, r)
  <2>1. x \in Info /\ x.systems = entry.systems /\ x.type = entry.type /\ x.sat = entry.sat
    BY FormatTyped
  <2>2. partial' = [partial EXCEPT !["satellite"] = Append(partial["satellite"], x)]
    BY <1>4
  <2> HIDE DEF x
  <2>3. partial' = [satellite |-> Append(partial.satellite, x), direct |-> partial.direct,
                    none |-> partial.none]
    BY <1>1, <2>2
  <2> QED BY <2>1, <2>3
<1>5. \/ Stopped
      \/ /\ step' = next /\ committed' = 500 /\ failed' = TRUE
         /\ partial' = [partial EXCEPT !["satellite"] = <<>>]
         /\ UNCHANGED body
      \/ /\ \E r \in {"connected", "disconnected"} :
              partial' = [partial EXCEPT !["satellite"] = Append(partial["satellite"],
                formatConnectionResponse(entry.sat, entry.rhc, entry.systems, entry.type, r))]
         /\ UNCHANGED <<step, failed, committed, body>>
  BY AskCases, Zenon
<1> QED BY <1>2, <1>3, <1>4, <1>5, Zenon

LEMMA AskDirect ==
    ASSUME StatusTypes, NEW org, NEW entry, NEW next,
           entry.sat \in Seq(Seq(Int)), entry.rhc \in Pointer(ClientId), entry.systems \in SUBSET Nat,
           entry.type \in RecipientType, ask(org, entry, "direct", next)
    PROVE  \/ Stopped
           \/ /\ step' = next /\ committed' = 500 /\ failed' = TRUE /\ UNCHANGED body
              /\ partial' = [satellite |-> partial.satellite, direct |-> <<>>, none |-> partial.none]
           \/ /\ UNCHANGED <<step, failed, committed, body>>
              /\ \E x \in Info :
                   /\ x.systems = entry.systems /\ x.type = entry.type /\ x.sat = entry.sat
                   /\ partial' = [satellite |-> partial.satellite, direct |-> Append(partial.direct, x),
                                  none |-> partial.none]
<1>1. partial \in [satellite : Seq(Info), direct : Seq(Info), none : Seq(Info)]
  BY DEF StatusTypes
<1>2. CASE Stopped
  BY <1>2
<1>3. CASE /\ step' = next /\ committed' = 500 /\ failed' = TRUE
           /\ partial' = [partial EXCEPT !["direct"] = <<>>]
           /\ UNCHANGED body
  <2>1. partial' = [satellite |-> partial.satellite, direct |-> <<>>, none |-> partial.none]
    BY <1>1, <1>3
  <2> QED BY <1>3, <2>1
<1>4. ASSUME NEW r \in {"connected", "disconnected"},
             partial' = [partial EXCEPT !["direct"] = Append(partial["direct"],
               formatConnectionResponse(entry.sat, entry.rhc, entry.systems, entry.type, r))]
      PROVE  \E x \in Info :
                   /\ x.systems = entry.systems /\ x.type = entry.type /\ x.sat = entry.sat
                   /\ partial' = [satellite |-> partial.satellite, direct |-> Append(partial.direct, x),
                                  none |-> partial.none]
  <2> DEFINE x == formatConnectionResponse(entry.sat, entry.rhc, entry.systems, entry.type, r)
  <2>1. x \in Info /\ x.systems = entry.systems /\ x.type = entry.type /\ x.sat = entry.sat
    BY FormatTyped
  <2>2. partial' = [partial EXCEPT !["direct"] = Append(partial["direct"], x)]
    BY <1>4
  <2> HIDE DEF x
  <2>3. partial' = [satellite |-> partial.satellite, direct |-> Append(partial.direct, x),
                    none |-> partial.none]
    BY <1>1, <2>2
  <2> QED BY <2>1, <2>3
<1>5. \/ Stopped
      \/ /\ step' = next /\ committed' = 500 /\ failed' = TRUE
         /\ partial' = [partial EXCEPT !["direct"] = <<>>]
         /\ UNCHANGED body
      \/ /\ \E r \in {"connected", "disconnected"} :
              partial' = [partial EXCEPT !["direct"] = Append(partial["direct"],
                formatConnectionResponse(entry.sat, entry.rhc, entry.systems, entry.type, r))]
         /\ UNCHANGED <<step, failed, committed, body>>
  BY AskCases, Zenon
<1> QED BY <1>2, <1>3, <1>4, <1>5, Zenon

\* What is known of a Satellite's client is set, and nothing else of its group.
LEMMA SourceSet ==
    ASSUME StatusTypes, getSourceInfo
    PROVE  \E k \in todo :
             /\ todo' = todo \ {k}
             /\ DOMAIN groups' = DOMAIN groups
             /\ groups' \in [DOMAIN groups -> Group]
             /\ \A j \in DOMAIN groups : /\ groups'[j].hosts = groups[j].hosts
                                         /\ groups'[j].instance = groups[j].instance
                                         /\ groups'[j].org = groups[j].org
<1>1. groups \in [DOMAIN groups -> Group] /\ todo \subseteq DOMAIN groups
  BY DEF StatusTypes, StatusTypeOK
<1>2. PICK k \in todo, r \in GetSourceConnectionDetails :
        groups' = [groups EXCEPT ![k].rhc = r.rhc] /\ todo' = todo \ {k}
  BY DEF getSourceInfo
<1>3. r.rhc \in Pointer(ClientId)
  BY SourceTyped
<1> DEFINE c == r.rhc
<1>4. groups' = [groups EXCEPT ![k].rhc = c] /\ c \in Pointer(ClientId)
  BY <1>2, <1>3
<1> HIDE DEF c
<1>5. k \in DOMAIN groups /\ groups[k] \in Group
  BY <1>1
<1>6. [groups[k] EXCEPT !.rhc = c] =
        [instance |-> groups[k].instance, org |-> groups[k].org, hosts |-> groups[k].hosts, rhc |-> c]
  BY <1>5 DEF Group
<1> DEFINE g == [instance |-> groups[k].instance, org |-> groups[k].org, hosts |-> groups[k].hosts, rhc |-> c]
<1>7. g \in Group /\ g.instance = groups[k].instance /\ g.org = groups[k].org /\ g.hosts = groups[k].hosts
  BY <1>4, <1>5 DEF Group
<1>8. groups' = [groups EXCEPT ![k] = g]
  BY <1>4, <1>6
<1> HIDE DEF g
<1>9. /\ DOMAIN groups' = DOMAIN groups /\ groups' \in [DOMAIN groups -> Group]
      /\ \A j \in DOMAIN groups : groups'[j] = IF j = k THEN g ELSE groups[j]
  BY <1>1, <1>5, <1>7, <1>8
<1>10. \A j \in DOMAIN groups : /\ groups'[j].hosts = groups[j].hosts
                                /\ groups'[j].instance = groups[j].instance
                                /\ groups'[j].org = groups[j].org
  BY <1>7, <1>9
<1> QED BY <1>2, <1>9, <1>10

\* The next directly connected host is one of them.
LEMMA NextDirect ==
    ASSUME StatusTypes, directHosts # {}
    PROVE  /\ Min(directHosts) \in directHosts /\ Min(directHosts) \in Direct
           /\ Min(directHosts) \in Nat
           /\ details[Min(directHosts)].rhc \in Pointer(ClientId)
<1>1. details \in Seq(HostDetail)
  BY DEF StatusTypes
<1>2. directHosts \subseteq Direct
  BY SortedIs DEF directHosts
<1>3. Direct \in SUBSET Nat
  BY <1>1 DEF Direct
<1>4. Min(directHosts) \in directHosts
  BY <1>2, <1>3, MinOf
<1>5. Min(directHosts) \in DOMAIN details
  BY <1>2, <1>4 DEF Direct
<1> DEFINE n == Min(directHosts)
<1> HIDE DEF n
<1>6. details[n] \in HostDetail
  BY <1>1, <1>5 DEF n
<1>7. details[n].rhc \in Pointer(ClientId)
  BY <1>6 DEF HostDetail
<1> QED BY <1>2, <1>3, <1>4, <1>7 DEF n

\* A client id names the recipient a question is about.
LEMMA SatelliteEntry ==
    ASSUME StatusTypes, NEW k \in todo
    PROVE  /\ k \in DOMAIN groups /\ groups[k] \in Group
           /\ <<groups[k].instance, groups[k].org>> \in Seq(Seq(Int))
           /\ groups[k].rhc \in Pointer(ClientId) /\ groups[k].hosts \in SUBSET Nat
<1>1. k \in DOMAIN groups /\ groups[k] \in Group
  BY DEF StatusTypes, StatusTypeOK
<1>2. /\ groups[k].instance \in Seq(Int) /\ groups[k].org \in Seq(Int)
      /\ groups[k].rhc \in Pointer(ClientId) /\ groups[k].hosts \in SUBSET Nat
  BY <1>1 DEF Group
<1>3. <<groups[k].instance, groups[k].org>> \in Seq(Seq(Int))
  <2> DEFINE T == Seq(Int)
             a == groups[k].instance
             b == groups[k].org
  <2>1. a \in T /\ b \in T
    BY <1>2
  <2> HIDE DEF T, a, b
  <2>2. <<a, b>> \in Seq(T)
    BY <2>1
  <2> QED BY <2>2 DEF T, a, b
<1> QED BY <1>1, <1>2, <1>3

\* The steps that ask about a Satellite and about a directly connected host.
LEMMA AskedSatellite ==
    ASSUME StatusTypes, createSatelliteConnectionResponses
    PROVE  /\ UNCHANGED <<asked, known, found, details, groups>>
           /\ step = "satellites"
           /\ \E k \in todo :
                /\ todo' = todo \ {k}
                /\ \/ Stopped
                   \/ /\ step' = "direct" /\ committed' = 500 /\ failed' = TRUE /\ UNCHANGED body
                      /\ partial' = [satellite |-> <<>>, direct |-> partial.direct, none |-> partial.none]
                   \/ /\ UNCHANGED <<step, failed, committed, body>>
                      /\ \E x \in Info :
                           /\ x.systems = groups[k].hosts
                           /\ x.sat = <<groups[k].instance, groups[k].org>>
                           /\ partial' = [satellite |-> Append(partial.satellite, x),
                                          direct |-> partial.direct, none |-> partial.none]
<1> DEFINE about(k) == [sat |-> <<groups[k].instance, groups[k].org>>, rhc |-> groups[k].rhc,
                        systems |-> groups[k].hosts, type |-> "satellite"]
<1>1. PICK k \in todo : ask(groups[k].org, about(k), "satellite", "direct") /\ todo' = todo \ {k}
  BY DEF createSatelliteConnectionResponses
<1>2. /\ about(k).sat = <<groups[k].instance, groups[k].org>> /\ about(k).rhc = groups[k].rhc
      /\ about(k).systems = groups[k].hosts /\ about(k).type = "satellite"
  OBVIOUS
<1> HIDE DEF about
<1>3. /\ about(k).sat \in Seq(Seq(Int)) /\ about(k).rhc \in Pointer(ClientId)
      /\ about(k).systems \in SUBSET Nat /\ about(k).type \in RecipientType
  <2>1. "satellite" \in RecipientType
    BY DEF RecipientType
  <2> QED BY <1>2, <2>1, SatelliteEntry, Zenon
<1>4. \/ Stopped
      \/ /\ step' = "direct" /\ committed' = 500 /\ failed' = TRUE /\ UNCHANGED body
         /\ partial' = [satellite |-> <<>>, direct |-> partial.direct, none |-> partial.none]
      \/ /\ UNCHANGED <<step, failed, committed, body>>
         /\ \E x \in Info :
              /\ x.systems = about(k).systems /\ x.type = about(k).type /\ x.sat = about(k).sat
              /\ partial' = [satellite |-> Append(partial.satellite, x), direct |-> partial.direct,
                             none |-> partial.none]
  BY <1>1, <1>3, AskSatellite, Zenon
<1>5. UNCHANGED <<asked, known, found, details, groups>> /\ step = "satellites"
  BY DEF createSatelliteConnectionResponses, upstream
<1> QED BY <1>1, <1>2, <1>4, <1>5, Zenon

LEMMA AskedDirect ==
    ASSUME StatusTypes, getDirectConnectStatus
    PROVE  /\ UNCHANGED <<asked, known, found, details, groups, todo>>
           /\ step = "direct" /\ directHosts # {}
           /\ \/ Stopped
              \/ /\ step' = "answer" /\ committed' = 500 /\ failed' = TRUE /\ UNCHANGED body
                 /\ partial' = [satellite |-> partial.satellite, direct |-> <<>>, none |-> partial.none]
              \/ /\ UNCHANGED <<step, failed, committed, body>>
                 /\ \E x \in Info :
                      /\ x.systems = {Min(directHosts)} /\ x.type = "directConnect"
                      /\ partial' = [satellite |-> partial.satellite, direct |-> Append(partial.direct, x),
                                     none |-> partial.none]
<1> DEFINE n == Min(directHosts)
           about == [sat |-> <<>>, rhc |-> details[n].rhc, systems |-> {n}, type |-> "directConnect"]
<1>1. ask(asked.org, about, "direct", "answer") /\ directHosts # {} /\ step = "direct"
  BY DEF getDirectConnectStatus
<1>2. /\ about.sat = <<>> /\ about.rhc = details[n].rhc
      /\ about.systems = {n} /\ about.type = "directConnect"
  OBVIOUS
<1>3. n \in Nat /\ details[n].rhc \in Pointer(ClientId)
  BY <1>1, NextDirect
<1> HIDE DEF about, n
<1>4. /\ about.sat \in Seq(Seq(Int)) /\ about.rhc \in Pointer(ClientId)
      /\ about.systems \in SUBSET Nat /\ about.type \in RecipientType
  <2>1. "directConnect" \in RecipientType /\ <<>> \in Seq(Seq(Int)) /\ {n} \in SUBSET Nat
    BY <1>3 DEF RecipientType
  <2> QED BY <1>2, <1>3, <2>1, Zenon
<1>5. \/ Stopped
      \/ /\ step' = "answer" /\ committed' = 500 /\ failed' = TRUE /\ UNCHANGED body
         /\ partial' = [satellite |-> partial.satellite, direct |-> <<>>, none |-> partial.none]
      \/ /\ UNCHANGED <<step, failed, committed, body>>
         /\ \E x \in Info :
              /\ x.systems = about.systems /\ x.type = about.type /\ x.sat = about.sat
              /\ partial' = [satellite |-> partial.satellite, direct |-> Append(partial.direct, x),
                             none |-> partial.none]
  BY <1>1, <1>4, AskDirect, Zenon
<1>6. UNCHANGED <<asked, known, found, details, groups, todo>>
  BY DEF getDirectConnectStatus, upstream
<1> QED BY <1>1, <1>2, <1>5, <1>6, Zenon DEF n

\* What is known of the host at a position.
LEMMA DetailOf ==
    ASSUME StatusTypes, DetailsOfFound, NEW i \in DOMAIN details
    PROVE  /\ i \in Nat /\ details[i] \in HostDetail /\ i \in DOMAIN asked.hosts
           /\ i > Len(found) => details[i].id = NoId /\ details[i].instance = <<>>
           /\ ~(i > Len(found)) =>
                /\ i \in DOMAIN found /\ details[i].id = found[i]
                /\ details[i].instance = getSatelliteFacts(Inventory[found[i]].facts[1]).instance
<1>1. details \in Seq(HostDetail) /\ found \in Seq(DOMAIN Inventory) /\ asked \in HostRequests
  BY DEF StatusTypes
<1>2. i \in Nat /\ i >= 1 /\ details[i] \in HostDetail /\ details # <<>>
  BY <1>1
<1>3. details = GetHostConnectionDetails
  BY <1>2 DEF DetailsOfFound
<1>4. i \in DOMAIN asked.hosts
  BY <1>3 DEF GetHostConnectionDetails
<1>5. ASSUME i > Len(found) PROVE details[i].id = NoId /\ details[i].instance = <<>>
  <2>1. details[i] = noDetails
    BY <1>3, <1>4, <1>5, DetailsAt
  <2> QED BY <2>1 DEF noDetails
<1>6. ASSUME ~(i > Len(found))
      PROVE  /\ i \in DOMAIN found /\ details[i].id = found[i]
             /\ details[i].instance = getSatelliteFacts(Inventory[found[i]].facts[1]).instance
  <2> DEFINE fs == getSatelliteFacts(Inventory[found[i]].facts[1])
  <2>1. i \in DOMAIN found
    BY <1>1, <1>2, <1>6
  <2>2. details[i] = [id |-> found[i], instance |-> fs.instance, org |-> fs.org,
                      rhc |-> Inventory[found[i]].rhc]
    BY <1>3, <1>4, <1>6, DetailsAt
  <2> HIDE DEF fs
  <2>3. details[i].id = found[i] /\ details[i].instance = fs.instance
    BY <2>2
  <2> QED BY <2>1, <2>3 DEF fs
<1> QED BY <1>2, <1>4, <1>5, <1>6

\* The instances of two hosts of Satellites have the same length.
LEMMA SameLength ==
    ASSUME StatusTypes, DetailsOfFound, NEW i \in Sat, NEW j \in Sat
    PROVE  Len(details[i].instance[1]) = Len(details[j].instance[1])
<1> DEFINE inst(h) == getSatelliteFacts(Inventory[h].facts[1]).instance
<1>1. ASSUME NEW k \in Sat
      PROVE  /\ k \in DOMAIN found /\ found[k] \in DOMAIN Inventory
             /\ Inventory[found[k]].facts # <<>>
             /\ details[k].instance = inst(found[k]) /\ inst(found[k]) # <<>>
  <2>1. k \in DOMAIN details /\ details[k].instance # <<>> /\ details # <<>>
    BY DEF Sat
  <2>2. k \in DOMAIN found /\ details[k].instance = inst(found[k])
    BY <2>1, DetailOf
  <2>3. Inventory[found[k]].facts # <<>>
    BY <2>1, <2>2 DEF DetailsOfFound
  <2>4. found[k] \in DOMAIN Inventory
    BY <2>2 DEF StatusTypes
  <2> QED BY <2>1, <2>2, <2>3, <2>4, Zenon
<1>2. \A g, h \in DOMAIN Inventory :
        Inventory[g].facts # <<>> /\ Inventory[h].facts # <<>> =>
            (inst(g) # <<>> /\ inst(h) # <<>> => Len(inst(g)[1]) = Len(inst(h)[1]))
  BY InstanceAssumption, Zenon
<1> HIDE DEF inst
<1>3. Len(inst(found[i])[1]) = Len(inst(found[j])[1])
  BY <1>1, <1>2, Zenon
<1>4. details[i].instance = inst(found[i]) /\ details[j].instance = inst(found[j])
  BY <1>1
<1> QED BY <1>3, <1>4, Zenon

\* The entry of the hosts that nobody connects.
noneList == IF NoOne = {} THEN <<>> ELSE <<getRHCStatus(NoOne)>>

LEMMA NoneList ==
    ASSUME StatusTypes
    PROVE  noneList \in Seq(Info) /\ Once(noneList, NoOne) /\ AllKept(noneList)
<1>1. NoOne \in SUBSET Nat
  BY DEF NoOne, StatusTypes
<1>2. CASE NoOne = {}
  <2>1. noneList = <<>>
    BY <1>2 DEF noneList
  <2> QED BY <1>2, <2>1 DEF Once, AllKept
<1>3. CASE NoOne # {}
  <2> DEFINE x == getRHCStatus(NoOne)
  <2>1. noneList = <<x>>
    BY <1>3 DEF noneList
  <2>2. x \in Info /\ x.systems = NoOne /\ x.type = "none"
    <3>1. x = [sat |-> <<>>, recipient |-> ZeroUuid, systems |-> NoOne, type |-> "none",
               status |-> "rhc_not_configured"]
      BY DEF getRHCStatus, formatConnectionResponse
    <3>2. <<>> \in Seq(Seq(Int)) /\ "none" \in RecipientType
      BY DEF RecipientType
    <3> HIDE DEF x
    <3> QED BY <1>1, <3>1, <3>2 DEF Info, RecipientWithConnectionInfo
  <2> HIDE DEF x
  <2>3. DOMAIN <<x>> = {1} /\ <<x>>[1] = x
    OBVIOUS
  <2>4. Once(<<x>>, NoOne) /\ AllKept(<<x>>)
    BY <2>2, <2>3 DEF Once, AllKept, Kept
  <2>5. <<x>> \in Seq(Info)
    BY <2>2
  <2> QED BY <2>1, <2>4, <2>5
<1> QED BY <1>2, <1>3

LEMMA SortCases ==
    ASSUME StatusTypes, Sort
    PROVE  /\ UNCHANGED <<asked, known, found, details, said, failed>> /\ step = "sort"
           /\ partial' = [satellite |-> partial.satellite, direct |-> partial.direct, none |-> noneList]
           /\ \/ Sat = {} /\ Direct = {} /\ send(200, noneList) /\ UNCHANGED <<groups, todo>>
              \/ send(500, <<>>) /\ UNCHANGED <<groups, todo>>
              \/ /\ \A i \in Sat : details[i].org # <<>>
                 /\ groups' = groupHostsBySatellite(Sat) /\ todo' = DOMAIN groups'
                 /\ step' = "sources" /\ UNCHANGED <<committed, body>>
<1> DEFINE sorted == sortHostsByRecipient
           none == IF sorted.none = {} THEN <<>> ELSE <<getRHCStatus(sorted.none)>>
<1>1. sorted.satellite = Sat /\ sorted.direct = Direct /\ sorted.none = NoOne /\ none = noneList
  BY SortedIs DEF noneList
<1>2. /\ step = "sort"
      /\ partial' = [partial EXCEPT !.none = none]
      /\ IF sorted.satellite = {} /\ sorted.direct = {}
         THEN send(200, none) /\ UNCHANGED <<groups, todo>>
         ELSE IF \E i \in sorted.satellite : details[i].org = <<>>
         THEN send(500, <<>>) /\ UNCHANGED <<groups, todo>>
         ELSE /\ groups' = groupHostsBySatellite(sorted.satellite)
              /\ todo' = DOMAIN groups'
              /\ step' = "sources"
              /\ UNCHANGED <<committed, body>>
      /\ UNCHANGED <<upstream, found, details, said, failed>>
  BY Zenon DEF Sort
<1> HIDE DEF sorted, none
<1>3. partial' = [satellite |-> partial.satellite, direct |-> partial.direct, none |-> noneList]
  BY <1>1, <1>2 DEF StatusTypes
<1>4. \/ Sat = {} /\ Direct = {} /\ send(200, noneList) /\ UNCHANGED <<groups, todo>>
      \/ send(500, <<>>) /\ UNCHANGED <<groups, todo>>
      \/ /\ \A i \in Sat : details[i].org # <<>>
         /\ groups' = groupHostsBySatellite(Sat) /\ todo' = DOMAIN groups'
         /\ step' = "sources" /\ UNCHANGED <<committed, body>>
  BY <1>1, <1>2, Zenon
<1>5. UNCHANGED <<asked, known, found, details, said, failed>>
  BY <1>2 DEF upstream
<1> QED BY <1>2, <1>3, <1>4, <1>5

LEMMA HostsAsked ==
    ASSUME StatusTypes, FoundOnce, AskHosts
    PROVE  /\ UNCHANGED <<asked, known, details, groups, todo, partial, said, failed>>
           /\ step = "hosts"
           /\ found' \in Seq(DOMAIN Inventory) /\ FoundOnce'
           /\ \/ send(400, <<>>) \/ send(200, <<>>)
              \/ step' = "profiles" /\ UNCHANGED <<committed, body>>
<1> DEFINE S == {asked.hosts[i] : i \in DOMAIN asked.hosts} \cap known
<1>1. /\ UNCHANGED <<asked, known, details, groups, todo, partial, said, failed>> /\ step = "hosts"
      /\ UNCHANGED found \/ found' \in SetToSeqs(S)
      /\ \/ send(400, <<>>) \/ send(200, <<>>)
         \/ step' = "profiles" /\ UNCHANGED <<committed, body>>
  <2>1. UNCHANGED <<asked, known, details, groups, todo, partial, said, failed>> /\ step = "hosts"
    BY DEF AskHosts, upstream
  <2>2. PICK reply \in ServiceReply :
          CASE getHostDetails(reply) = "error" -> send(400, <<>>) /\ UNCHANGED found
            [] getHostDetails(reply) = "none" -> send(200, <<>>) /\ UNCHANGED found
            [] OTHER ->
                  /\ found' \in SetToSeqs(S)
                  /\ IF found' = <<>> THEN send(200, <<>>)
                     ELSE step' = "profiles" /\ UNCHANGED <<committed, body>>
    BY DEF AskHosts
  <2> HIDE DEF S
  <2>3. CASE getHostDetails(reply) = "error"
    BY <2>1, <2>2, <2>3
  <2>4. CASE getHostDetails(reply) = "none"
    BY <2>1, <2>2, <2>4
  <2>5. CASE getHostDetails(reply) # "none" /\ getHostDetails(reply) # "error"
    BY <2>1, <2>2, <2>5
  <2> QED BY <2>3, <2>4, <2>5
<1>2. asked \in HostRequests /\ known \subseteq DOMAIN Inventory /\ found \in Seq(DOMAIN Inventory)
  BY DEF StatusTypes, StatusTypeOK
<1>3. CASE UNCHANGED found
  BY <1>1, <1>2, <1>3 DEF FoundOnce
<1>4. CASE found' \in SetToSeqs(S)
  <2>1. IsFiniteSet(S) /\ Cardinality(S) <= Len(asked.hosts) /\ S \subseteq DOMAIN Inventory
    BY <1>2, AskedFinite
  <2> HIDE DEF S
  <2>2. /\ found' \in Seq(S) /\ Len(found') = Cardinality(S)
        /\ \A i, j \in DOMAIN found' : found'[i] = found'[j] => i = j
    BY <1>4, <2>1, FoundIs
  <2>3. found' \in Seq(DOMAIN Inventory)
    BY <2>1, <2>2
  <2>4. FoundOnce'
    BY <1>1, <2>1, <2>2 DEF FoundOnce
  <2> QED BY <1>1, <2>3, <2>4
<1> QED BY <1>1, <1>3, <1>4

LEMMA ProfilesAsked ==
    ASSUME StatusTypes, AskProfiles
    PROVE  /\ UNCHANGED <<asked, known, found, groups, todo, partial, said, failed>>
           /\ step = "profiles"
           /\ \/ (send(400, <<>>) \/ send(500, <<>>)) /\ UNCHANGED details
              \/ /\ details' = GetHostConnectionDetails /\ details' \in Seq(HostDetail)
                 /\ \A i \in DOMAIN found : Inventory[found[i]].facts # <<>>
                 /\ step' = "sort" /\ UNCHANGED <<committed, body>>
<1>1. UNCHANGED <<asked, known, found, groups, todo, partial, said, failed>> /\ step = "profiles"
  BY DEF AskProfiles, upstream
<1>2. \/ (send(400, <<>>) \/ send(500, <<>>)) /\ UNCHANGED details
      \/ /\ details' = GetHostConnectionDetails /\ ~detailsPanic(known)
         /\ step' = "sort" /\ UNCHANGED <<committed, body>>
  BY Zenon DEF AskProfiles
<1>3. ASSUME ~detailsPanic(known)
      PROVE  /\ GetHostConnectionDetails \in Seq(HostDetail)
             /\ \A i \in DOMAIN found : Inventory[found[i]].facts # <<>>
  <2>1. \A i \in DOMAIN found : Inventory[found[i]].facts # <<>>
    BY <1>3 DEF detailsPanic
  <2>2. asked \in HostRequests /\ found \in Seq(DOMAIN Inventory)
    BY DEF StatusTypes
  <2> QED BY <2>1, <2>2, RequestShape, DetailsTyped
<1> QED BY <1>1, <1>2, <1>3

LEMMA ConcatTyped ==
    ASSUME StatusTypes
    PROVE  concatResponses \in Seq(Info)
<1>1. partial.satellite \in Seq(Info) /\ partial.direct \in Seq(Info) /\ partial.none \in Seq(Info)
  BY DEF StatusTypes
<1>2. \A a, b \in Seq(Info) : a \o b \in Seq(Info)
  BY ConcatParts
<1> QED BY <1>1, <1>2, Zenon DEF concatResponses

\* A status written keeps the types.
LEMMA SendTyped ==
    ASSUME StatusTypes, NEW s \in {200, 400, 500}, NEW list \in Seq(Info), send(s, list)
    PROVE  step' = "done" /\ committed' \in {0, 200, 400, 500} /\ body' \in Seq(Info)
BY DEF send, StatusTypes, StatusTypeOK

LEMMA TypesNext ==
    ASSUME StatusTypes, FoundOnce, DetailsOfFound, [StatusNext]_statusVars
    PROVE  StatusTypes'
<1> DEFINE L == [satellite : Seq(Info), direct : Seq(Info), none : Seq(Info)]
           Rest == UNCHANGED <<asked, known, found, details, groups, todo, partial, failed>>
<1>1. /\ known \subseteq DOMAIN Inventory
      /\ step \in {"read", "hosts", "profiles", "sort", "sources", "satellites", "direct",
                   "answer", "done"}
      /\ todo \subseteq DOMAIN groups
      /\ failed \in BOOLEAN
      /\ committed \in {0, 200, 400, 500}
      /\ body \in Seq(Info)
      /\ asked \in HostRequests
      /\ found \in Seq(DOMAIN Inventory)
      /\ details \in Seq(HostDetail)
      /\ groups \in [DOMAIN groups -> Group]
      /\ partial \in L
  BY DEF StatusTypes, StatusTypeOK, Info
<1>2. /\ partial.satellite \in Seq(Info) /\ partial.direct \in Seq(Info) /\ partial.none \in Seq(Info)
      /\ <<>> \in Seq(Info)
      /\ \A a, b, c \in Seq(Info) : [satellite |-> a, direct |-> b, none |-> c] \in L
      /\ \A a \in Seq(Info) : \A x \in Info : Append(a, x) \in Seq(Info)
  BY <1>1
<1> DEFINE Sends == \E s \in {200, 400, 500}, list \in Seq(Info) : send(s, list)
           Goes == /\ step' \in {"read", "hosts", "profiles", "sort", "sources", "satellites",
                                 "direct", "answer", "done"}
                   /\ committed' \in {0, 200, 400, 500} /\ body' \in Seq(Info)
<1>3. ASSUME Sends PROVE Goes
  <2>1. PICK s \in {200, 400, 500}, list \in Seq(Info) : send(s, list)
    BY <1>3
  <2> QED BY <2>1, SendTyped
<1>4. send(400, <<>>) \/ send(200, <<>>) \/ send(500, <<>>) => Sends
  <2>1. ASSUME NEW s \in {200, 400, 500}, send(s, <<>>) PROVE Sends
    BY <1>2, <2>1
  <2> HIDE DEF Sends
  <2>2. send(400, <<>>) => Sends
    BY <2>1
  <2>3. send(200, <<>>) => Sends
    BY <2>1
  <2>4. send(500, <<>>) => Sends
    BY <2>1
  <2> QED BY <2>2, <2>3, <2>4
<1> DEFINE Typed == /\ known' \subseteq DOMAIN Inventory /\ asked' \in HostRequests
                    /\ found' \in Seq(DOMAIN Inventory) /\ details' \in Seq(HostDetail)
                    /\ groups' \in [DOMAIN groups' -> Group] /\ todo' \subseteq DOMAIN groups'
                    /\ failed' \in BOOLEAN /\ partial' \in L
<1>5. SUFFICES Goes /\ Typed
  BY DEF StatusTypes, StatusTypeOK, Info
<1>6. ASSUME UNCHANGED <<committed, body>>, step' \in {"read", "hosts", "profiles", "sort", "sources",
                                                      "satellites", "direct", "answer", "done"}
      PROVE  Goes
  BY <1>1, <1>6
<1>7. ASSUME Rest PROVE Typed
  BY <1>1, <1>7
<1>8. ASSUME Stopped PROVE Goes /\ partial' \in L /\ failed' \in BOOLEAN
  BY <1>1, <1>3, <1>4, <1>8 DEF Stopped
<1> HIDE DEF L, Sends
<1>10. CASE ReadRequest
  <2>1. Rest /\ (send(400, <<>>) \/ (step' = "hosts" /\ UNCHANGED <<committed, body>>))
    BY <1>10 DEF ReadRequest, upstream, parts
  <2> QED BY <1>3, <1>4, <1>6, <1>7, <2>1
<1>11. CASE AskHosts
  <2>1. /\ UNCHANGED <<asked, known, details, groups, todo, partial, failed>>
        /\ found' \in Seq(DOMAIN Inventory)
        /\ \/ send(400, <<>>) \/ send(200, <<>>)
           \/ step' = "profiles" /\ UNCHANGED <<committed, body>>
    BY <1>11, HostsAsked
  <2>2. Goes
    BY <1>3, <1>4, <1>6, <2>1
  <2> QED BY <1>1, <2>1, <2>2
<1>12. CASE AskProfiles
  <2>1. /\ UNCHANGED <<asked, known, found, groups, todo, partial, failed>>
        /\ \/ (send(400, <<>>) \/ send(500, <<>>)) /\ UNCHANGED details
           \/ /\ details' \in Seq(HostDetail)
              /\ step' = "sort" /\ UNCHANGED <<committed, body>>
    BY <1>12, ProfilesAsked
  <2>2. Goes
    BY <1>3, <1>4, <1>6, <2>1
  <2>3. details' \in Seq(HostDetail)
    BY <1>1, <2>1
  <2> QED BY <1>1, <2>1, <2>2, <2>3
<1>13. CASE Sort
  <2>1. /\ UNCHANGED <<asked, known, found, details, failed>>
        /\ partial' = [satellite |-> partial.satellite, direct |-> partial.direct, none |-> noneList]
        /\ \/ send(200, noneList) /\ UNCHANGED <<groups, todo>>
           \/ send(500, <<>>) /\ UNCHANGED <<groups, todo>>
           \/ /\ \A i \in Sat : details[i].org # <<>>
              /\ groups' = groupHostsBySatellite(Sat) /\ todo' = DOMAIN groups'
              /\ step' = "sources" /\ UNCHANGED <<committed, body>>
    BY <1>13, SortCases
  <2>2. noneList \in Seq(Info)
    BY NoneList
  <2>3. partial' \in L
    BY <1>2, <2>1, <2>2
  <2>4. Goes
    <3>1. send(200, noneList) => Sends
      BY <2>2 DEF Sends
    <3> QED BY <1>3, <1>4, <1>6, <2>1, <3>1
  <2>5. groups' \in [DOMAIN groups' -> Group] /\ todo' \subseteq DOMAIN groups'
    <3>1. CASE UNCHANGED <<groups, todo>>
      BY <1>1, <3>1
    <3>2. CASE /\ \A i \in Sat : details[i].org # <<>>
               /\ groups' = groupHostsBySatellite(Sat) /\ todo' = DOMAIN groups'
      <4>1. \A i, j \in Sat : Len(details[i].instance[1]) = Len(details[j].instance[1])
        BY SameLength
      <4> QED BY <1>1, <3>2, <4>1, GroupsFormed
    <3> QED BY <2>1, <3>1, <3>2
  <2> QED BY <1>1, <2>1, <2>3, <2>4, <2>5
<1>14. CASE getSourceInfo
  <2>1. /\ UNCHANGED <<asked, known, found, details, partial, failed>>
        /\ send(500, <<>>) \/ UNCHANGED <<step, committed, body>>
    BY <1>14 DEF getSourceInfo, upstream
  <2>2. PICK k \in todo : /\ todo' = todo \ {k} /\ DOMAIN groups' = DOMAIN groups
                          /\ groups' \in [DOMAIN groups -> Group]
    BY <1>14, SourceSet
  <2>3. Goes
    BY <1>1, <1>3, <1>4, <1>6, <2>1
  <2> QED BY <1>1, <2>1, <2>2, <2>3
<1>15. CASE SourcesDone
  <2>1. /\ UNCHANGED <<asked, known, found, details, groups, partial, failed, committed, body>>
        /\ step' = "satellites" /\ todo' \subseteq DOMAIN groups
    BY <1>15 DEF SourcesDone, upstream
  <2> QED BY <1>1, <1>6, <2>1
<1>16. CASE createSatelliteConnectionResponses
  <2>1. PICK k \in todo :
             /\ todo' = todo \ {k}
             /\ \/ Stopped
                \/ /\ step' = "direct" /\ committed' = 500 /\ failed' = TRUE /\ UNCHANGED body
                   /\ partial' = [satellite |-> <<>>, direct |-> partial.direct, none |-> partial.none]
                \/ /\ UNCHANGED <<step, failed, committed, body>>
                   /\ \E x \in Info :
                        partial' = [satellite |-> Append(partial.satellite, x),
                                       direct |-> partial.direct, none |-> partial.none]
    BY <1>16, AskedSatellite, Zenon
  <2>2. UNCHANGED <<asked, known, found, details, groups>>
    BY <1>16, AskedSatellite
  <2>3. CASE Stopped
    BY <1>8, <2>2, <2>1, <2>3, <1>1
  <2>4. CASE /\ step' = "direct" /\ committed' = 500 /\ failed' = TRUE /\ UNCHANGED body
             /\ partial' = [satellite |-> <<>>, direct |-> partial.direct, none |-> partial.none]
    <3>1. partial' \in L
      BY <1>2, <2>4
    <3>2. Goes /\ failed' \in BOOLEAN
      BY <1>1, <2>4
    <3> QED BY <1>1, <2>1, <2>2, <3>1, <3>2
  <2>5. ASSUME UNCHANGED <<step, failed, committed, body>>, NEW x \in Info,
               partial' = [satellite |-> Append(partial.satellite, x), direct |-> partial.direct, none |-> partial.none]
        PROVE  Goes /\ Typed
    <3>1. partial' \in L
      BY <1>2, <2>5
    <3>2. Goes /\ failed' \in BOOLEAN
      BY <1>1, <2>5
    <3> QED BY <1>1, <2>1, <2>2, <3>1, <3>2
  <2> QED BY <2>1, <2>3, <2>4, <2>5
<1>17. CASE SatellitesDone
  <2>1. Rest /\ step' = "direct" /\ UNCHANGED <<committed, body>>
    BY <1>17 DEF SatellitesDone, upstream, parts
  <2> QED BY <1>6, <1>7, <2>1
<1>18. CASE getDirectConnectStatus
  <2>1. \/ Stopped
        \/ /\ step' = "answer" /\ committed' = 500 /\ failed' = TRUE /\ UNCHANGED body
           /\ partial' = [satellite |-> partial.satellite, direct |-> <<>>, none |-> partial.none]
        \/ /\ UNCHANGED <<step, failed, committed, body>>
           /\ \E x \in Info :
                partial' = [satellite |-> partial.satellite, direct |-> Append(partial.direct, x),
                            none |-> partial.none]
    BY <1>18, AskedDirect, Zenon
  <2>2. UNCHANGED <<asked, known, found, details, groups, todo>>
    BY <1>18, AskedDirect
  <2>3. CASE Stopped
    BY <1>8, <2>2, <2>1, <2>3, <1>1
  <2>4. CASE /\ step' = "answer" /\ committed' = 500 /\ failed' = TRUE /\ UNCHANGED body
             /\ partial' = [satellite |-> partial.satellite, direct |-> <<>>, none |-> partial.none]
    <3>1. partial' \in L
      BY <1>2, <2>4
    <3>2. Goes /\ failed' \in BOOLEAN
      BY <1>1, <2>4
    <3> QED BY <1>1, <2>1, <2>2, <3>1, <3>2
  <2>5. ASSUME UNCHANGED <<step, failed, committed, body>>, NEW x \in Info,
               partial' = [satellite |-> partial.satellite, direct |-> Append(partial.direct, x), none |-> partial.none]
        PROVE  Goes /\ Typed
    <3>1. partial' \in L
      BY <1>2, <2>5
    <3>2. Goes /\ failed' \in BOOLEAN
      BY <1>1, <2>5
    <3> QED BY <1>1, <2>1, <2>2, <3>1, <3>2
  <2> QED BY <2>1, <2>3, <2>4, <2>5
<1>19. CASE ApiInternalHighlevelConnectionStatus
  <2>1. Rest /\ send(200, concatResponses)
    BY <1>19 DEF ApiInternalHighlevelConnectionStatus, upstream, parts
  <2>2. Sends
    BY <2>1, ConcatTyped DEF Sends
  <2> QED BY <1>3, <1>7, <2>1, <2>2
<1>20. CASE DeleteHost
  <2>1. /\ UNCHANGED <<asked, step, found, details, groups, todo, partial, failed, committed, body>>
        /\ known' \subseteq known
    BY <1>20 DEF DeleteHost, parts
  <2> QED BY <1>1, <1>6, <2>1
<1>21. CASE UNCHANGED statusVars
  <2>1. Rest /\ UNCHANGED <<step, committed, body>>
    BY <1>21 DEF statusVars, upstream
  <2> QED BY <1>1, <1>6, <1>7, <2>1
<1> QED
  BY <1>10, <1>11, <1>12, <1>13, <1>14, <1>15, <1>16, <1>17, <1>18, <1>19, <1>20, <1>21
  DEF StatusNext, Handler

-----------------------------------------------------------------------------
(* The connection status of hosts: no step loses a host *)

LEMMA OnceAppend ==
    ASSUME NEW list \in Seq(Info), NEW x \in Info, NEW P, Once(list, P), P \cap x.systems = {}
    PROVE  Once(Append(list, x), P \cup x.systems)
<1> DEFINE new == Append(list, x)
           n == Len(list) + 1
<1>1. /\ n \in Nat /\ n \notin DOMAIN list
      /\ DOMAIN new = DOMAIN list \cup {n} /\ new[n] = x
      /\ \A e \in DOMAIN list : new[e] = list[e]
  OBVIOUS
<1> HIDE DEF new, n
<1>2. Once(new, P \cup x.systems)
  BY <1>1 DEF Once
<1> QED BY <1>2 DEF new

\* The positions of two lists joined are those of the first, then those of the
\* second moved by its length.
LEMMA ConcatDomain ==
    ASSUME NEW a \in Seq(Info), NEW b \in Seq(Info)
    PROVE  /\ a \o b \in Seq(Info)
           /\ \A e \in DOMAIN a : e \in DOMAIN (a \o b) /\ (a \o b)[e] = a[e]
           /\ \A e \in DOMAIN b : Len(a) + e \in DOMAIN (a \o b) /\ (a \o b)[Len(a) + e] = b[e]
           /\ \A e \in DOMAIN (a \o b) : e \in DOMAIN a \/ \E f \in DOMAIN b : e = Len(a) + f
           /\ \A e, f \in DOMAIN b : Len(a) + e = Len(a) + f => e = f
<1> DEFINE c == a \o b
<1>1. /\ c \in Seq(Info) /\ Len(c) = Len(a) + Len(b)
      /\ Len(a) \in Nat /\ Len(b) \in Nat
      /\ \A i \in 1..Len(a) : c[i] = a[i]
      /\ \A i \in 1..Len(b) : c[Len(a) + i] = b[i]
  BY ConcatParts
<1> HIDE DEF c
<1>2. DOMAIN a = 1..Len(a) /\ DOMAIN b = 1..Len(b) /\ DOMAIN c = 1..(Len(a) + Len(b))
  BY <1>1
<1>3. \A e \in DOMAIN a : e \in DOMAIN c /\ c[e] = a[e]
  BY <1>1, <1>2
<1>4. \A e \in DOMAIN b : Len(a) + e \in DOMAIN c /\ c[Len(a) + e] = b[e]
  BY <1>1, <1>2
<1>5. ASSUME NEW e \in DOMAIN c PROVE e \in DOMAIN a \/ \E f \in DOMAIN b : e = Len(a) + f
  <2>1. CASE e <= Len(a)
    BY <1>1, <1>2, <2>1
  <2>2. CASE ~(e <= Len(a))
    <3>1. e - Len(a) \in DOMAIN b /\ e = Len(a) + (e - Len(a))
      BY <1>1, <1>2, <2>2
    <3> QED BY <3>1
  <2> QED BY <2>1, <2>2
<1>6. \A e, f \in DOMAIN b : Len(a) + e = Len(a) + f => e = f
  BY <1>1, <1>2
<1> QED BY <1>1, <1>3, <1>4, <1>5, <1>6 DEF c

LEMMA OnceConcat ==
    ASSUME NEW a \in Seq(Info), NEW b \in Seq(Info), NEW P, NEW Q,
           Once(a, P), Once(b, Q), P \cap Q = {}
    PROVE  Once(a \o b, P \cup Q)
<1> DEFINE c == a \o b
           m(e) == Len(a) + e
<1>1. /\ \A e \in DOMAIN a : e \in DOMAIN c /\ c[e] = a[e]
      /\ \A e \in DOMAIN b : m(e) \in DOMAIN c /\ c[m(e)] = b[e]
      /\ \A e \in DOMAIN c : e \in DOMAIN a \/ \E f \in DOMAIN b : e = m(f)
  BY ConcatDomain
<1> HIDE DEF c, m
<1>2. /\ \A e \in DOMAIN a : a[e].systems \subseteq P
      /\ \A i \in P : \E e \in DOMAIN a : i \in a[e].systems
      /\ \A e, f \in DOMAIN a : \A i \in a[e].systems : i \in a[f].systems => e = f
  BY DEF Once
<1>3. /\ \A e \in DOMAIN b : b[e].systems \subseteq Q
      /\ \A i \in Q : \E e \in DOMAIN b : i \in b[e].systems
      /\ \A e, f \in DOMAIN b : \A i \in b[e].systems : i \in b[f].systems => e = f
  BY DEF Once
<1>4. ASSUME NEW e \in DOMAIN c PROVE c[e].systems \subseteq P \cup Q
  <2>1. CASE e \in DOMAIN a
    BY <1>1, <1>2, <2>1
  <2>2. ASSUME NEW f \in DOMAIN b, e = m(f) PROVE c[e].systems \subseteq P \cup Q
    BY <1>1, <1>3, <2>2
  <2> QED BY <1>1, <2>1, <2>2
<1>5. ASSUME NEW i \in P \cup Q PROVE \E e \in DOMAIN c : i \in c[e].systems
  <2>1. CASE i \in P
    <3>1. PICK e \in DOMAIN a : i \in a[e].systems
      BY <1>2, <2>1
    <3>2. e \in DOMAIN c /\ c[e] = a[e]
      BY <1>1
    <3> QED BY <3>1, <3>2
  <2>2. CASE i \in Q
    <3>1. PICK e \in DOMAIN b : i \in b[e].systems
      BY <1>3, <2>2
    <3>2. m(e) \in DOMAIN c /\ c[m(e)] = b[e]
      BY <1>1
    <3> QED BY <3>1, <3>2
  <2> QED BY <2>1, <2>2
<1>6. ASSUME NEW e \in DOMAIN c, NEW f \in DOMAIN c, NEW i \in c[e].systems, i \in c[f].systems
      PROVE  e = f
  <2>1. ASSUME NEW g \in DOMAIN c, i \in c[g].systems
        PROVE  \/ g \in DOMAIN a /\ i \in a[g].systems /\ i \in P
               \/ \E h \in DOMAIN b : g = m(h) /\ i \in b[h].systems /\ i \in Q
    <3>1. CASE g \in DOMAIN a
      BY <1>1, <1>2, <2>1, <3>1
    <3>2. CASE \E h \in DOMAIN b : g = m(h)
      BY <1>1, <1>3, <2>1, <3>2
    <3> QED BY <1>1, <3>1, <3>2
  <2>2. CASE i \in P
    <3>1. /\ e \in DOMAIN a /\ i \in a[e].systems
          /\ f \in DOMAIN a /\ i \in a[f].systems
      BY <1>6, <2>1, <2>2
    <3> QED BY <1>2, <3>1
  <2>3. CASE i \notin P
    <3>1. PICK h \in DOMAIN b : e = m(h) /\ i \in b[h].systems
      BY <2>1, <2>3
    <3>2. PICK k \in DOMAIN b : f = m(k) /\ i \in b[k].systems
      BY <1>6, <2>1, <2>3
    <3> QED BY <1>3, <3>1, <3>2
  <2> QED BY <2>2, <2>3
<1>7. Once(c, P \cup Q)
  BY <1>4, <1>5, <1>6 DEF Once
<1> QED BY <1>7 DEF c

LEMMA KeptConcat ==
    ASSUME NEW a \in Seq(Info), NEW b \in Seq(Info), AllKept(a), AllKept(b)
    PROVE  AllKept(a \o b)
<1> DEFINE c == a \o b
           m(e) == Len(a) + e
<1>1. /\ \A e \in DOMAIN a : e \in DOMAIN c /\ c[e] = a[e]
      /\ \A e \in DOMAIN b : m(e) \in DOMAIN c /\ c[m(e)] = b[e]
      /\ \A e \in DOMAIN c : e \in DOMAIN a \/ \E f \in DOMAIN b : e = m(f)
  BY ConcatDomain
<1> HIDE DEF c, m
<1>2. ASSUME NEW e \in DOMAIN c PROVE Kept(c[e])
  <2>1. CASE e \in DOMAIN a
    BY <1>1, <2>1 DEF AllKept
  <2>2. ASSUME NEW f \in DOMAIN b, e = m(f) PROVE Kept(c[e])
    BY <1>1, <2>2 DEF AllKept
  <2> QED BY <1>1, <2>1, <2>2
<1> QED BY <1>2 DEF AllKept, c

\* While the hosts stay as they were found, so does what is said of them.
LEMMA HostsStay ==
    ASSUME FoundOnce, DetailsOfFound, UNCHANGED <<asked, found, details>>
    PROVE  /\ FoundOnce' /\ DetailsOfFound'
           /\ Sat' = Sat /\ Direct' = Direct /\ NoOne' = NoOne
           /\ \A e : Kept(e)' <=> Kept(e)
<1>1. GetHostConnectionDetails' = GetHostConnectionDetails
  BY DEF GetHostConnectionDetails
<1>2. FoundOnce' /\ DetailsOfFound'
  BY <1>1 DEF FoundOnce, DetailsOfFound
<1>3. Sat' = Sat /\ Direct' = Direct /\ NoOne' = NoOne
  BY DEF Sat, Direct, NoOne
<1>4. \A e : Kept(e)' <=> Kept(e)
  BY DEF Kept
<1> QED BY <1>2, <1>3, <1>4

\* A request that ends without entries names no host.
LEMMA Ended ==
    ASSUME FoundOnce', DetailsOfFound', step' = "done", body' = <<>>,
           committed' # 200 \/ details' = <<>>,
           AllKept(partial.satellite)', AllKept(partial.direct)', AllKept(partial.none)'
    PROVE  HostsInv'
<1>1. Early' /\ Underway' /\ NotYet' /\ Divided'
  BY DEF Early, Underway, NotYet, Divided, answeredFully
<1>2. AllKept(body)'
  BY DEF AllKept
<1> QED BY <1>1, <1>2 DEF HostsInv, KeptApart

\* A handler that stops keeps what it has said.
LEMMA StopKeeps ==
    ASSUME HostsInv, step # "done", NEW s \in {400, 500}, send(s, <<>>),
           UNCHANGED <<asked, found, details, partial>>
    PROVE  HostsInv'
<1>1. FoundOnce' /\ DetailsOfFound' /\ \A e : Kept(e)' <=> Kept(e)
  BY HostsStay DEF HostsInv
<1>2. committed' # 200 /\ step' = "done" /\ body' = <<>>
  BY DEF send, HostsInv, NotYet
<1>3. AllKept(partial.satellite)' /\ AllKept(partial.direct)' /\ AllKept(partial.none)'
  BY <1>1 DEF HostsInv, KeptApart, AllKept
<1> QED BY <1>1, <1>2, <1>3, Ended

LEMMA ReadKeeps ==
    ASSUME HostsInv, ReadRequest
    PROVE  HostsInv'
<1>1. /\ step = "read" /\ UNCHANGED <<asked, found, details, groups, todo, partial>>
      /\ send(400, <<>>) \/ (step' = "hosts" /\ UNCHANGED <<committed, body>>)
  BY DEF ReadRequest, upstream, parts
<1>2. CASE send(400, <<>>)
  BY <1>1, <1>2, StopKeeps
<1>3. CASE step' = "hosts" /\ UNCHANGED <<committed, body>>
  <2>1. FoundOnce' /\ DetailsOfFound' /\ \A e : Kept(e)' <=> Kept(e)
    BY <1>1, HostsStay DEF HostsInv
  <2>2. KeptApart'
    BY <1>1, <1>3, <2>1 DEF HostsInv, KeptApart, AllKept
  <2>3. Early' /\ Underway' /\ NotYet' /\ Divided'
    BY <1>1, <1>3 DEF HostsInv, Early, Underway, NotYet, Divided, answeredFully
  <2> QED BY <2>1, <2>2, <2>3 DEF HostsInv
<1> QED BY <1>1, <1>2, <1>3

LEMMA HostsKeeps ==
    ASSUME StatusTypes, HostsInv, AskHosts
    PROVE  HostsInv'
<1>1. /\ UNCHANGED <<asked, details, groups, todo, partial>> /\ step = "hosts" /\ FoundOnce'
      /\ \/ send(400, <<>>) \/ send(200, <<>>)
         \/ step' = "profiles" /\ UNCHANGED <<committed, body>>
  BY HostsAsked DEF HostsInv
<1>2. details = <<>> /\ details' = <<>>
  BY <1>1 DEF HostsInv, Early
<1>3. DetailsOfFound'
  BY <1>2 DEF DetailsOfFound
<1>4. partial' = [satellite |-> <<>>, direct |-> <<>>, none |-> <<>>]
  BY <1>1 DEF HostsInv, Early
<1>5. AllKept(partial.satellite)' /\ AllKept(partial.direct)' /\ AllKept(partial.none)'
  BY <1>4 DEF AllKept
<1>6. CASE send(400, <<>>) \/ send(200, <<>>)
  <2>1. step' = "done" /\ body' = <<>>
    BY <1>6 DEF send
  <2> QED BY <1>1, <1>2, <1>3, <1>5, <2>1, Ended
<1>7. CASE step' = "profiles" /\ UNCHANGED <<committed, body>>
  <2>1. Early' /\ Underway' /\ NotYet' /\ Divided'
    BY <1>1, <1>7 DEF HostsInv, Early, Underway, NotYet, Divided, answeredFully
  <2>2. AllKept(body)'
    BY <1>1, <1>7 DEF HostsInv, NotYet, AllKept
  <2> QED BY <1>1, <1>3, <1>5, <2>1, <2>2 DEF HostsInv, KeptApart
<1> QED BY <1>1, <1>6, <1>7

LEMMA ProfilesKeeps ==
    ASSUME StatusTypes, HostsInv, AskProfiles
    PROVE  HostsInv'
<1>1. /\ UNCHANGED <<asked, found, groups, todo, partial>> /\ step = "profiles"
      /\ \/ (send(400, <<>>) \/ send(500, <<>>)) /\ UNCHANGED details
         \/ /\ details' = GetHostConnectionDetails
            /\ \A i \in DOMAIN found : Inventory[found[i]].facts # <<>>
            /\ step' = "sort" /\ UNCHANGED <<committed, body>>
  BY ProfilesAsked
<1>2. CASE (send(400, <<>>) \/ send(500, <<>>)) /\ UNCHANGED details
  BY <1>1, <1>2, StopKeeps
<1>3. CASE /\ details' = GetHostConnectionDetails
           /\ \A i \in DOMAIN found : Inventory[found[i]].facts # <<>>
           /\ step' = "sort" /\ UNCHANGED <<committed, body>>
  <2>1. GetHostConnectionDetails' = GetHostConnectionDetails
    BY <1>1 DEF GetHostConnectionDetails
  <2>2. FoundOnce' /\ DetailsOfFound'
    BY <1>1, <1>3, <2>1 DEF HostsInv, FoundOnce, DetailsOfFound
  <2>3. Early' /\ Underway' /\ NotYet' /\ Divided'
    BY <1>1, <1>3 DEF HostsInv, Early, Underway, NotYet, Divided, answeredFully
  <2>4. partial' = [satellite |-> <<>>, direct |-> <<>>, none |-> <<>>] /\ body' = <<>>
    BY <1>1, <1>3 DEF HostsInv, Early, NotYet
  <2>5. KeptApart'
    BY <2>4 DEF KeptApart, AllKept
  <2> QED BY <2>2, <2>3, <2>5 DEF HostsInv
<1> QED BY <1>1, <1>2, <1>3

\* Groups that differ in their clients only group the hosts as before.
LEMMA GroupedStays ==
    ASSUME NEW g, Grouped(g), UNCHANGED details, DOMAIN groups' = DOMAIN g,
           \A k \in DOMAIN g : /\ groups'[k].hosts = g[k].hosts
                               /\ groups'[k].instance = g[k].instance
                               /\ groups'[k].org = g[k].org
    PROVE  Grouped(groups)'
<1> DEFINE key(i) == satInstanceAndOrg(details[i])
<1>1. /\ \A i \in Sat : details[i].org # <<>>
      /\ DOMAIN g = {key(i) : i \in Sat}
      /\ \A k \in DOMAIN g :
           /\ g[k].hosts = {i \in Sat : key(i) = k}
           /\ \A i \in g[k].hosts : /\ details[i].instance[1] = g[k].instance
                                    /\ details[i].org[1] = g[k].org
  BY DEF Grouped
<1>2. Sat' = Sat /\ \A i : key(i)' = key(i)
  BY DEF satInstanceAndOrg, Sat
<1>3. {key(i)' : i \in Sat'} = {key(i) : i \in Sat}
  BY <1>2
<1>4. \A k : {i \in Sat' : key(i)' = k} = {i \in Sat : key(i) = k}
  BY <1>2
<1> HIDE DEF key
<1>5. \A i \in Sat' : details'[i].org # <<>>
  BY <1>1, <1>2
<1>6. DOMAIN groups' = {key(i)' : i \in Sat'}
  BY <1>1, <1>3
<1>7. ASSUME NEW k \in DOMAIN groups'
      PROVE  /\ groups'[k].hosts = {i \in Sat' : key(i)' = k}
             /\ \A i \in groups'[k].hosts : /\ details'[i].instance[1] = groups'[k].instance
                                            /\ details'[i].org[1] = groups'[k].org
  BY <1>1, <1>4
<1> QED BY <1>5, <1>6, <1>7 DEF Grouped, key

LEMMA SortedKeeps ==
    ASSUME StatusTypes, HostsInv, Sort
    PROVE  HostsInv'
<1>1. /\ UNCHANGED <<asked, found, details>> /\ step = "sort"
      /\ partial' = [satellite |-> partial.satellite, direct |-> partial.direct, none |-> noneList]
      /\ \/ Sat = {} /\ Direct = {} /\ send(200, noneList) /\ UNCHANGED <<groups, todo>>
         \/ send(500, <<>>) /\ UNCHANGED <<groups, todo>>
         \/ /\ \A i \in Sat : details[i].org # <<>>
            /\ groups' = groupHostsBySatellite(Sat) /\ todo' = DOMAIN groups'
            /\ step' = "sources" /\ UNCHANGED <<committed, body>>
  BY SortCases
<1>2. /\ FoundOnce' /\ DetailsOfFound' /\ \A e : Kept(e)' <=> Kept(e)
      /\ Sat' = Sat /\ Direct' = Direct /\ NoOne' = NoOne
  BY <1>1, HostsStay DEF HostsInv
<1>3. /\ partial.satellite = <<>> /\ partial.direct = <<>> /\ groups = <<>>
      /\ committed \in {0, 500} /\ body = <<>>
  BY <1>1 DEF HostsInv, Early, NotYet
<1>4. noneList \in Seq(Info) /\ Once(noneList, NoOne) /\ AllKept(noneList)
  BY NoneList
<1>5. partial'.satellite = <<>> /\ partial'.direct = <<>> /\ partial'.none = noneList
  BY <1>1, <1>3
<1>6. AllKept(partial.satellite)' /\ AllKept(partial.direct)' /\ AllKept(partial.none)'
  BY <1>2, <1>4, <1>5 DEF AllKept
<1>7. CASE send(500, <<>>)
  <2>1. step' = "done" /\ body' = <<>> /\ committed' # 200
    BY <1>3, <1>7 DEF send
  <2> QED BY <1>2, <1>6, <2>1, Ended
<1>8. CASE Sat = {} /\ Direct = {} /\ send(200, noneList) /\ UNCHANGED <<groups, todo>>
  <2>1. step' = "done" /\ body' = noneList
    BY <1>8 DEF send
  <2>2. Early' /\ Underway' /\ NotYet'
    BY <2>1 DEF Early, Underway, NotYet
  <2>3. AllKept(body)'
    BY <1>2, <1>4, <2>1 DEF AllKept
  <2>4. unsourced' = {}
    BY <1>3, <1>8 DEF unsourced
  <2>5. NoOne = DOMAIN details
    BY <1>8 DEF NoOne, Sat, Direct
  <2>6. Divided'
    BY <1>1, <1>4, <2>1, <2>4, <2>5 DEF Divided, Once
  <2> QED BY <1>2, <1>6, <2>2, <2>3, <2>6 DEF HostsInv, KeptApart
<1>9. CASE /\ \A i \in Sat : details[i].org # <<>>
           /\ groups' = groupHostsBySatellite(Sat) /\ todo' = DOMAIN groups'
           /\ step' = "sources" /\ UNCHANGED <<committed, body>>
  <2>1. \A i, j \in Sat : Len(details[i].instance[1]) = Len(details[j].instance[1])
    BY SameLength DEF HostsInv
  <2>2. Grouped(groupHostsBySatellite(Sat))
    BY <1>9, <2>1, GroupsFormed DEF StatusTypes
  <2>3. Grouped(groups)'
    BY <1>1, <1>9, <2>2, GroupedStays
  <2>4. Once(partial.none, NoOne)'
    BY <1>2, <1>4, <1>5 DEF Once
  <2>5. Early' /\ NotYet' /\ Divided'
    BY <1>3, <1>9 DEF Early, NotYet, Divided, answeredFully
  <2>6. Underway'
    BY <1>5, <1>9, <2>3, <2>4 DEF Underway
  <2>7. AllKept(body)'
    BY <1>3, <1>9 DEF AllKept
  <2> QED BY <1>2, <1>6, <2>5, <2>6, <2>7 DEF HostsInv, KeptApart
<1> QED BY <1>1, <1>7, <1>8, <1>9

LEMMA SourceKeeps ==
    ASSUME StatusTypes, HostsInv, getSourceInfo
    PROVE  HostsInv'
<1>1. /\ UNCHANGED <<asked, found, details, partial>> /\ step = "sources"
      /\ send(500, <<>>) \/ UNCHANGED <<step, committed, body>>
  BY DEF getSourceInfo, upstream
<1>2. /\ DOMAIN groups' = DOMAIN groups
      /\ \A j \in DOMAIN groups : /\ groups'[j].hosts = groups[j].hosts
                                  /\ groups'[j].instance = groups[j].instance
                                  /\ groups'[j].org = groups[j].org
  BY SourceSet
<1>3. CASE send(500, <<>>)
  BY <1>1, <1>3, StopKeeps
<1>4. CASE UNCHANGED <<step, committed, body>>
  <2>1. /\ FoundOnce' /\ DetailsOfFound' /\ \A e : Kept(e)' <=> Kept(e)
        /\ Sat' = Sat /\ NoOne' = NoOne
    BY <1>1, HostsStay DEF HostsInv
  <2>2. Grouped(groups) /\ Once(partial.none, NoOne)
    BY <1>1 DEF HostsInv, Underway
  <2>3. Grouped(groups)'
    BY <1>1, <1>2, <2>2, GroupedStays
  <2>4. Once(partial.none, NoOne)'
    BY <1>1, <2>1, <2>2
  <2>5. Early' /\ NotYet' /\ Divided'
    BY <1>1, <1>4 DEF HostsInv, Early, NotYet, Divided, answeredFully
  <2>6. partial'.satellite = <<>> /\ partial'.direct = <<>>
    BY <1>1 DEF HostsInv, Underway
  <2>7. Underway'
    BY <1>1, <1>4, <2>3, <2>4, <2>6 DEF Underway
  <2>8. KeptApart'
    BY <1>1, <1>4, <2>1 DEF HostsInv, KeptApart, AllKept
  <2> QED BY <2>1, <2>5, <2>7, <2>8 DEF HostsInv
<1> QED BY <1>1, <1>3, <1>4

LEMMA SourcesDoneKeeps ==
    ASSUME StatusTypes, HostsInv, SourcesDone
    PROVE  HostsInv'
<1>1. /\ UNCHANGED <<asked, found, details, groups, partial, committed, body>> /\ step = "sources"
      /\ step' = "satellites" /\ todo' = Sourced
  BY DEF SourcesDone, upstream, Sourced
<1>2. /\ FoundOnce' /\ DetailsOfFound' /\ \A e : Kept(e)' <=> Kept(e)
      /\ Sat' = Sat /\ NoOne' = NoOne
  BY <1>1, HostsStay DEF HostsInv
<1>3. /\ Grouped(groups) /\ Once(partial.none, NoOne)
      /\ partial.satellite = <<>> /\ partial.direct = <<>>
  BY <1>1 DEF HostsInv, Underway
<1>4. Sourced' = Sourced
  BY <1>1 DEF Sourced
<1>5. HostsOf(Sourced \ todo)' = {}
  BY <1>1, <1>4 DEF HostsOf
<1>6. Grouped(groups)' /\ Once(partial.none, NoOne)'
  BY <1>1, <1>2, <1>3, GroupedStays
<1>7. Once(partial.satellite, HostsOf(Sourced \ todo))'
  <2>1. Once(<<>>, {})
    BY DEF Once
  <2> QED BY <1>1, <1>3, <1>5, <2>1
<1>8. Underway'
  BY <1>1, <1>3, <1>4, <1>6, <1>7 DEF Underway
<1>9. Early' /\ NotYet' /\ Divided'
  BY <1>1 DEF HostsInv, Early, NotYet, Divided, answeredFully
<1>10. KeptApart'
  BY <1>1, <1>2 DEF HostsInv, KeptApart, AllKept
<1> QED BY <1>2, <1>8, <1>9, <1>10 DEF HostsInv

\* Before any direct host is asked about all are left.
LEMMA NoneAsked ==
    ASSUME partial.direct = <<>>
    PROVE  directHosts = Direct
<1>1. UNION {partial.direct[e].systems : e \in DOMAIN partial.direct} = {}
  OBVIOUS
<1> QED BY <1>1, SortedIs DEF directHosts

LEMMA SatelliteKeeps ==
    ASSUME StatusTypes, HostsInv, createSatelliteConnectionResponses
    PROVE  HostsInv'
<1>1. UNCHANGED <<asked, found, details, groups>> /\ step = "satellites"
  BY AskedSatellite
<1>2. PICK k \in todo :
        /\ todo' = todo \ {k}
        /\ \/ Stopped
           \/ /\ step' = "direct" /\ committed' = 500 /\ failed' = TRUE /\ UNCHANGED body
              /\ partial' = [satellite |-> <<>>, direct |-> partial.direct, none |-> partial.none]
           \/ /\ UNCHANGED <<step, failed, committed, body>>
              /\ \E x \in Info :
                   /\ x.systems = groups[k].hosts
                   /\ x.sat = <<groups[k].instance, groups[k].org>>
                   /\ partial' = [satellite |-> Append(partial.satellite, x),
                                  direct |-> partial.direct, none |-> partial.none]
  BY AskedSatellite, Zenon
<1>3. /\ FoundOnce' /\ DetailsOfFound' /\ \A e : Kept(e)' <=> Kept(e)
      /\ Sat' = Sat /\ Direct' = Direct /\ NoOne' = NoOne
  BY <1>1, HostsStay DEF HostsInv
<1>4. /\ Grouped(groups) /\ Once(partial.none, NoOne) /\ todo \subseteq Sourced
      /\ Once(partial.satellite, HostsOf(Sourced \ todo)) /\ partial.direct = <<>>
      /\ committed \in {0, 500} /\ body = <<>>
  BY <1>1 DEF HostsInv, Underway, NotYet
<1>5. Grouped(groups)' /\ Sourced' = Sourced
  <2>1. Grouped(groups)'
    BY <1>1, <1>4, GroupedStays
  <2> QED BY <1>1, <2>1 DEF Sourced
<1>6. AllKept(partial.satellite) /\ AllKept(partial.direct) /\ AllKept(partial.none)
  BY DEF HostsInv, KeptApart
<1>7. CASE Stopped
  <2>1. send(500, <<>>) /\ partial' = partial
    BY <1>7 DEF Stopped
  <2> QED BY <1>1, <2>1, StopKeeps
<1>8. CASE /\ step' = "direct" /\ committed' = 500 /\ UNCHANGED body
           /\ partial' = [satellite |-> <<>>, direct |-> partial.direct, none |-> partial.none]
  <2>1. partial'.satellite = <<>> /\ partial'.direct = <<>> /\ partial'.none = partial.none
    BY <1>4, <1>8
  <2>2. directHosts' = Direct'
    <3>1. (partial.direct = <<>>)'
      BY <2>1
    <3> QED BY <1>1, <1>3, <3>1 DEF directHosts, sortHostsByRecipient, Direct
  <2>3. Once(partial.direct, Direct \ directHosts)'
    BY <2>1, <2>2 DEF Once
  <2>4. Once(partial.none, NoOne)'
    BY <1>3, <1>4, <2>1
  <2>5. Underway'
    BY <1>5, <1>8, <2>3, <2>4 DEF Underway
  <2>6. Early' /\ NotYet' /\ Divided'
    BY <1>4, <1>8 DEF Early, NotYet, Divided, answeredFully
  <2>7. KeptApart'
    BY <1>3, <1>4, <1>6, <1>8, <2>1 DEF KeptApart, AllKept
  <2> QED BY <1>3, <2>5, <2>6, <2>7 DEF HostsInv
<1>9. ASSUME UNCHANGED <<step, committed, body>>, NEW x \in Info,
             x.systems = groups[k].hosts, x.sat = <<groups[k].instance, groups[k].org>>,
             partial' = [satellite |-> Append(partial.satellite, x),
                         direct |-> partial.direct, none |-> partial.none]
      PROVE  HostsInv'
  <2>1. /\ partial'.satellite = Append(partial.satellite, x) /\ partial'.direct = <<>>
        /\ partial'.none = partial.none
    BY <1>4, <1>9
  <2>2. k \in DOMAIN groups /\ k \in Sourced
    BY <1>4 DEF Sourced
  <2>3. x.systems = {i \in Sat : satInstanceAndOrg(details[i]) = k}
    BY <1>4, <1>9, <2>2 DEF Grouped
  <2>4. /\ HostsOf(Sourced \ todo) \cap x.systems = {}
        /\ HostsOf(Sourced \ (todo \ {k})) = HostsOf(Sourced \ todo) \cup x.systems
    BY <2>2, <2>3 DEF HostsOf
  <2>5. partial.satellite \in Seq(Info)
    BY DEF StatusTypes
  <2>6. Once(Append(partial.satellite, x), HostsOf(Sourced \ (todo \ {k})))
    <3> DEFINE P == HostsOf(Sourced \ todo)
    <3>1. Once(partial.satellite, P) /\ P \cap x.systems = {}
      BY <1>4, <2>4
    <3> HIDE DEF P
    <3>2. Once(Append(partial.satellite, x), P \cup x.systems)
      BY <2>5, <3>1, OnceAppend
    <3> QED BY <2>4, <3>2 DEF P
  <2>7. HostsOf(Sourced \ todo)' = HostsOf(Sourced \ (todo \ {k}))
    BY <1>1, <1>2, <1>3, <1>5 DEF HostsOf, satInstanceAndOrg
  <2>8. Once(partial.satellite, HostsOf(Sourced \ todo))'
    BY <2>1, <2>6, <2>7
  <2>9. Once(partial.none, NoOne)'
    BY <1>3, <1>4, <2>1
  <2>10. Underway'
    BY <1>1, <1>2, <1>4, <1>5, <1>9, <2>1, <2>8, <2>9 DEF Underway
  <2>11. Early' /\ NotYet' /\ Divided'
    BY <1>1, <1>4, <1>9 DEF Early, NotYet, Divided, answeredFully
  <2>12. Kept(x)
    <3>1. \A i \in x.systems : /\ details[i].instance[1] = groups[k].instance
                               /\ details[i].org[1] = groups[k].org
      BY <1>4, <1>9, <2>2 DEF Grouped
    <3>2. \A i \in x.systems : <<details[i].instance[1], details[i].org[1]>> = x.sat
      BY <1>9, <3>1
    <3> QED BY <3>2 DEF Kept
  <2>13. AllKept(Append(partial.satellite, x))
    <3> DEFINE new == Append(partial.satellite, x)
               n == Len(partial.satellite) + 1
    <3>1. /\ DOMAIN new = DOMAIN partial.satellite \cup {n} /\ new[n] = x
          /\ \A e \in DOMAIN partial.satellite : new[e] = partial.satellite[e]
      BY <2>5
    <3> HIDE DEF new, n
    <3>2. AllKept(new)
      BY <1>6, <2>12, <3>1 DEF AllKept
    <3> QED BY <3>2 DEF new
  <2>14. KeptApart'
    <3>1. AllKept(partial.satellite)'
      BY <1>3, <2>1, <2>13 DEF AllKept
    <3>2. AllKept(partial.direct)' /\ AllKept(partial.none)' /\ AllKept(body)'
      BY <1>3, <1>4, <1>6, <1>9, <2>1 DEF AllKept
    <3> QED BY <3>1, <3>2 DEF KeptApart
  <2> QED BY <1>3, <2>10, <2>11, <2>14 DEF HostsInv
<1> QED BY <1>2, <1>7, <1>8, <1>9

LEMMA SatellitesDoneKeeps ==
    ASSUME StatusTypes, HostsInv, SatellitesDone
    PROVE  HostsInv'
<1>1. /\ UNCHANGED <<asked, found, details, groups, todo, partial, committed, body>>
      /\ step = "satellites" /\ todo = {} /\ step' = "direct"
  BY DEF SatellitesDone, upstream, parts
<1>2. /\ FoundOnce' /\ DetailsOfFound' /\ \A e : Kept(e)' <=> Kept(e)
      /\ Sat' = Sat /\ Direct' = Direct /\ NoOne' = NoOne
  BY <1>1, HostsStay DEF HostsInv
<1>3. /\ Grouped(groups) /\ Once(partial.none, NoOne)
      /\ Once(partial.satellite, HostsOf(Sourced \ todo)) /\ partial.direct = <<>>
  BY <1>1 DEF HostsInv, Underway
<1>4. Grouped(groups)' /\ Once(partial.none, NoOne)'
  BY <1>1, <1>2, <1>3, GroupedStays
<1>5. Sourced \ todo = Sourced
  BY <1>1
<1>6. HostsOf(Sourced)' = HostsOf(Sourced)
  BY <1>1, <1>2 DEF HostsOf, Sourced, satInstanceAndOrg
<1>7. Once(partial.satellite, HostsOf(Sourced))'
  BY <1>1, <1>3, <1>5, <1>6
<1>8. directHosts' = Direct'
  BY <1>1, <1>2, <1>3, NoneAsked DEF directHosts, sortHostsByRecipient
<1>9. Once(partial.direct, Direct \ directHosts)'
  BY <1>1, <1>3, <1>8 DEF Once
<1>10. Underway'
  BY <1>1, <1>4, <1>7, <1>9 DEF Underway
<1>11. Early' /\ NotYet' /\ Divided'
  BY <1>1 DEF HostsInv, Early, NotYet, Divided, answeredFully
<1>12. KeptApart'
  BY <1>1, <1>2 DEF HostsInv, KeptApart, AllKept
<1> QED BY <1>2, <1>10, <1>11, <1>12 DEF HostsInv

LEMMA DirectKeeps ==
    ASSUME StatusTypes, HostsInv, getDirectConnectStatus
    PROVE  HostsInv'
<1>1. UNCHANGED <<asked, found, details, groups, todo>> /\ step = "direct" /\ directHosts # {}
  BY AskedDirect
<1> DEFINE n == Min(directHosts)
<1>2. \/ Stopped
      \/ /\ step' = "answer" /\ committed' = 500 /\ failed' = TRUE /\ UNCHANGED body
         /\ partial' = [satellite |-> partial.satellite, direct |-> <<>>, none |-> partial.none]
      \/ /\ UNCHANGED <<step, failed, committed, body>>
         /\ \E x \in Info :
              /\ x.systems = {n} /\ x.type = "directConnect"
              /\ partial' = [satellite |-> partial.satellite, direct |-> Append(partial.direct, x),
                             none |-> partial.none]
  BY AskedDirect, Zenon
<1>3. /\ FoundOnce' /\ DetailsOfFound' /\ \A e : Kept(e)' <=> Kept(e)
      /\ Sat' = Sat /\ Direct' = Direct /\ NoOne' = NoOne
  BY <1>1, HostsStay DEF HostsInv
<1>4. /\ Grouped(groups) /\ Once(partial.none, NoOne)
      /\ committed = 0 => Once(partial.satellite, HostsOf(Sourced))
      /\ Once(partial.direct, Direct \ directHosts)
      /\ committed \in {0, 500} /\ body = <<>>
  BY <1>1 DEF HostsInv, Underway, NotYet
<1>5. AllKept(partial.satellite) /\ AllKept(partial.direct) /\ AllKept(partial.none)
  BY DEF HostsInv, KeptApart
<1>6. n \in directHosts /\ n \in Direct
  BY <1>1, NextDirect
<1> HIDE DEF n
<1>7. CASE Stopped
  <2>1. send(500, <<>>) /\ partial' = partial
    BY <1>7 DEF Stopped
  <2> QED BY <1>1, <2>1, StopKeeps
<1>8. CASE /\ step' = "answer" /\ committed' = 500 /\ UNCHANGED body
           /\ partial' = [satellite |-> partial.satellite, direct |-> <<>>, none |-> partial.none]
  <2>1. /\ partial'.satellite = partial.satellite /\ partial'.direct = <<>>
        /\ partial'.none = partial.none
    BY <1>8
  <2>2. Early' /\ Underway' /\ NotYet' /\ Divided'
    BY <1>4, <1>8 DEF Early, Underway, NotYet, Divided, answeredFully
  <2>3. KeptApart'
    BY <1>3, <1>4, <1>5, <1>8, <2>1 DEF KeptApart, AllKept
  <2> QED BY <1>3, <2>2, <2>3 DEF HostsInv
<1>9. ASSUME UNCHANGED <<step, committed, body>>, NEW x \in Info,
             x.systems = {n}, x.type = "directConnect",
             partial' = [satellite |-> partial.satellite, direct |-> Append(partial.direct, x),
                         none |-> partial.none]
      PROVE  HostsInv'
  <2>1. /\ partial'.satellite = partial.satellite /\ partial'.none = partial.none
        /\ partial'.direct = Append(partial.direct, x)
    BY <1>9
  <2>2. partial.direct \in Seq(Info)
    BY DEF StatusTypes
  <2> DEFINE new == Append(partial.direct, x)
             m == Len(partial.direct) + 1
  <2>3. /\ DOMAIN new = DOMAIN partial.direct \cup {m} /\ new[m] = x
        /\ \A e \in DOMAIN partial.direct : new[e] = partial.direct[e]
    BY <2>2
  <2>4. Once(new, (Direct \ directHosts) \cup {n})
    <3> DEFINE P == Direct \ directHosts
    <3>1. Once(partial.direct, P) /\ P \cap x.systems = {}
      BY <1>4, <1>6, <1>9
    <3> HIDE DEF P
    <3>2. Once(Append(partial.direct, x), P \cup x.systems)
      BY <2>2, <3>1, OnceAppend
    <3> QED BY <1>9, <3>2 DEF P
  <2> HIDE DEF new, m
  <2>5. directHosts' = directHosts \ {n}
    <3> DEFINE U == UNION {partial.direct[e].systems : e \in DOMAIN partial.direct}
               V == UNION {new[e].systems : e \in DOMAIN new}
    <3>1. V = U \cup {n}
      BY <1>9, <2>3
    <3>2. directHosts = Direct \ U
      BY SortedIs DEF directHosts
    <3>3. sortHostsByRecipient.direct' = Direct
      BY <1>1 DEF sortHostsByRecipient, Direct
    <3>4. directHosts' = Direct \ V
      BY <2>1, <3>3 DEF directHosts, new
    <3> HIDE DEF U, V
    <3> QED BY <3>1, <3>2, <3>4
  <2>6. (Direct \ directHosts)' = (Direct \ directHosts) \cup {n}
    BY <1>3, <1>6, <2>5
  <2>7. Once(partial.direct, Direct \ directHosts)'
    BY <2>1, <2>4, <2>6 DEF new
  <2>8. Grouped(groups)'
    BY <1>1, <1>4, GroupedStays
  <2>9. Once(partial.none, NoOne)'
    BY <1>3, <1>4, <2>1
  <2>10. HostsOf(Sourced)' = HostsOf(Sourced)
    BY <1>1, <1>3 DEF HostsOf, Sourced, satInstanceAndOrg
  <2>11. committed' = 0 => Once(partial.satellite, HostsOf(Sourced))'
    BY <1>4, <1>9, <2>1, <2>10
  <2>12. Underway'
    BY <1>1, <1>9, <2>7, <2>8, <2>9, <2>11 DEF Underway
  <2>13. Early' /\ NotYet' /\ Divided'
    BY <1>1, <1>4, <1>9 DEF Early, NotYet, Divided, answeredFully
  <2>14. AllKept(new)
    BY <1>5, <1>9, <2>3 DEF AllKept, Kept
  <2>15. AllKept(partial.direct)'
    BY <1>3, <2>1, <2>14 DEF AllKept, new
  <2>16. AllKept(partial.satellite)' /\ AllKept(partial.none)' /\ AllKept(body)'
    BY <1>3, <1>4, <1>5, <1>9, <2>1 DEF AllKept
  <2> QED BY <1>3, <2>12, <2>13, <2>15, <2>16 DEF HostsInv, KeptApart
<1> QED BY <1>2, <1>7, <1>8, <1>9

\* The hosts that no entry is about, if no question failed.
LEMMA LeftOut ==
    ASSUME details \in Seq(HostDetail), Grouped(groups)
    PROVE  /\ unsourced \subseteq Sat
           /\ Sat \ unsourced = HostsOf(Sourced)
<1> DEFINE key(i) == satInstanceAndOrg(details[i])
<1>1. /\ \A i \in Sat : key(i) \in DOMAIN groups
      /\ \A k \in DOMAIN groups : groups[k].hosts = {i \in Sat : key(i) = k}
  BY DEF Grouped
<1> HIDE DEF key
<1>2. \A i : i \in unsourced <=> \E k \in DOMAIN groups : groups[k].rhc = <<>> /\ i \in groups[k].hosts
  BY DEF unsourced
<1>3. \A i : i \in unsourced <=> i \in Sat /\ groups[key(i)].rhc = <<>>
  BY <1>1, <1>2
<1>4. \A i : i \in HostsOf(Sourced) <=> i \in Sat /\ key(i) \in DOMAIN groups /\ groups[key(i)].rhc # <<>>
  BY DEF HostsOf, Sourced, key
<1> QED BY <1>1, <1>3, <1>4

LEMMA AnswerKeeps ==
    ASSUME StatusTypes, HostsInv, ApiInternalHighlevelConnectionStatus
    PROVE  HostsInv'
<1>1. /\ step = "answer" \/ (step = "direct" /\ directHosts = {})
      /\ send(200, concatResponses) /\ UNCHANGED <<asked, found, details, groups, partial>>
  BY DEF ApiInternalHighlevelConnectionStatus, upstream, parts
<1>2. /\ FoundOnce' /\ DetailsOfFound' /\ \A e : Kept(e)' <=> Kept(e)
      /\ Sat' = Sat
  BY <1>1, HostsStay DEF HostsInv
<1>3. step' = "done" /\ body' = concatResponses
  BY <1>1 DEF send
<1>4. Early' /\ Underway' /\ NotYet'
  BY <1>3 DEF Early, Underway, NotYet
<1> DEFINE a == partial.satellite
           b == partial.direct
           c == partial.none
<1>5. a \in Seq(Info) /\ b \in Seq(Info) /\ c \in Seq(Info)
  BY DEF StatusTypes
<1>6. AllKept(a) /\ AllKept(b) /\ AllKept(c)
  BY DEF HostsInv, KeptApart
<1>7. concatResponses = (a \o b) \o c
  BY DEF concatResponses
<1>8. details \in Seq(HostDetail)
  BY DEF StatusTypes
<1> HIDE DEF a, b, c
<1>9. a \o b \in Seq(Info)
  BY <1>5, ConcatDomain
<1> DEFINE ab == a \o b
<1>10. AllKept(ab) /\ ab \in Seq(Info)
  BY <1>5, <1>6, <1>9, KeptConcat
<1>11. AllKept(concatResponses)
  <2> HIDE DEF ab
  <2>1. AllKept(ab \o c)
    BY <1>5, <1>6, <1>10, KeptConcat
  <2> QED BY <1>7, <2>1 DEF ab
<1>12. KeptApart'
  <2>1. AllKept(body)'
    BY <1>2, <1>3, <1>11 DEF AllKept
  <2>2. AllKept(partial.satellite)' /\ AllKept(partial.direct)' /\ AllKept(partial.none)'
    BY <1>1, <1>2, <1>6 DEF AllKept, a, b, c
  <2> QED BY <2>1, <2>2 DEF KeptApart
<1>13. Divided'
  <2> SUFFICES ASSUME committed' = 200
               PROVE  (Once(body, DOMAIN details \ unsourced) /\ unsourced \subseteq Sat)'
    BY DEF Divided, answeredFully
  <2>1. committed = 0 /\ step = "direct" /\ directHosts = {}
    BY <1>1 DEF HostsInv, NotYet, send
  <2>2. /\ Grouped(groups) /\ Once(c, NoOne) /\ Once(a, HostsOf(Sourced))
        /\ Once(b, Direct)
    BY <2>1 DEF HostsInv, Underway, a, b, c
  <2>3. unsourced \subseteq Sat /\ Sat \ unsourced = HostsOf(Sourced)
    BY <1>8, <2>2, LeftOut
  <2>4. /\ HostsOf(Sourced) \cap Direct = {} /\ (HostsOf(Sourced) \cup Direct) \cap NoOne = {}
        /\ (HostsOf(Sourced) \cup Direct) \cup NoOne = DOMAIN details \ unsourced
    <3>1. /\ Sat \cap Direct = {} /\ Sat \cap NoOne = {} /\ Direct \cap NoOne = {}
          /\ DOMAIN details = Sat \cup Direct \cup NoOne
      BY DEF Sat, Direct, NoOne
    <3> QED BY <2>3, <3>1
  <2> DEFINE P == HostsOf(Sourced)
             Q == P \cup Direct
  <2>5. Once(a, P) /\ P \cap Direct = {} /\ Q \cap NoOne = {}
    BY <2>2, <2>4
  <2> HIDE DEF P
  <2>6. Once(ab, Q)
    BY <1>5, <2>2, <2>5, OnceConcat
  <2> HIDE DEF Q, ab
  <2>7. Once(ab \o c, Q \cup NoOne)
    BY <1>5, <1>10, <2>2, <2>5, <2>6, OnceConcat
  <2>8. Once(concatResponses, DOMAIN details \ unsourced)
    BY <1>7, <2>4, <2>7 DEF ab, P, Q
  <2>9. unsourced' = unsourced
    BY <1>1 DEF unsourced
  <2>10. Once(body, DOMAIN details \ unsourced)'
    BY <1>1, <1>3, <2>8, <2>9
  <2> QED BY <1>2, <2>3, <2>9, <2>10
<1> QED BY <1>2, <1>4, <1>12, <1>13 DEF HostsInv

\* Steps of others leave the request alone.
LEMMA AsideKeeps ==
    ASSUME HostsInv,
           UNCHANGED <<asked, step, found, details, groups, todo, partial, committed, body>>
    PROVE  HostsInv'
<1>1. /\ FoundOnce' /\ DetailsOfFound' /\ \A e : Kept(e)' <=> Kept(e)
      /\ Sat' = Sat /\ Direct' = Direct /\ NoOne' = NoOne
  BY HostsStay DEF HostsInv
<1>2. Early' /\ NotYet'
  BY DEF HostsInv, Early, NotYet
<1>3. KeptApart'
  BY <1>1 DEF HostsInv, KeptApart, AllKept
<1>4. /\ directHosts' = directHosts /\ unsourced' = unsourced /\ Sourced' = Sourced
      /\ HostsOf(Sourced)' = HostsOf(Sourced)
      /\ HostsOf(Sourced \ todo)' = HostsOf(Sourced \ todo)
  BY <1>1 DEF directHosts, sortHostsByRecipient, unsourced, Sourced, HostsOf, satInstanceAndOrg
<1>5. Grouped(groups) => Grouped(groups)'
  BY GroupedStays
<1>6. Divided'
  BY <1>1, <1>4 DEF HostsInv, Divided, answeredFully
<1>7. Underway'
  BY <1>1, <1>4, <1>5 DEF HostsInv, Underway
<1> QED BY <1>1, <1>2, <1>3, <1>6, <1>7 DEF HostsInv

LEMMA HostsInit == StatusInit => StatusTypes /\ HostsInv
<1> SUFFICES ASSUME StatusInit PROVE StatusTypes /\ HostsInv
  OBVIOUS
<1>1. /\ asked \in HostRequests /\ known = DOMAIN Inventory /\ step = "read"
      /\ found = <<>> /\ details = <<>> /\ groups = <<>> /\ todo = {}
      /\ partial = [satellite |-> <<>>, direct |-> <<>>, none |-> <<>>]
      /\ failed = FALSE /\ committed = 0 /\ body = <<>>
  BY DEF StatusInit
<1>2. groups \in [DOMAIN groups -> Group]
  <2>1. DOMAIN <<>> = {}
    OBVIOUS
  <2>2. groups = [k \in {} |-> <<>>]
    BY <1>1, <2>1
  <2> QED BY <2>2
<1>3. StatusTypes
  <2>1. /\ <<>> \in Seq(RecipientWithConnectionInfo) /\ <<>> \in Seq(Info)
        /\ <<>> \in Seq(DOMAIN Inventory) /\ <<>> \in Seq(HostDetail)
    OBVIOUS
  <2>2. StatusTypeOK
    BY <1>1, <2>1 DEF StatusTypeOK
  <2>3. partial \in [satellite : Seq(Info), direct : Seq(Info), none : Seq(Info)]
    BY <1>1, <2>1
  <2>4. found \in Seq(DOMAIN Inventory) /\ details \in Seq(HostDetail) /\ asked \in HostRequests
    BY <1>1, <2>1
  <2> QED BY <1>2, <2>2, <2>3, <2>4 DEF StatusTypes
<1>4. FoundOnce
  <2>1. Len(asked.hosts) \in Nat
    BY <1>1, RequestShape
  <2> QED BY <1>1, <2>1 DEF FoundOnce
<1>5. DetailsOfFound /\ Early /\ Underway /\ NotYet /\ Divided
  BY <1>1 DEF DetailsOfFound, Early, Underway, NotYet, Divided, answeredFully
<1>6. KeptApart
  BY <1>1 DEF KeptApart, AllKept
<1> QED BY <1>3, <1>4, <1>5, <1>6 DEF HostsInv

LEMMA HostsNext ==
    StatusTypes /\ HostsInv /\ [StatusNext]_statusVars => (StatusTypes /\ HostsInv)'
<1> SUFFICES ASSUME StatusTypes, HostsInv, [StatusNext]_statusVars
             PROVE  StatusTypes' /\ HostsInv'
  OBVIOUS
<1>1. StatusTypes'
  BY TypesNext DEF HostsInv
<1>2. CASE ReadRequest
  BY <1>1, <1>2, ReadKeeps
<1>3. CASE AskHosts
  BY <1>1, <1>3, HostsKeeps
<1>4. CASE AskProfiles
  BY <1>1, <1>4, ProfilesKeeps
<1>5. CASE Sort
  BY <1>1, <1>5, SortedKeeps
<1>6. CASE getSourceInfo
  BY <1>1, <1>6, SourceKeeps
<1>7. CASE SourcesDone
  BY <1>1, <1>7, SourcesDoneKeeps
<1>8. CASE createSatelliteConnectionResponses
  BY <1>1, <1>8, SatelliteKeeps
<1>9. CASE SatellitesDone
  BY <1>1, <1>9, SatellitesDoneKeeps
<1>10. CASE getDirectConnectStatus
  BY <1>1, <1>10, DirectKeeps
<1>11. CASE ApiInternalHighlevelConnectionStatus
  BY <1>1, <1>11, AnswerKeeps
<1>12. CASE DeleteHost
  <2>1. UNCHANGED <<asked, step, found, details, groups, todo, partial, committed, body>>
    BY <1>12 DEF DeleteHost, parts
  <2> QED BY <1>1, <2>1, AsideKeeps
<1>13. CASE UNCHANGED statusVars
  <2>1. UNCHANGED <<asked, step, found, details, groups, todo, partial, committed, body>>
    BY <1>13 DEF statusVars, upstream
  <2> QED BY <1>1, <2>1, AsideKeeps
<1> QED
  BY <1>2, <1>3, <1>4, <1>5, <1>6, <1>7, <1>8, <1>9, <1>10, <1>11, <1>12, <1>13
  DEF StatusNext, Handler

\* The pairs of an entry and a position of a host in it, which times counts.
Named(id) == {p \in (DOMAIN body) \X (DOMAIN details) :
                 p[2] \in body[p[1]].systems /\ details[p[2]].id = id}

\* A host that inventory returned stands at one position.
LEMMA OnePosition ==
    ASSUME StatusTypes, HostsInv, details # <<>>, NEW i \in DOMAIN found
    PROVE  /\ i \in DOMAIN details
           /\ \A j \in DOMAIN details : details[j].id = found[i] <=> j = i
<1>1. found \in Seq(DOMAIN Inventory) /\ asked \in HostRequests
  BY DEF StatusTypes
<1>2. details = GetHostConnectionDetails /\ FoundOnce /\ DetailsOfFound
  BY DEF HostsInv, DetailsOfFound
<1>3. DOMAIN details = DOMAIN asked.hosts
  BY <1>2 DEF GetHostConnectionDetails
<1>4. Len(asked.hosts) \in Nat /\ DOMAIN asked.hosts = 1..Len(asked.hosts)
  BY <1>1, RequestShape
<1>5. i \in DOMAIN details /\ ~(i > Len(found)) /\ found[i] \in DOMAIN Inventory
  BY <1>1, <1>2, <1>3, <1>4 DEF FoundOnce
<1>6. NoId \notin DOMAIN Inventory
  BY InventoryAssumption
<1>7. ASSUME NEW j \in DOMAIN details PROVE details[j].id = found[i] <=> j = i
  <2>1. CASE j > Len(found)
    <3>1. details[j].id = NoId
      BY <1>2, <2>1, DetailOf
    <3> QED BY <1>5, <1>6, <2>1, <3>1
  <2>2. CASE ~(j > Len(found))
    <3>1. j \in DOMAIN found /\ details[j].id = found[j]
      BY <1>2, <2>2, DetailOf
    <3> QED BY <1>2, <3>1 DEF FoundOnce
  <2> QED BY <2>1, <2>2
<1> QED BY <1>5, <1>7

LEMMA FoundOnceNamed ==
    ASSUME StatusTypes, HostsInv, answeredFully, NEW i \in DOMAIN found
    PROVE  times(found[i]) = IF i \in unsourced THEN 0 ELSE 1
<1>1. Once(body, DOMAIN details \ unsourced) /\ details # <<>>
  BY DEF HostsInv, Divided, answeredFully
<1>2. /\ i \in DOMAIN details
      /\ \A j \in DOMAIN details : details[j].id = found[i] <=> j = i
  BY <1>1, OnePosition
<1> DEFINE N == Named(found[i])
<1>3. times(found[i]) = Cardinality(N)
  BY Zenon DEF times, Named
<1>4. \A p \in N : p \in (DOMAIN body) \X (DOMAIN details) /\ p[2] = i /\ i \in body[p[1]].systems
  BY <1>2 DEF Named
<1>5. CASE i \in unsourced
  <2>1. N = {}
    BY <1>1, <1>4, <1>5 DEF Once
  <2> HIDE DEF N
  <2> QED BY <1>3, <1>5, <2>1, FS_EmptySet
<1>6. CASE i \notin unsourced
  <2>1. PICK e \in DOMAIN body : i \in body[e].systems
    BY <1>1, <1>2, <1>6 DEF Once
  <2>2. \A f \in DOMAIN body : i \in body[f].systems => f = e
    BY <1>1, <2>1 DEF Once
  <2>3. <<e, i>> \in N
    BY <1>2, <2>1 DEF Named
  <2>4. ASSUME NEW p \in N PROVE p = <<e, i>>
    <3>1. /\ p \in (DOMAIN body) \X (DOMAIN details) /\ p[2] = i /\ i \in body[p[1]].systems
      BY <1>4
    <3> HIDE DEF N
    <3>2. p[1] \in DOMAIN body /\ p = <<p[1], p[2]>>
      BY <3>1
    <3> QED BY <2>2, <3>1, <3>2
  <2>5. N = {<<e, i>>}
    <3> HIDE DEF N
    <3> QED BY <2>3, <2>4
  <2> HIDE DEF N
  <2> QED BY <1>3, <1>6, <2>5, FS_Singleton
<1> QED BY <1>5, <1>6

\* What was not found stands at the positions after what was, each in one entry.
LEMMA MissingOnceNamed ==
    ASSUME StatusTypes, HostsInv, answeredFully
    PROVE  times(NoId) = Len(asked.hosts) - Len(found)
<1>1. Once(body, DOMAIN details \ unsourced) /\ details # <<>> /\ unsourced \subseteq Sat
  BY DEF HostsInv, Divided, answeredFully
<1>2. /\ found \in Seq(DOMAIN Inventory) /\ asked \in HostRequests
      /\ details = GetHostConnectionDetails /\ DetailsOfFound /\ FoundOnce
  BY <1>1 DEF StatusTypes, HostsInv, DetailsOfFound
<1> DEFINE n == Len(asked.hosts)
           m == Len(found)
           N == Named(NoId)
           T == (m + 1)..n
<1>3. n \in Nat /\ m \in Nat /\ m <= n /\ DOMAIN details = 1..n
  <2>1. DOMAIN details = DOMAIN asked.hosts
    BY <1>2 DEF GetHostConnectionDetails
  <2> QED BY <1>2, <2>1, RequestShape DEF FoundOnce
<1>4. ASSUME NEW j \in DOMAIN details
      PROVE  /\ details[j].id = NoId <=> j \in T
             /\ j \in T => j \notin unsourced
  <2>1. j \in Nat /\ j >= 1 /\ j <= n
    BY <1>3
  <2>2. CASE j > m
    <3>1. details[j].id = NoId /\ details[j].instance = <<>>
      BY <1>2, <2>2, DetailOf
    <3>2. j \in T
      BY <1>3, <2>1, <2>2
    <3>3. j \notin unsourced
      BY <1>1, <3>1 DEF Sat
    <3> QED BY <3>1, <3>2, <3>3
  <2>3. CASE ~(j > m)
    <3>1. j \in DOMAIN found /\ details[j].id = found[j]
      BY <1>2, <2>3, DetailOf
    <3>2. details[j].id # NoId
      BY <1>2, <3>1, InventoryAssumption
    <3>3. j \notin T
      BY <1>3, <2>1, <2>3
    <3> QED BY <3>2, <3>3
  <2> QED BY <2>2, <2>3
<1>5. T \subseteq DOMAIN details
  BY <1>3
<1>6. IsFiniteSet(T) /\ Cardinality(T) = n - m
  <2> HIDE DEF n, m
  <2>1. m + 1 \in Int /\ n \in Int
    BY <1>3
  <2>2. IsFiniteSet(T) /\ Cardinality(T) = IF m + 1 > n THEN 0 ELSE n - (m + 1) + 1
    BY <2>1, FS_Interval
  <2> HIDE DEF T
  <2> QED BY <1>3, <2>2
<1>7. times(NoId) = Cardinality(N)
  BY Zenon DEF times, Named
<1> HIDE DEF T, n, m
<1>8. \A p \in N : /\ p \in (DOMAIN body) \X (DOMAIN details)
                   /\ p[2] \in T /\ p[2] \in body[p[1]].systems
  BY <1>4 DEF Named
<1>9. \A j \in T : \E p \in N : p[2] = j
  <2> SUFFICES ASSUME NEW j \in T PROVE \E p \in N : p[2] = j
    OBVIOUS
  <2>1. j \in DOMAIN details /\ j \notin unsourced /\ details[j].id = NoId
    BY <1>4, <1>5
  <2>2. PICK e \in DOMAIN body : j \in body[e].systems
    BY <1>1, <2>1 DEF Once
  <2>3. <<e, j>> \in N /\ <<e, j>>[2] = j
    BY <2>1, <2>2 DEF Named
  <2> QED BY <2>3
<1>10. ASSUME NEW p \in N, NEW q \in N, p[2] = q[2] PROVE p = q
  <2>1. /\ p \in (DOMAIN body) \X (DOMAIN details) /\ p[2] \in body[p[1]].systems
        /\ q \in (DOMAIN body) \X (DOMAIN details) /\ p[2] \in body[q[1]].systems
    BY <1>8, <1>10
  <2> HIDE DEF N
  <2>2. /\ p[1] \in DOMAIN body /\ p = <<p[1], p[2]>>
        /\ q[1] \in DOMAIN body /\ q = <<q[1], q[2]>>
    BY <2>1
  <2>3. p[1] = q[1]
    BY <1>1, <2>1, <2>2 DEF Once
  <2> QED BY <1>10, <2>2, <2>3
<1> DEFINE f == [p \in N |-> p[2]]
<1> HIDE DEF N
<1>11. f \in Injection(N, T) /\ f \in Surjection(N, T)
  <2>1. f \in [N -> T] /\ \A p \in N : f[p] = p[2]
    BY <1>8
  <2> HIDE DEF f
  <2>2. \A p, q \in N : f[p] = f[q] => p = q
    BY <1>10, <2>1
  <2>3. \A j \in T : \E p \in N : f[p] = j
    BY <1>9, <2>1
  <2>4. f \in Injection(N, T)
    BY <2>1, <2>2 DEF Injection, IsInjective
  <2>5. f \in Surjection(N, T)
    BY <2>1, <2>3 DEF Surjection
  <2> QED BY <2>4, <2>5
<1>12. Cardinality(N) = Cardinality(T)
  <2> HIDE DEF f
  <2> QED BY <1>6, <1>11, FS_Injection
<1> QED BY <1>6, <1>7, <1>12 DEF n, m

\* A successful answer names every host inventory returned exactly once, but
\* for those of a Satellite that sources could not tell of, and one empty id for
\* each host that was not found; and hosts share an entry only if they belong to
\* the same organization of the same Satellite, whatever order maps are walked in
\* (GetHostConnectionDetails, groupHostsBySatellite,
\* createSatelliteConnectionResponses, getDirectConnectStatus).
THEOREM HostsAlwaysAccountedFor == StatusSpec => []HostsAccountedFor
<1>1. StatusTypes /\ HostsInv => HostsAccountedFor
  <2> SUFFICES ASSUME StatusTypes, HostsInv PROVE EachHostOnce /\ SatellitesKeptApart
    BY DEF HostsAccountedFor
  <2>1. EachHostOnce
    BY FoundOnceNamed, MissingOnceNamed DEF EachHostOnce
  <2>2. SatellitesKeptApart
    BY DEF HostsInv, KeptApart, AllKept, Kept, SatellitesKeptApart
  <2> QED BY <2>1, <2>2
<1> QED BY <1>1, HostsInit, HostsNext, PTL DEF StatusSpec

-----------------------------------------------------------------------------
(* The API as a whole: one of the three is followed, the others are at rest *)

\* Nothing happens to a list that has been answered, or to a request.
LEMMA BatchStays == BatchAtRest /\ [Next]_vars => BatchAtRest'
<1> SUFFICES ASSUME BatchAtRest, [Next]_vars PROVE BatchAtRest'
  OBVIOUS
<1>1. phase = "done" /\ items = {}
  BY DEF BatchAtRest, req, items
<1>2. ~Whole /\ ~Refill /\ ~RunsChange
  BY <1>1 DEF Whole, CheckPskAuth, RejectBatch, StartBatch, AnswerBatch, Refill, RunsChange
<1>3. ~Goroutines
  BY <1>1 DEF Goroutines
<1>4. UNCHANGED vars
  BY <1>2, <1>3 DEF Next
<1> QED BY <1>4 DEF vars, run, BatchAtRest

LEMMA BatchRestTyped == BatchAtRest => TypeOK
<1> SUFFICES ASSUME BatchAtRest PROVE TypeOK
  OBVIOUS
<1>1. items = {} /\ at = <<>> /\ result = <<>>
  BY DEF BatchAtRest, req, items
<1>2. \A S : <<>> \in [{} -> S]
  <2>1. <<>> = [i \in {} |-> <<>>]
    OBVIOUS
  <2> QED BY <2>1
<1>3. tokens \in 0..Bucket
  BY BucketAssumption DEF BatchAtRest
<1> QED BY <1>1, <1>2, <1>3 DEF BatchAtRest, TypeOK

LEMMA HostsStayAtRest == HostsAtRest /\ [StatusNext]_statusVars => HostsAtRest'
<1> SUFFICES ASSUME HostsAtRest, [StatusNext]_statusVars PROVE HostsAtRest'
  OBVIOUS
<1>1. step = "done"
  BY DEF HostsAtRest
<1>2. ~StatusNext
  BY <1>1
  DEF StatusNext, Handler, ReadRequest, AskHosts, AskProfiles, Sort, getSourceInfo, SourcesDone,
      createSatelliteConnectionResponses, SatellitesDone, getDirectConnectStatus,
      ApiInternalHighlevelConnectionStatus, DeleteHost
<1>3. UNCHANGED statusVars
  BY <1>2
<1> QED BY <1>3 DEF statusVars, upstream, HostsAtRest

LEMMA HostsRestTyped == HostsAtRest => StatusTypeOK
<1>1. <<>> \in Seq(RecipientWithConnectionInfo) /\ DOMAIN <<>> = {}
  OBVIOUS
<1> QED BY <1>1 DEF HostsAtRest, StatusTypeOK

LEMMA ServerRests == ServerAtRest => ServerInv
<1> SUFFICES ASSUME ServerAtRest PROVE ServerInv
  OBVIOUS
<1>1. clients \in [Client -> {"none"}] /\ late \in BOOLEAN
  BY DEF ServerAtRest
<1>2. clients \in [Client -> {"none", "inflight", "answered", "cut"}]
  BY <1>1
<1>3. senders \subseteq {"api", "metrics"} /\ errs \in 0..1
  BY DEF ServerAtRest
<1>4. ServerTypeOK
  BY <1>1, <1>2, <1>3, Zenon DEF ServerAtRest, ServerTypeOK
<1>5. Order
  BY <1>1 DEF ServerAtRest, Order
<1> QED BY <1>4, <1>5 DEF ServerInv

ApiInv ==
    /\ IInv \/ BatchAtRest
    /\ (StatusTypes /\ HostsInv) \/ HostsAtRest
    /\ ServerInv

\* The variables of the internal API keep their types: the positions of hosts
\* and of items, the codes and the tokens of a list, the entries of an answer
\* and the states of the process (Batches, ConnectionStatus, ApiServer).
THEOREM ApiTypesCorrect == ApiSpec => []TypesOK
<1>1. ApiInit => ApiInv
  <2>1. Init => IInv
    BY InitIInv
  <2> QED BY <2>1, HostsInit, InitServerInv, ServerRests, Zenon DEF ApiInit, ApiInv
<1>2. ApiInv /\ [ApiNext]_<<vars, statusVars, serverVars>> => ApiInv'
  <2> SUFFICES ASSUME ApiInv, [ApiNext]_<<vars, statusVars, serverVars>> PROVE ApiInv'
    OBVIOUS
  <2>1. [Next]_vars /\ [StatusNext]_statusVars /\ [ServerNext]_serverVars
    BY DEF ApiNext
  <2>2. (IInv \/ BatchAtRest)'
    BY <2>1, NextIInv, BatchStays DEF ApiInv
  <2>3. ((StatusTypes /\ HostsInv) \/ HostsAtRest)'
    BY <2>1, HostsNext, HostsStayAtRest DEF ApiInv
  <2>4. ServerInv'
    BY <2>1, NextServerInv DEF ApiInv
  <2> QED BY <2>2, <2>3, <2>4 DEF ApiInv
<1>3. ApiInv => TypesOK
  <2>1. ApiInv => TypeOK
    BY BatchRestTyped DEF ApiInv, IInv
  <2>2. ApiInv => StatusTypeOK
    BY HostsRestTyped DEF ApiInv, StatusTypes
  <2>3. ApiInv => ServerTypeOK
    BY DEF ApiInv, ServerInv
  <2> QED BY <2>1, <2>2, <2>3 DEF TypesOK
<1> QED BY <1>1, <1>2, <1>3, PTL DEF ApiSpec
=============================================================================
