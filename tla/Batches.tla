------------------------------- MODULE Batches -------------------------------
(***************************************************************************)
(* The requests of the internal API that carry a list: create runs (v1 and *)
(* v2), cancel runs, ask for the status of recipients.  One request is     *)
(* followed.  The items of a create or cancel request are processed by one *)
(* goroutine each (PMap), those of a status request one after the other;   *)
(* all of them share the rate limiter, whose bucket other requests may     *)
(* have drained before this one.  A panic in such a goroutine is not       *)
(* recovered: it ends the process.                                         *)
(***************************************************************************)
EXTENDS Integers, FiniteSets, Sequences

CONSTANTS Requests,    \* [op, key, items]: the requests considered
          AuthKeys,    \* principal -> pre-shared key
          Blocklist,   \* organizations that are turned away
          RunRows,     \* runs that may be canceled -> [org, satellite]
          Bucket       \* size of the rate limiter's bucket

VARIABLES
    request,    \* the request
    phase,      \* "new", "running", "done" or "dead"
    code,       \* the status of the response
    service,    \* the principal that sent it
    at,         \* item -> where its goroutine is
    result,     \* item -> code in the response
    sent,       \* items whose message cloud connector was asked to deliver
    delivered,  \* items whose message reached the recipient
    recorded,   \* items whose run is in the database
    tokens,     \* of the rate limiter
    refills,    \* tokens it has got since the request came
    status,     \* the status of the runs that may be canceled
    picked,     \* runs the clean job is about to time out
    open        \* of those, the ones that were running during the request

items == DOMAIN request.items
run == <<status, picked, open>>
vars == <<request, phase, code, service, at, result, sent, delivered, recorded,
          tokens, refills, run>>

Records == INSTANCE RunRecord WITH Run <- DOMAIN RunRows

-----------------------------------------------------------------------------
(* Inputs.  Satellite and satelliteOrg say whether the ids of a Satellite  *)
(* are given, hosts which of the hosts have an inventory id.               *)

RunInputHosts == Seq(BOOLEAN)
RunInput == [account : STRING]
RunInputV2 == [org : STRING, satellite : BOOLEAN, satelliteOrg : BOOLEAN, hosts : RunInputHosts]
CancelInputV2 == [run : STRING, org : STRING]
RecipientWithOrg == [recipient : STRING]

inputs(op) ==
    CASE op = "create_v1" -> Seq(RunInput)
      [] op = "create_v2" -> Seq(RunInputV2)
      [] op = "cancel" -> Seq(CancelInputV2)
      [] op = "status" -> Seq(RecipientWithOrg)

ASSUME RequestsAssumption ==
    \A r \in Requests :
        /\ r.op \in {"create_v1", "create_v2", "cancel", "status"}
        /\ r.items \in inputs(r.op)
ASSUME BucketAssumption == Bucket \in Nat

\* The codes of the answers to items.
RunCreated == {201, 400, 404, 500}
RunCanceled == {202, 400, 404, 409, 500}

IsOrgIdBlocklisted(org) == org \in Blocklist

validateSatelliteFields(item) ==
    /\ item.satellite = item.satelliteOrg
    /\ item.satellite => item.hosts # <<>> /\ \A i \in DOMAIN item.hosts : item.hosts[i]

\* A run input keeps the Satellite's ids and the hosts with the ids they have.
RunInputV2GenericMap(item) ==
    [satId |-> item.satellite, satOrgId |-> item.satelliteOrg, hosts |-> item.hosts]

getProtocol(input) == IF input.satId THEN "satellite" ELSE "runner"

\* BuildMetaData of the Satellite protocol dereferences its organization and
\* the inventory ids of all hosts.
buildPanics(input) ==
    /\ getProtocol(input) = "satellite"
    /\ ~input.satOrgId \/ \E i \in DOMAIN input.hosts : ~input.hosts[i]

principals(key) == {p \in DOMAIN AuthKeys : AuthKeys[p] = key}

handleRunCreateError(error) ==
    CASE error \in {"recipient_not_found", "tenant_not_found"} -> 404
      [] error = "blocklisted" -> 400
      [] OTHER -> 500

handleRunCancelError(error) ==
    CASE error = "run_not_found" -> 404
      [] error \in {"org_mismatch", "type"} -> 400
      [] error \in {"recipient_not_found", "not_cancelable"} -> 409
      [] OTHER -> 500

errorCode(error) ==
    IF request.op = "cancel" THEN handleRunCancelError(error) ELSE handleRunCreateError(error)

-----------------------------------------------------------------------------
(* The request as a whole                                                  *)

answer(c) ==
    /\ phase' = "done"
    /\ code' = c
    /\ UNCHANGED <<request, at, result, sent, delivered, recorded, tokens, refills, run>>

\* A missing or malformed header, and a key that no principal has.
CheckPskAuth ==
    /\ phase = "new"
    /\ principals(request.key) = {}
    /\ answer(IF request.key \in {"", "malformed"} THEN 401 ELSE 403)
    /\ UNCHANGED service

\* Every item of a v2 request is validated before the first is processed.
RejectBatch ==
    /\ phase = "new"
    /\ principals(request.key) # {}
    /\ request.op = "create_v2" /\ \E i \in items : ~validateSatelliteFields(request.items[i])
    /\ answer(400)
    /\ UNCHANGED service

\* If principals share a key, the map's order decides.
StartBatch ==
    /\ phase = "new"
    /\ service' \in principals(request.key)
    /\ request.op = "create_v2" => \A i \in items : validateSatelliteFields(request.items[i])
    /\ phase' = "running"
    /\ at' = [i \in items |-> "start"]
    /\ UNCHANGED <<request, code, result, sent, delivered, recorded, tokens, refills, run>>

\* Faulty variant: only successes are handed to the goroutine that waits.
AnswerBatch_Successes ==
    /\ phase = "running"
    /\ \A i \in items : at[i] = "answered" /\ result[i] \in {200, 201, 202}
    /\ answer(IF request.op = "status" THEN 200 ELSE 207)
    /\ UNCHANGED service

\* PMap waits for all goroutines.
AnswerBatch ==
    /\ phase = "running"
    /\ \A i \in items : at[i] = "answered"
    /\ answer(IF request.op = "status" THEN 200 ELSE 207)
    /\ UNCHANGED service

-----------------------------------------------------------------------------
(* An item                                                                 *)

whole == <<request, phase, code, service>>

finish(i, c) ==
    /\ at' = [at EXCEPT ![i] = "answered"]
    /\ result' = [result EXCEPT ![i] = c]

goto(i, label) == at' = [at EXCEPT ![i] = label] /\ UNCHANGED result

\* The tenant translator knows the organization of an account, or fails.
TranslateV1(i) ==
    /\ request.op = "create_v1" /\ at[i] = "start"
    /\ \/ \E e \in {"tenant_not_found", "error"} : finish(i, errorCode(e))
       \/ IF IsOrgIdBlocklisted(request.items[i].account)
          THEN finish(i, errorCode("blocklisted"))
          ELSE goto(i, "wait")
    /\ UNCHANGED <<whole, sent, delivered, recorded, tokens, refills, run>>

PrepareV2(i) ==
    /\ request.op = "create_v2" /\ at[i] = "start"
    /\ IF IsOrgIdBlocklisted(request.items[i].org)
       THEN finish(i, errorCode("blocklisted")) /\ UNCHANGED <<phase, code>>
       ELSE IF buildPanics(RunInputV2GenericMap(request.items[i]))
       THEN phase' = "dead" /\ UNCHANGED <<at, result, code>>
       ELSE goto(i, "wait") /\ UNCHANGED <<phase, code>>
    /\ UNCHANGED <<request, service, sent, delivered, recorded, tokens, refills, run>>

\* Faulty variant: the status of the run is not looked at.
cancelError_AnyStatus(item) ==
    LET r == item.run
    IN  IF r \notin DOMAIN RunRows THEN "run_not_found"
        ELSE IF RunRows[r].org # item.org THEN "org_mismatch"
        ELSE IF ~RunRows[r].satellite THEN "type"
        ELSE "none"

cancelError(item) ==
    LET r == item.run
    IN  IF r \notin DOMAIN RunRows THEN "run_not_found"
        ELSE IF RunRows[r].org # item.org THEN "org_mismatch"
        ELSE IF ~RunRows[r].satellite THEN "type"
        ELSE IF status[r] # "running" THEN "not_cancelable"
        ELSE "none"

\* Any error of the query is taken for a missing run.
ReadRun(i) ==
    /\ request.op = "cancel" /\ at[i] = "start"
    /\ LET error == cancelError(request.items[i])
       IN  \/ IF error = "none" THEN goto(i, "wait") ELSE finish(i, errorCode(error))
           \/ finish(i, errorCode("run_not_found"))
    /\ UNCHANGED <<whole, sent, delivered, recorded, tokens, refills, run>>

\* Faulty variants: the limiter is bypassed, or its bucket goes below zero.
Wait_Bypassed(i) ==
    /\ at[i] = "wait"
    /\ goto(i, "send")
    /\ UNCHANGED <<whole, sent, delivered, recorded, tokens, refills, run>>
Wait_Overdrawn(i) ==
    /\ at[i] = "wait"
    /\ tokens' = tokens - 1
    /\ goto(i, "send")
    /\ UNCHANGED <<whole, sent, delivered, recorded, refills, run>>

\* rateLimiter.Wait; it fails when the context of the request ends.
Wait(i) ==
    /\ at[i] = "wait"
    /\ \/ tokens > 0 /\ tokens' = tokens - 1 /\ goto(i, "send")
       \/ finish(i, errorCode("canceled")) /\ UNCHANGED tokens
    /\ UNCHANGED <<whole, sent, delivered, recorded, refills, run>>

\* What cloud connector replies; 0 is no reply.
Reply == [status : {0, 201, 404, 500}, json : BOOLEAN, id : BOOLEAN]

ParsePostV2ConnectionsClientIdMessageResponse(rsp) == rsp.status = 201 /\ rsp.json

SendCloudConnectorRequest(rsp) ==
    CASE rsp.status = 0 -> "error"
      [] rsp.status = 404 -> "recipient_not_found"
      [] ParsePostV2ConnectionsClientIdMessageResponse(rsp) /\ rsp.id -> "none"
      [] OTHER -> "error"

\* A message that was accepted is delivered, one to an unknown recipient is
\* not; without a reply, or after an error, it may have been.
deliveries(i, rsp) ==
    CASE rsp.status = 201 -> {delivered \cup {i}}
      [] rsp.status = 404 -> {delivered}
      [] OTHER -> {delivered, delivered \cup {i}}

\* Faulty variant: every failure is taken for a missing recipient.
Send_NotFound(i) ==
    /\ at[i] = "send"
    /\ sent' = sent \cup {i}
    /\ \E rsp \in Reply :
        /\ delivered' \in deliveries(i, rsp)
        /\ IF SendCloudConnectorRequest(rsp) # "none" THEN finish(i, errorCode("recipient_not_found"))
           ELSE IF request.op = "cancel" THEN finish(i, 202)
           ELSE goto(i, "record")
    /\ UNCHANGED <<whole, recorded, tokens, refills, run>>

Send(i) ==
    /\ at[i] = "send"
    /\ sent' = sent \cup {i}
    /\ \E rsp \in Reply :
        LET error == SendCloudConnectorRequest(rsp)
        IN  /\ delivered' \in deliveries(i, rsp)
            /\ IF error # "none" THEN finish(i, errorCode(error))
               ELSE IF request.op = "cancel" THEN finish(i, 202)
               ELSE goto(i, "record")
    /\ UNCHANGED <<whole, recorded, tokens, refills, run>>

RecordRun(i) ==
    /\ at[i] = "record"
    /\ \/ recorded' = recorded \cup {i} /\ finish(i, 201)
       \/ finish(i, errorCode("error")) /\ UNCHANGED recorded
    /\ UNCHANGED <<whole, sent, delivered, tokens, refills, run>>

\* One recipient after the other; the first error is the answer.
AskStatus(i) ==
    /\ phase = "running" /\ request.op = "status" /\ at[i] = "start"
    /\ \A j \in items : j < i => at[j] = "answered"
    /\ \/ /\ tokens > 0
          /\ tokens' = tokens - 1
          /\ sent' = sent \cup {i}
          /\ \/ finish(i, 200) /\ UNCHANGED <<phase, code>>
             \/ phase' = "done" /\ code' = 500 /\ UNCHANGED <<at, result>>
       \/ phase' = "done" /\ code' = 500 /\ UNCHANGED <<at, result, tokens, sent>>
    /\ UNCHANGED <<request, service, delivered, recorded, refills, run>>

-----------------------------------------------------------------------------
(* The limiter, and the life of the runs meanwhile                         *)

Refill ==
    /\ tokens < Bucket /\ phase # "done"
    /\ tokens' = tokens + 1
    /\ refills' = refills + 1
    /\ UNCHANGED <<whole, at, result, sent, delivered, recorded, run>>

RunsChange ==
    /\ request.op = "cancel" /\ phase \in {"new", "running"}
    /\ Records!Next
    /\ open' = open \cup {r \in DOMAIN RunRows : status'[r] = "running"}
    /\ UNCHANGED <<whole, at, result, sent, delivered, recorded, tokens, refills>>

Init ==
    /\ request \in Requests
    /\ phase = "new" /\ code = 0 /\ service = ""
    /\ at = [i \in items |-> "start"]
    /\ result = [i \in items |-> 0]
    /\ sent = {} /\ delivered = {} /\ recorded = {}
    /\ tokens \in 0..Bucket /\ refills = 0
    /\ status \in [DOMAIN RunRows -> {"running", "success"}]
    /\ picked = {}
    /\ open = {r \in DOMAIN RunRows : status[r] = "running"}

Process(i) ==
    /\ phase = "running"
    /\ TranslateV1(i) \/ PrepareV2(i) \/ ReadRun(i) \/ Wait(i) \/ Send(i) \/ RecordRun(i)

Goroutines == \E i \in items : Process(i) \/ AskStatus(i)

Whole == CheckPskAuth \/ RejectBatch \/ StartBatch \/ AnswerBatch

Next ==
    \/ Whole
    \/ Goroutines
    \/ Refill \/ RunsChange

Spec == Init /\ [][Next]_vars

\* Goroutines are scheduled and the calls they make end by their timeouts; a
\* limiter that is never refilled ends the wait by an error.
Fairness == WF_vars(Whole) /\ WF_vars(Goroutines)
FairSpec == Spec /\ Fairness

-----------------------------------------------------------------------------

TypeOK ==
    /\ phase \in {"new", "running", "done", "dead"}
    /\ code \in {0, 200, 207, 400, 401, 403, 500}
    /\ at \in [items -> {"start", "wait", "send", "record", "answered"}]
    /\ result \in [items -> {0, 200} \cup RunCreated \cup RunCanceled]
    /\ delivered \subseteq sent /\ sent \subseteq items /\ recorded \subseteq items
    /\ tokens \in 0..Bucket

\* No list takes the process down: what the protocols dereference was
\* validated, for all items, before the first goroutine was started.
ProcessSurvives == phase # "dead"

\* The answer is true of every item, however the goroutines interleave: a
\* refused list caused nothing, 201 stands for a run that was delivered and
\* recorded, 404, 400 and 409 for one that reached nobody, and no run is
\* recorded for any other code.
AnswersTrue ==
    phase = "done" =>
        /\ code \in {400, 401, 403} => sent = {} /\ recorded = {}
        /\ code = 207 => \A i \in items :
              /\ result[i] # 0
              /\ result[i] = 201 <=> i \in recorded
              /\ result[i] \in {201, 202} => i \in delivered
              /\ result[i] \in {400, 404, 409} => i \notin delivered
        /\ code = 200 => \A i \in items : result[i] = 200

\* A cancel request is passed on only for a Satellite run of the organization
\* that was running at some time during the request.  The status is read before
\* the wait for the limiter, so by then the run may have ended.
CancelJustified ==
    request.op = "cancel" => \A i \in sent :
        LET r == request.items[i].run
        IN  /\ r \in open
            /\ RunRows[r].satellite /\ RunRows[r].org = request.items[i].org

\* However the goroutines of one list interleave, what its items ask of cloud
\* connector stays within the limit: a full bucket and what was added since.
\* Every request of this kind waits for the limiter (recipientStatus.go:25,
\* dispatch/impl.go:62 and 142); the connection status of hosts does not, so that
\* its questions (highlevelConnectionStatus.go:161 and 243) come on top.
RateRespected == Cardinality(sent) + tokens <= Bucket + refills

\* Every list is answered, whatever its items meet: no goroutine is left for
\* which PMap waits for ever.
BatchAnswered == <>(phase = "done")
=============================================================================
