----------------------------- MODULE Validator ------------------------------
(***************************************************************************)
(* The validator process (internal/validator), its Kafka event loop        *)
(* (internal/common/kafka) and its supervision (cmd/run.go).               *)
(*                                                                         *)
(* The event loop reads announcements of uploads and hands them over an    *)
(* unbuffered channel to fetch workers, which download the archives and    *)
(* hand them over another one to the only validation worker.  That answers *)
(* ingress and, for a valid archive, produces the update which the         *)
(* response consumers read.  Errors of Kafka go to a channel with room for *)
(* one, from which main takes a single error before it shuts down.         *)
(*                                                                         *)
(* Offsets are committed in the background, and when the consumer is       *)
(* closed, up to the last message that ReadMessage returned, whatever has  *)
(* become of it since.  A restarted process reads on from there.           *)
(***************************************************************************)
EXTENDS PayloadValidation

CONSTANTS Requests,      \* the announcements in the topic, in order of offset
          Concurrency,   \* storage.max.concurrency
          Retries,       \* storage.retries
          MaxSize,       \* artifact.max.size
          MaxRestarts    \* bound: times the process is started again

Request == [service : {Playbook, PlaybookSat, "other"},
            parses : BOOLEAN, blocklisted : BOOLEAN, size : Nat,
            big : BOOLEAN, lines : Seq(Line)]

ASSUME ValidatorAssumption ==
    /\ Requests \in Seq(Request)
    /\ Concurrency \in Nat \ {0}
    /\ Retries \in Nat \ {0}
    /\ MaxSize \in Nat
    /\ MaxRestarts \in Nat

VARIABLES
    position,      \* next offset ReadMessage returns
    committed,     \* offset a restarted process starts from
    main,          \* the goroutine of cmd/run.go
    clean,         \* the process ended because all its modules had stopped
    errs,          \* errors in the channel of main
    metricsUp,     \* the goroutine of the metrics server has not failed
    loop,          \* the goroutine of Start: where it is and its request
    requestsOpen,  \* requestsChan is not closed
    worker,        \* the fetch workers: where, request, attempts left, what came back
    validateOpen,  \* validateChan is not closed
    val,           \* the validation worker: where, request, body, where to go on
    life,          \* how often the process has been restarted
    fate,          \* what became of each request when it was last read
    replies,       \* answers in the ingress topic
    updates        \* messages in the updates topic

kafkaVars == <<position, committed>>
mainVars == <<main, clean, errs, metricsUp>>
chanVars == <<requestsOpen, validateOpen>>
topicVars == <<replies, updates>>
vars == <<kafkaVars, mainVars, loop, chanVars, worker, val, life, fate, topicVars>>

Offset == 1..Len(Requests)
NoReq == 0

\* Faulty variant: one worker too many (i <= workers).
Worker_OneMore == 0..Concurrency

Worker == 1..Concurrency

\* The body of a response that is not the archive: fetchPayload does not look at
\* the status code, so the page of an error response is validated like an archive.
ErrorPage == <<[kind |-> "bad", event |-> "other", corr |-> Absent, host |-> Absent, text |-> Absent]>>

Body(u, page) == IF page THEN ErrorPage ELSE Requests[u].lines

Verdict(u, page) == verdict(Requests[u].service, ~page /\ Requests[u].big, Body(u, page))

\* How a produced message can end: acknowledged; too large, which is not written
\* and not raised; or failed, when it may still have been written.
Delivery == [landed : BOOLEAN, raised : BOOLEAN]

Alive == main # "exited"

AtRest == [pc |-> "idle", req |-> NoReq, tries |-> 0, page |-> FALSE]
Resting == [pc |-> "idle", req |-> NoReq, page |-> FALSE, next |-> "idle"]

Unstarted == [pc |-> "unstarted", req |-> NoReq]

Init ==
    /\ main = "up" /\ clean = FALSE /\ errs = 0 /\ metricsUp = TRUE
    /\ loop = Unstarted
    /\ requestsOpen = TRUE /\ validateOpen = TRUE
    /\ worker = [w \in Worker |-> AtRest]
    /\ val = Resting
    /\ position = 1 /\ committed = 1
    /\ life = 0
    /\ fate = [u \in Offset |-> "unread"]
    /\ replies = {} /\ updates = <<>>

-----------------------------------------------------------------------------
(* The event loop: NewConsumerEventLoop and onMessage *)

LoopGoto(pc, u) == loop' = [pc |-> pc, req |-> u]
Settle(u, how) == fate' = [fate EXCEPT ![u] = how]
Answer(u, v, landed) ==
    replies' = replies \cup IF landed THEN {[life |-> life, req |-> u, verdict |-> v]} ELSE {}

\* wg.Add is called here, in the goroutine itself.
LoopStart ==
    /\ Alive
    /\ loop.pc = "unstarted"
    /\ LoopGoto("poll", NoReq)
    /\ UNCHANGED <<kafkaVars, mainVars, chanVars, worker, val, life, fate, topicVars>>

\* FilterByHeaderPredicate, json.Unmarshal and IsOrgIdBlocklisted: no answer.
isIgnored(r) == r.service \notin {Playbook, PlaybookSat} \/ ~r.parses \/ r.blocklisted

validateRequest(r) == r.size # 0 /\ r.size <= MaxSize

\* A message is read and the context is not done.
LoopReads ==
    /\ main = "up"
    /\ loop.pc = "poll"
    /\ position \in Offset
    /\ position' = position + 1
    /\ LET r == Requests[position]
       IN  \/ isIgnored(r) /\ Settle(position, "ignored") /\ UNCHANGED loop
           \/ /\ ~isIgnored(r)
              /\ LoopGoto(IF validateRequest(r) THEN "hand" ELSE "refuse", position)
              /\ Settle(position, "inside")
    /\ UNCHANGED <<committed, mainVars, chanVars, worker, val, life, topicVars>>

\* validationFailed, for an upload of no size or too large a size.
LoopRefuses ==
    /\ Alive
    /\ loop.pc = "refuse"
    /\ \E d \in Delivery :
          /\ Answer(loop.req, "failure", d.landed)
          /\ LoopGoto(IF d.raised THEN "raise" ELSE "poll", NoReq)
    /\ Settle(loop.req, "refused")
    /\ UNCHANGED <<kafkaVars, mainVars, chanVars, worker, val, life, updates>>

\* ReadMessage fails for another reason than its timeout.
LoopReadFails ==
    /\ main = "up"
    /\ loop.pc = "poll"
    /\ LoopGoto("raise", NoReq)
    /\ UNCHANGED <<kafkaVars, mainVars, chanVars, worker, val, life, fate, topicVars>>

LoopRaises ==
    /\ Alive
    /\ loop.pc = "raise"
    /\ errs = 0
    /\ errs' = 1
    /\ LoopGoto("poll", NoReq)
    /\ UNCHANGED <<kafkaVars, main, clean, metricsUp, chanVars, worker, val, life, fate, topicVars>>

\* requestsChan: the send and a worker's receive are one step.
LoopHands(w) ==
    /\ Alive
    /\ loop.pc = "hand"
    /\ worker[w].pc = "idle"
    /\ worker' = [worker EXCEPT ![w] =
                    [pc |-> "fetch", req |-> loop.req, tries |-> Retries, page |-> FALSE]]
    /\ LoopGoto("poll", NoReq)
    /\ UNCHANGED <<kafkaVars, mainVars, chanVars, val, life, fate, topicVars>>

\* Faulty variant: the loop leaves without closing requestsChan.
LoopStops_LeftOpen ==
    /\ main = "stopping"
    /\ loop.pc = "poll"
    /\ committed' = position
    /\ LoopGoto("wait", NoReq)
    /\ UNCHANGED <<position, mainVars, chanVars, worker, val, life, fate, topicVars>>

\* The context is done.  What ReadMessage returned meanwhile is dropped, but its
\* offset is committed when the consumer is closed, unless that fails.
LoopStops ==
    /\ main = "stopping"
    /\ loop.pc = "poll"
    /\ \/ position \in Offset /\ position' = position + 1 /\ Settle(position, "dropped")
       \/ UNCHANGED <<position, fate>>
    /\ committed' \in {committed, position'}
    /\ requestsOpen' = FALSE
    /\ LoopGoto("wait", NoReq)
    /\ UNCHANGED <<mainVars, validateOpen, worker, val, life, topicVars>>

\* Faulty variant: the goroutine does not wait for the validation worker.
LoopEnds_NoWait ==
    /\ Alive
    /\ loop.pc = "wait"
    /\ LoopGoto("stopped", NoReq)
    /\ UNCHANGED <<kafkaVars, mainVars, chanVars, worker, val, life, fate, topicVars>>

\* validateWg.Wait, producer.Close and wg.Done.
LoopEnds ==
    /\ Alive
    /\ loop.pc = "wait"
    /\ val.pc = "gone"
    /\ LoopGoto("stopped", NoReq)
    /\ UNCHANGED <<kafkaVars, mainVars, chanVars, worker, val, life, fate, topicVars>>

LoopStep ==
    \/ LoopStart \/ LoopReads \/ LoopRefuses \/ LoopRaises
    \/ (\E w \in Worker : LoopHands(w))
    \/ LoopStops \/ LoopEnds

-----------------------------------------------------------------------------
(* The fetch workers: initiateFetchWorkers and fetchPayload *)

\* The storage answers.  A body that cannot be decompressed is an error.
Fetched(w) ==
    /\ Alive
    /\ worker[w].pc = "fetch"
    /\ \/ /\ \E page \in BOOLEAN :
                worker' = [worker EXCEPT ![w] = [@ EXCEPT !.pc = "hand", !.page = page]]
          /\ UNCHANGED fate
       \/ worker' = [worker EXCEPT ![w] = AtRest] /\ Settle(worker[w].req, "unfetched")
    /\ UNCHANGED <<kafkaVars, mainVars, loop, chanVars, val, life, topicVars>>

\* Faulty variant: a worker whose attempts are used up forgets to give up.
FetchFails_Forgets(w) ==
    /\ Alive
    /\ worker[w].pc = "fetch"
    /\ worker' = [worker EXCEPT ![w] = IF @.tries > 1 THEN [@ EXCEPT !.tries = @ - 1]
                                       ELSE AtRest]
    /\ UNCHANGED <<kafkaVars, mainVars, loop, chanVars, val, life, fate, topicVars>>

\* No response (DoGetWithRetry): after the last attempt the request is left
\* without an answer.
FetchFails(w) ==
    /\ Alive
    /\ worker[w].pc = "fetch"
    /\ \/ /\ worker[w].tries > 1
          /\ worker' = [worker EXCEPT ![w] = [@ EXCEPT !.tries = worker[w].tries - 1]]
          /\ UNCHANGED fate
       \/ /\ worker[w].tries = 1
          /\ worker' = [worker EXCEPT ![w] = AtRest]
          /\ Settle(worker[w].req, "unfetched")
    /\ UNCHANGED <<kafkaVars, mainVars, loop, chanVars, val, life, topicVars>>

\* validateChan: the send and the validation worker's receive are one step.
WorkerHands(w) ==
    /\ Alive
    /\ worker[w].pc = "hand"
    /\ val.pc = "idle"
    /\ val' = [pc |-> "validate", req |-> worker[w].req, page |-> worker[w].page, next |-> "idle"]
    /\ worker' = [worker EXCEPT ![w] = AtRest]
    /\ UNCHANGED <<kafkaVars, mainVars, loop, chanVars, life, fate, topicVars>>

WorkerEnds(w) ==
    /\ Alive
    /\ worker[w].pc = "idle"
    /\ ~requestsOpen
    /\ worker' = [worker EXCEPT ![w] = [@ EXCEPT !.pc = "gone"]]
    /\ UNCHANGED <<kafkaVars, mainVars, loop, chanVars, val, life, fate, topicVars>>

\* Faulty variant: validateChan is closed with the first worker that ends.
CloseValidate_FirstGone ==
    /\ Alive
    /\ validateOpen
    /\ \E w \in Worker : worker[w].pc = "gone"
    /\ validateOpen' = FALSE
    /\ UNCHANGED <<kafkaVars, mainVars, loop, requestsOpen, worker, val, life, fate, topicVars>>

\* workersWg.Wait and close(output).
CloseValidate ==
    /\ Alive
    /\ validateOpen
    /\ \A w \in Worker : worker[w].pc = "gone"
    /\ validateOpen' = FALSE
    /\ UNCHANGED <<kafkaVars, mainVars, loop, requestsOpen, worker, val, life, fate, topicVars>>

WorkerStep(w) == Fetched(w) \/ FetchFails(w) \/ WorkerHands(w) \/ WorkerEnds(w)

-----------------------------------------------------------------------------
(* The validation worker: initiateValidationWorker and validationSteps *)

ValGoto(pc) == val' = [val EXCEPT !.pc = pc]

\* After a produced message: on with next, or first raise the error.
ValProduced(raised, next) ==
    LET after == [Resting EXCEPT !.pc = next]
        onwards == IF next = "idle" THEN after ELSE [val EXCEPT !.pc = next]
    IN  val' = IF raised THEN [onwards EXCEPT !.pc = "raise", !.next = next] ELSE onwards

\* Faulty variants: no return after validationFailed; the worker returns instead.
ValRejects_NoReturn ==
    /\ Alive
    /\ val.pc = "validate"
    /\ Verdict(val.req, val.page) = "failure"
    /\ \E d \in Delivery : Answer(val.req, "failure", d.landed) /\ ValProduced(d.raised, "relay")
    /\ UNCHANGED <<kafkaVars, mainVars, loop, chanVars, worker, life, fate, updates>>
ValRejects_Returns ==
    /\ Alive
    /\ val.pc = "validate"
    /\ Verdict(val.req, val.page) = "failure"
    /\ Answer(val.req, "failure", TRUE)
    /\ val' = [Resting EXCEPT !.pc = "gone"]
    /\ Settle(val.req, "rejected")
    /\ UNCHANGED <<kafkaVars, mainVars, loop, chanVars, worker, life, updates>>

ValRejects ==
    /\ Alive
    /\ val.pc = "validate"
    /\ Verdict(val.req, val.page) = "failure"
    /\ \E d \in Delivery : Answer(val.req, "failure", d.landed) /\ ValProduced(d.raised, "idle")
    /\ Settle(val.req, "rejected")
    /\ UNCHANGED <<kafkaVars, mainVars, loop, chanVars, worker, life, updates>>

\* The answer to ingress comes first; the update follows whatever became of it.
ValAccepts ==
    /\ Alive
    /\ val.pc = "validate"
    /\ Verdict(val.req, val.page) = "success"
    /\ \E d \in Delivery : Answer(val.req, "success", d.landed) /\ ValProduced(d.raised, "relay")
    /\ UNCHANGED <<kafkaVars, mainVars, loop, chanVars, worker, life, fate, updates>>

ValRelays ==
    /\ Alive
    /\ val.pc = "relay"
    /\ \E d \in Delivery :
          /\ updates' = IF d.landed THEN Append(updates, [life |-> life, req |-> val.req])
                        ELSE updates
          /\ Settle(val.req, IF d.landed THEN "relayed" ELSE "unrelayed")
          /\ ValProduced(d.raised, "idle")
    /\ UNCHANGED <<kafkaVars, mainVars, loop, chanVars, worker, life, replies>>

ValRaises ==
    /\ Alive
    /\ val.pc = "raise"
    /\ errs = 0
    /\ errs' = 1
    /\ ValGoto(val.next)
    /\ UNCHANGED <<kafkaVars, main, clean, metricsUp, loop, chanVars, worker, life, fate, topicVars>>

\* A nil console is dereferenced: no goroutine recovers, the process ends.
ValPanics ==
    /\ Alive
    /\ val.pc = "validate"
    /\ Verdict(val.req, val.page) = "panic"
    /\ main' = "exited"
    /\ UNCHANGED <<kafkaVars, clean, errs, metricsUp, loop, chanVars, worker, val, life, fate,
                   topicVars>>

ValEnds ==
    /\ Alive
    /\ val.pc = "idle"
    /\ ~validateOpen
    /\ ValGoto("gone")
    /\ UNCHANGED <<kafkaVars, mainVars, loop, chanVars, worker, life, fate, topicVars>>

ValStep == ValRejects \/ ValAccepts \/ ValRelays \/ ValRaises \/ ValPanics \/ ValEnds

-----------------------------------------------------------------------------
(* Kafka client, metrics server and main *)

\* auto.commit.interval.ms, while the consumer is not closed.
AutoCommit ==
    /\ Alive
    /\ loop.pc \notin {"wait", "stopped"}
    /\ committed' = position
    /\ UNCHANGED <<position, mainVars, loop, chanVars, worker, val, life, fate, topicVars>>

\* metricsServer.Start returns, for instance because its port is taken.
MetricsFails ==
    /\ Alive
    /\ metricsUp
    /\ errs = 0
    /\ errs' = 1
    /\ metricsUp' = FALSE
    /\ UNCHANGED <<kafkaVars, main, clean, loop, chanVars, worker, val, life, fate, topicVars>>

\* The select of run, and the deferred stop that cancels the context.
TakeSignal ==
    /\ main = "up"
    /\ main' = "stopping"
    /\ UNCHANGED <<kafkaVars, clean, errs, metricsUp, loop, chanVars, worker, val, life, fate,
                   topicVars>>

TakeError ==
    /\ main = "up"
    /\ errs = 1
    /\ errs' = 0
    /\ main' = "stopping"
    /\ UNCHANGED <<kafkaVars, clean, metricsUp, loop, chanVars, worker, val, life, fate, topicVars>>

\* WgWaitFor returns: the goroutine of Start has called wg.Done, or not yet wg.Add.
ExitDrained ==
    /\ main = "stopping"
    /\ loop.pc \in {"unstarted", "stopped"}
    /\ main' = "exited"
    /\ clean' = TRUE
    /\ UNCHANGED <<kafkaVars, errs, metricsUp, loop, chanVars, worker, val, life, fate, topicVars>>

\* WgWaitFor times out.
ExitTimeout ==
    /\ main = "stopping"
    /\ main' = "exited"
    /\ UNCHANGED <<kafkaVars, clean, errs, metricsUp, loop, chanVars, worker, val, life, fate,
                   topicVars>>

\* The process is killed.
Crash ==
    /\ Alive
    /\ main' = "exited"
    /\ UNCHANGED <<kafkaVars, clean, errs, metricsUp, loop, chanVars, worker, val, life, fate,
                   topicVars>>

\* Faulty variant: the new process reads on where the old one was.
Restart_ReadsOn ==
    /\ main = "exited"
    /\ life < MaxRestarts
    /\ life' = life + 1
    /\ fate' = [u \in Offset |-> IF fate[u] # "inside" THEN fate[u]
                                 ELSE IF u < committed THEN "lost" ELSE "unread"]
    /\ main' = "up" /\ clean' = FALSE /\ errs' = 0 /\ metricsUp' = TRUE
    /\ loop' = Unstarted
    /\ requestsOpen' = TRUE /\ validateOpen' = TRUE
    /\ worker' = [w \in Worker |-> AtRest]
    /\ val' = Resting
    /\ UNCHANGED <<kafkaVars, topicVars>>

\* What was inside the process is lost if its offset was committed and read
\* again if not.
Restart ==
    /\ main = "exited"
    /\ life < MaxRestarts
    /\ life' = life + 1
    /\ position' = committed
    /\ fate' = [u \in Offset |-> IF fate[u] # "inside" THEN fate[u]
                                 ELSE IF u < committed THEN "lost" ELSE "unread"]
    /\ main' = "up" /\ clean' = FALSE /\ errs' = 0 /\ metricsUp' = TRUE
    /\ loop' = Unstarted
    /\ requestsOpen' = TRUE /\ validateOpen' = TRUE
    /\ worker' = [w \in Worker |-> AtRest]
    /\ val' = Resting
    /\ UNCHANGED <<committed, topicVars>>

MainStep == TakeError \/ ExitDrained

Next ==
    \/ LoopStep \/ LoopReadFails
    \/ \E w \in Worker : WorkerStep(w)
    \/ CloseValidate
    \/ ValStep
    \/ AutoCommit \/ MetricsFails \/ TakeSignal \/ ExitTimeout \/ Crash \/ Restart
    \/ MainStep

Spec == Init /\ [][Next]_vars

\* Goroutines that can run do run: an HTTP request ends by its timeout, a
\* produced message by its delivery report.  Nothing is assumed of signals,
\* failures and restarts.
Fairness ==
    /\ WF_vars(LoopStep)
    /\ \A w \in Worker : WF_vars(WorkerStep(w))
    /\ WF_vars(CloseValidate)
    /\ WF_vars(ValStep)
    /\ WF_vars(MainStep)

FairSpec == Spec /\ Fairness

-----------------------------------------------------------------------------
(* Properties *)

LoopState ==
    [pc : {"unstarted", "poll", "hand", "refuse", "raise", "wait", "stopped"},
     req : Offset \cup {NoReq}]
WorkerState ==
    [pc : {"idle", "fetch", "hand", "gone"}, req : Offset \cup {NoReq},
     tries : 0..Retries, page : BOOLEAN]
ValState ==
    [pc : {"idle", "validate", "relay", "raise", "gone"}, req : Offset \cup {NoReq},
     page : BOOLEAN, next : {"idle", "relay"}]
Fate ==
    {"unread", "inside", "ignored", "refused", "unfetched", "rejected", "relayed",
     "unrelayed", "dropped", "lost"}
Reply == [life : 0..MaxRestarts, req : Offset, verdict : {"success", "failure"}]
Update == [life : 0..MaxRestarts, req : Offset]

\* Types of the state: offsets stay within the topic, and the channel of errors
\* never has more than the one error it has room for.
TypeOK ==
    /\ position \in 1..(Len(Requests) + 1)
    /\ committed \in 1..(Len(Requests) + 1)
    /\ main \in {"up", "stopping", "exited"}
    /\ clean \in BOOLEAN
    /\ errs \in {0, 1}
    /\ metricsUp \in BOOLEAN
    /\ loop \in LoopState
    /\ requestsOpen \in BOOLEAN
    /\ validateOpen \in BOOLEAN
    /\ worker \in [Worker -> WorkerState]
    /\ val \in ValState
    /\ life \in 0..MaxRestarts
    /\ fate \in [Offset -> Fate]
    /\ replies \subseteq Reply
    /\ updates \in Seq(Update)

\* Who has request u in hand.
Holders(u) ==
    {h \in {<<"loop", 0>>} : loop.req = u}
    \cup {h \in {<<"val", 0>>} : val.req = u}
    \cup {<<"worker", w>> : w \in {x \in Worker : worker[x].req = u}}

\* A request that was read and has no outcome yet is in the hands of exactly one
\* goroutine, and one that has an outcome in nobody's: no path through the
\* channels forgets a request or works on it twice.
HeldByOne ==
    \A u \in Offset :
        /\ fate[u] = "inside" => \E h \in Holders(u) : Holders(u) = {h}
        /\ fate[u] # "inside" => Holders(u) = {}

\* No goroutine sends on a closed channel, nobody is left inside when
\* validateChan is closed, and when the producer is closed nobody uses it.
ChannelsSafe ==
    /\ ~requestsOpen => loop.pc \in {"wait", "stopped"}
    /\ ~validateOpen => \A w \in Worker : worker[w].pc = "gone"
    /\ loop.pc = "stopped" => val.pc = "gone"

\* A shutdown that does not time out loses nothing that was taken in: every
\* request read has its outcome when the process ends.
CleanExitDrained ==
    (main = "exited" /\ clean) => \A u \in Offset : fate[u] # "inside"

\* With a single fetch worker updates are produced in the order of their
\* announcements; only the number of workers lets uploads overtake each other.
RelayedInOrder ==
    Concurrency = 1 =>
        \A i, j \in DOMAIN updates :
            (i < j /\ updates[i].life = updates[j].life) => updates[i].req < updates[j].req

\* No request is skipped: every one before the position was given an outcome, is
\* being worked on, or was lost with a process, also after restarts that went
\* back to an earlier commit.
NoneSkipped == \A u \in Offset : u < position => fate[u] # "unread"

\* A process produces the update of a request at most once, whatever errors it
\* meets on the way; duplicates only come from a restart.
RelayedOnce ==
    \A i, j \in DOMAIN updates : i # j => updates[i] # updates[j]

\* An upload that ingress was told to be a failure is not passed on to the
\* response consumers by the process that said so.
FailedNotRelayed ==
    \A r \in replies : r.verdict = "failure" =>
        \A i \in DOMAIN updates : updates[i] # [life |-> r.life, req |-> r.req]

\* What the response consumers get of one process: no upload twice, and none
\* that the process itself rejected (validationSteps).
RelayedSound == RelayedOnce /\ FailedNotRelayed

\* Every request taken in gets an outcome, unless the process is shut down.
Settled ==
    \A u \in Offset : fate[u] = "inside" ~> (fate[u] # "inside" \/ main # "up")

\* Somebody wants to raise an error that nobody will take any more.
Jammed == errs = 1 /\ main = "stopping" /\ (loop.pc = "raise" \/ val.pc = "raise")

\* A shutdown, begun by a signal or by an error, ends by itself before its
\* timeout, unless two more errors follow: the first is left in the channel, the
\* second blocks the goroutine that raises it.
Drains == main = "stopping" ~> (main = "exited" \/ Jammed)

-----------------------------------------------------------------------------
(* The inductive invariant behind the safety properties *)

\* A goroutine has a request exactly at the places where it works on one.
Places ==
    /\ loop.req \in Offset <=> loop.pc \in {"hand", "refuse"}
    /\ \A w \in Worker : worker[w].req \in Offset <=> worker[w].pc \in {"fetch", "hand"}
    /\ val.req \in Offset <=>
          (val.pc \in {"validate", "relay"} \/ (val.pc = "raise" /\ val.next = "relay"))

\* No two goroutines have the same request.
Apart ==
    /\ loop.req = val.req => loop.req = NoReq
    /\ \A w \in Worker : /\ worker[w].req = loop.req => loop.req = NoReq
                         /\ worker[w].req = val.req => val.req = NoReq
    /\ \A v, w \in Worker : (v # w /\ worker[v].req = worker[w].req) => worker[v].req = NoReq

\* A request is inside exactly while some goroutine has it.
InsideIsHeld ==
    \A u \in Offset :
        fate[u] = "inside" <=> (loop.req = u \/ val.req = u \/ \E w \in Worker : worker[w].req = u)

\* The order of the shutdown: loop, requestsChan, workers, validateChan,
\* validation worker, exit.
Shutdown ==
    /\ requestsOpen <=> loop.pc \notin {"wait", "stopped"}
    /\ \A w \in Worker : worker[w].pc = "gone" => ~requestsOpen
    /\ ~validateOpen => \A w \in Worker : worker[w].pc = "gone"
    /\ val.pc = "gone" => ~validateOpen
    /\ loop.pc = "stopped" => val.pc = "gone"
    /\ loop.pc = "unstarted" => val.req = NoReq /\ \A w \in Worker : worker[w].req = NoReq
    /\ clean => main = "exited" /\ loop.pc \in {"unstarted", "stopped"}

\* Offsets: nothing ahead of the position is inside, nothing behind it unread.
Offsets ==
    /\ committed <= position
    /\ \A u \in Offset : u >= position => fate[u] # "inside"
    /\ NoneSkipped

\* What this life of the process has told or relayed is behind it.
History ==
    /\ \A r \in replies :
          r.verdict = "failure" =>
             /\ r.life <= life
             /\ r.life = life => r.req < position /\ fate[r.req] # "inside"
    /\ \A i \in DOMAIN updates :
          /\ updates[i].life <= life
          /\ updates[i].life = life => updates[i].req < position /\ fate[updates[i].req] # "inside"
    /\ FailedNotRelayed
    /\ RelayedOnce

Inv ==
    TypeOK /\ Places /\ Apart /\ InsideIsHeld /\ Shutdown /\ Offsets /\ History

\* With one fetch worker the goroutines form a line: what the validation worker
\* has was read before what the fetch worker has, that before what the loop has,
\* and whatever this life has relayed before all of them.
InLine ==
    /\ \A w \in Worker :
          /\ (val.req \in Offset /\ worker[w].req \in Offset) => val.req < worker[w].req
          /\ (worker[w].req \in Offset /\ loop.req \in Offset) => worker[w].req < loop.req
    /\ (val.req \in Offset /\ loop.req \in Offset) => val.req < loop.req
    /\ \A i \in DOMAIN updates :
          updates[i].life = life =>
             /\ val.req \in Offset => updates[i].req < val.req
             /\ loop.req \in Offset => updates[i].req < loop.req
             /\ \A w \in Worker : worker[w].req \in Offset => updates[i].req < worker[w].req
    /\ \A i, j \in DOMAIN updates :
          (i < j /\ updates[i].life = updates[j].life) => updates[i].req < updates[j].req
=============================================================================
