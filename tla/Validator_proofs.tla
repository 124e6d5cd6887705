-------------------------- MODULE Validator_proofs ---------------------------
(***************************************************************************)
(* Proofs about the validator, for any topic, any number of fetch workers  *)
(* and any number of restarts.                                             *)
(***************************************************************************)
EXTENDS Validator, TLAPS

\* What the proofs use of the constants.
LEMMA ConstantTypes ==
    /\ Len(Requests) \in Nat
    /\ Offset = 1..Len(Requests)
    /\ NoReq = 0
    /\ Worker = 1..Concurrency
    /\ Concurrency \in Nat \ {0}
    /\ Retries \in Nat \ {0}
    /\ MaxRestarts \in Nat
  BY ValidatorAssumption DEF Offset, NoReq, Worker

\* What a step of a fetching worker can be: on to the next attempt or to the
\* handover with the request, or back at rest with the request given up.
FetchStep(w) ==
    /\ worker[w].pc = "fetch" /\ worker[w].req \in Offset
    /\ worker' \in [Worker -> WorkerState]
    /\ \A v \in Worker : v # w => worker'[v] = worker[v]
    /\ \/ /\ worker'[w].pc \in {"fetch", "hand"}
          /\ worker'[w].req = worker[w].req
          /\ fate' = fate
       \/ /\ worker'[w].pc = "idle"
          /\ worker'[w].req = NoReq
          /\ fate' = [fate EXCEPT ![worker[w].req] = "unfetched"]
    /\ UNCHANGED <<position, committed, main, clean, errs, metricsUp, loop,
                   requestsOpen, validateOpen, val, life, replies, updates>>

LEMMA FetchFrame ==
    ASSUME Inv, NEW w \in Worker, Fetched(w) \/ FetchFails(w)
    PROVE  FetchStep(w)
<1> USE ConstantTypes DEF Inv, TypeOK, Places, FetchStep
<1>1. worker[w] \in WorkerState
  OBVIOUS
<1>2. worker[w].pc = "fetch" /\ worker[w].req \in Offset
  BY DEF Fetched, FetchFails
<1>3. UNCHANGED <<position, committed, main, clean, errs, metricsUp, loop,
                  requestsOpen, validateOpen, val, life, replies, updates>>
  BY DEF Fetched, FetchFails, kafkaVars, mainVars, chanVars, topicVars
<1>4. ASSUME NEW s \in WorkerState, worker' = [worker EXCEPT ![w] = s]
      PROVE  /\ worker' \in [Worker -> WorkerState]
             /\ worker'[w] = s
             /\ \A v \in Worker : v # w => worker'[v] = worker[v]
  BY <1>4
<1>5. AtRest \in WorkerState /\ AtRest.pc = "idle" /\ AtRest.req = NoReq
  BY DEF AtRest, WorkerState
<1>6. CASE worker' = [worker EXCEPT ![w] = AtRest] /\ Settle(worker[w].req, "unfetched")
  BY <1>2, <1>3, <1>4, <1>5, <1>6 DEF Settle
<1>7. CASE \E page \in BOOLEAN :
             worker' = [worker EXCEPT ![w] = [@ EXCEPT !.pc = "hand", !.page = page]]
           /\ fate' = fate
  <2>1. PICK page \in BOOLEAN :
             worker' = [worker EXCEPT ![w] = [@ EXCEPT !.pc = "hand", !.page = page]]
           /\ fate' = fate
    BY <1>7
  <2> DEFINE s == [worker[w] EXCEPT !.pc = "hand", !.page = page]
  <2>2. s \in WorkerState /\ s.pc = "hand" /\ s.req = worker[w].req
    BY <1>1 DEF WorkerState
  <2>3. worker' = [worker EXCEPT ![w] = s]
    BY <2>1
  <2> HIDE DEF s
  <2> QED
    BY <1>2, <1>3, <1>4, <2>1, <2>2, <2>3
<1>8. CASE /\ worker[w].tries > 1
           /\ worker' = [worker EXCEPT ![w] = [@ EXCEPT !.tries = worker[w].tries - 1]]
           /\ fate' = fate
  <2> DEFINE s == [worker[w] EXCEPT !.tries = worker[w].tries - 1]
  <2>1. worker[w].tries \in 0..Retries
    BY <1>1 DEF WorkerState
  <2>2. worker[w].tries - 1 \in 0..Retries
    BY <1>8, <2>1
  <2>3. s \in WorkerState /\ s.pc = "fetch" /\ s.req = worker[w].req
    BY <1>1, <1>2, <2>2 DEF WorkerState
  <2>4. worker' = [worker EXCEPT ![w] = s]
    BY <1>8
  <2> HIDE DEF s
  <2> QED
    BY <1>2, <1>3, <1>4, <1>8, <2>3, <2>4
<1> QED
  BY <1>6, <1>7, <1>8 DEF Fetched, FetchFails

\* The validation worker goes on after an error where it was to go on.
LEMMA RaiseFrame ==
    ASSUME Inv, ValRaises
    PROVE  /\ val.pc = "raise" /\ val' \in ValState
           /\ val.next \in {"idle", "relay"}
           /\ val'.pc = val.next /\ val'.req = val.req
           /\ UNCHANGED <<position, committed, main, clean, metricsUp, loop, worker,
                          requestsOpen, validateOpen, life, fate, replies, updates>>
  BY DEF Inv, TypeOK, ValState, ValRaises, ValGoto, kafkaVars, chanVars, topicVars

\* Types of the messages in the topics.
LEMMA TopicTypes ==
    ASSUME Inv
    PROVE  /\ \A r \in replies : r.req \in Offset /\ r.life \in Int
           /\ \A i \in DOMAIN updates : updates[i].req \in Offset /\ updates[i].life \in Int
<1> USE ConstantTypes
<1>1. replies \subseteq Reply /\ updates \in Seq(Update)
  BY DEF Inv, TypeOK
<1>2. \A i \in DOMAIN updates : updates[i] \in Update
  BY <1>1
<1>3. \A m \in Update : m.req \in Offset /\ m.life \in Int
  BY DEF Update
<1>4. \A r \in Reply : r.req \in Offset /\ r.life \in Int
  BY DEF Reply
<1> QED
  BY <1>1, <1>2, <1>3, <1>4

\* Steps that tell and relay nothing, and do not take an outcome back.
LEMMA HistoryKept ==
    ASSUME Inv, UNCHANGED <<replies, updates, life>>, position' \in Int, position' >= position,
           \A u \in Offset : (u < position /\ fate[u] # "inside") => fate'[u] # "inside"
    PROVE  History'
<1> USE ConstantTypes
<1>1. /\ History /\ position \in Int
      /\ replies \subseteq Reply /\ updates \in Seq(Update)
  BY DEF Inv, TypeOK
<1>2. \A r \in replies : r.req \in Offset
  BY TopicTypes
<1>3. \A i \in DOMAIN updates : updates[i].req \in Offset
  BY TopicTypes
<1> QED
  BY <1>1, <1>2, <1>3 DEF History, FailedNotRelayed, RelayedOnce

LEMMA PositionIsInt == Inv => position \in Int
  BY ConstantTypes DEF Inv, TypeOK

\* An answer about a request u that is inside; a failure gives it an outcome.
LEMMA HistoryReply ==
    ASSUME Inv, NEW u \in Offset, fate[u] = "inside", NEW v,
           replies' \subseteq replies \cup {[life |-> life, req |-> u, verdict |-> v]},
           UNCHANGED <<updates, life, position>>,
           \A x \in Offset : fate[x] # "inside" => fate'[x] # "inside",
           v = "failure" => fate'[u] # "inside"
    PROVE  History'
<1> USE ConstantTypes
<1> DEFINE new == [life |-> life, req |-> u, verdict |-> v]
<1>1. /\ History /\ position \in Int /\ life \in Int
      /\ replies \subseteq Reply /\ updates \in Seq(Update)
      /\ u < position
  BY DEF Inv, TypeOK, Offsets
<1>2. \A r \in replies : r.req \in Offset
  BY TopicTypes
<1>3. \A i \in DOMAIN updates : updates[i].req \in Offset
  BY TopicTypes
<1>4. new.life = life /\ new.req = u /\ new.verdict = v
  OBVIOUS
<1> HIDE DEF new
<1>5. \A r \in replies' : r \in replies \/ r = new
  BY DEF new
<1>6. \A i \in DOMAIN updates : updates[i] # [life |-> life, req |-> u]
  BY <1>1 DEF History
<1>7. FailedNotRelayed'
  BY <1>1, <1>4, <1>5, <1>6 DEF History, FailedNotRelayed
<1>8. RelayedOnce'
  BY <1>1 DEF History, RelayedOnce
<1> QED
  BY <1>1, <1>2, <1>3, <1>4, <1>5, <1>7, <1>8 DEF History

\* The update of a request u that is inside and gets its outcome.
LEMMA HistoryRelay ==
    ASSUME Inv, NEW u \in Offset, fate[u] = "inside", NEW how \in Fate, how # "inside",
           updates' \in {updates, Append(updates, [life |-> life, req |-> u])},
           UNCHANGED <<replies, life, position>>,
           fate' = [fate EXCEPT ![u] = how]
    PROVE  History'
<1> USE ConstantTypes
<1> DEFINE new == [life |-> life, req |-> u]
<1>1. /\ History /\ position \in Int /\ life \in 0..MaxRestarts
      /\ replies \subseteq Reply /\ updates \in Seq(Update)
      /\ fate \in [Offset -> Fate]
      /\ u < position
  BY DEF Inv, TypeOK, Offsets
<1>2. \A x \in Offset : fate[x] # "inside" => fate'[x] # "inside"
  BY <1>1
<1>3. fate'[u] # "inside"
  BY <1>1
<1>4. CASE updates' = updates
  BY <1>1, <1>2, <1>4, HistoryKept
<1>5. CASE updates' = Append(updates, new)
  <2>1. /\ Len(updates) \in Nat
        /\ DOMAIN updates = 1..Len(updates)
        /\ DOMAIN updates' = 1..(Len(updates) + 1)
        /\ \A i \in 1..Len(updates) : updates'[i] = updates[i]
        /\ updates'[Len(updates) + 1] = new
    <3>1. new \in Update
      BY <1>1 DEF Update
    <3> QED
      BY <1>1, <1>5, <3>1
  <2>2. \A i \in DOMAIN updates' : (i \in DOMAIN updates /\ updates'[i] = updates[i])
                                     \/ (i = Len(updates) + 1 /\ updates'[i] = new)
    BY <2>1
  <2>3. \A r \in replies : r.req \in Offset
    BY TopicTypes
  <2>4. \A i \in DOMAIN updates : updates[i].req \in Offset
    BY TopicTypes
  <2>5. new.life = life /\ new.req = u
    OBVIOUS
  <2>6. \A i \in DOMAIN updates : updates[i] # new
    BY <1>1 DEF History
  <2>7. \A r \in replies : r.verdict = "failure" => [life |-> r.life, req |-> r.req] # new
    BY <1>1 DEF History
  <2> HIDE DEF new
  <2>8. FailedNotRelayed'
    BY <1>1, <2>2, <2>7 DEF History, FailedNotRelayed
  <2>9. RelayedOnce'
    BY <1>1, <2>1, <2>2, <2>6 DEF History, RelayedOnce
  <2>10. \A r \in replies' :
            r.verdict = "failure" =>
               /\ r.life <= life'
               /\ r.life = life' => r.req < position' /\ fate'[r.req] # "inside"
    BY <1>1, <1>2, <2>3 DEF History
  <2>11. \A i \in DOMAIN updates' :
            /\ updates'[i].life <= life'
            /\ updates'[i].life = life' =>
                  updates'[i].req < position' /\ fate'[updates'[i].req] # "inside"
    BY <1>1, <1>2, <1>3, <2>2, <2>4, <2>5 DEF History
  <2> QED
    BY <2>8, <2>9, <2>10, <2>11 DEF History
<1> QED
  BY <1>4, <1>5

\* Every step keeps the types.
LEMMA TypeStep == Inv /\ [Next]_vars => TypeOK'
<1> SUFFICES ASSUME Inv, [Next]_vars PROVE TypeOK'
  OBVIOUS
<1> USE ConstantTypes DEF Inv, TypeOK
<1>1. CASE LoopStart
  <2>1. loop' \in LoopState
    BY <1>1 DEF LoopStart, LoopGoto, LoopState
  <2> QED
    BY <1>1, <2>1 DEF LoopStart, LoopGoto, kafkaVars, mainVars, chanVars, topicVars
<1>2. CASE LoopReads
  <2>1. loop' \in LoopState
    BY <1>2 DEF LoopReads, LoopGoto, LoopState
  <2>2. fate' \in [Offset -> Fate]
    BY <1>2 DEF LoopReads, Settle, Fate
  <2> QED
    BY <1>2, <2>1, <2>2 DEF LoopReads, LoopGoto, Settle, kafkaVars, mainVars, chanVars, topicVars
<1>3. CASE LoopRefuses
  <2>1. loop.req \in Offset
    BY <1>3 DEF LoopRefuses, Places
  <2>2. loop' \in LoopState
    BY <1>3 DEF LoopRefuses, LoopGoto, LoopState
  <2>3. fate' \in [Offset -> Fate]
    BY <1>3 DEF LoopRefuses, Settle, Fate, Places
  <2>4. replies' \subseteq Reply
    BY <1>3 DEF LoopRefuses, Answer, Reply, Places
  <2> QED
    BY <1>3, <2>1, <2>2, <2>3, <2>4 DEF LoopRefuses, Answer, LoopGoto, Settle, Delivery, kafkaVars, mainVars, chanVars, topicVars
<1>4. CASE LoopRaises
  <2>1. loop' \in LoopState
    BY <1>4 DEF LoopRaises, LoopGoto, LoopState
  <2> QED
    BY <1>4, <2>1 DEF LoopRaises, LoopGoto, kafkaVars, mainVars, chanVars, topicVars
<1>5. CASE \E w \in Worker : LoopHands(w)
  <2> PICK w \in Worker : LoopHands(w)
    BY <1>5
  <2>1. loop' \in LoopState
    BY DEF LoopHands, LoopGoto, LoopState
  <2>2. worker' \in [Worker -> WorkerState]
    BY DEF LoopHands, WorkerState, LoopState
  <2> QED
    BY <2>1, <2>2 DEF LoopHands, LoopGoto, kafkaVars, mainVars, chanVars, topicVars
<1>6. CASE LoopStops
  <2>1. loop' \in LoopState
    BY <1>6 DEF LoopStops, LoopGoto, LoopState
  <2>2. fate' \in [Offset -> Fate]
    BY <1>6 DEF LoopStops, Settle, Fate
  <2>3. position' \in 1..(Len(Requests) + 1)
    BY <1>6 DEF LoopStops, kafkaVars
  <2>4. committed' \in 1..(Len(Requests) + 1)
    BY <1>6, <2>3 DEF LoopStops, kafkaVars
  <2> QED
    BY <1>6, <2>1, <2>2, <2>3, <2>4 DEF LoopStops, LoopGoto, Settle, kafkaVars, mainVars, chanVars, topicVars
<1>7. CASE LoopEnds
  <2>1. loop' \in LoopState
    BY <1>7 DEF LoopEnds, LoopGoto, LoopState
  <2> QED
    BY <1>7, <2>1 DEF LoopEnds, LoopGoto, kafkaVars, mainVars, chanVars, topicVars
<1>8. CASE LoopReadFails
  <2>1. loop' \in LoopState
    BY <1>8 DEF LoopReadFails, LoopGoto, LoopState
  <2> QED
    BY <1>8, <2>1 DEF LoopReadFails, LoopGoto, kafkaVars, mainVars, chanVars, topicVars
<1>9. CASE \E w \in Worker : Fetched(w)
  <2> PICK w \in Worker : Fetched(w)
    BY <1>9
  <2>1. FetchStep(w)
    BY FetchFrame
  <2>2. fate' \in [Offset -> Fate]
    BY <2>1 DEF FetchStep, Fate
  <2> QED
    BY <2>1, <2>2 DEF FetchStep
<1>10. CASE \E w \in Worker : FetchFails(w)
  <2> PICK w \in Worker : FetchFails(w)
    BY <1>10
  <2>1. FetchStep(w)
    BY FetchFrame
  <2>2. fate' \in [Offset -> Fate]
    BY <2>1 DEF FetchStep, Fate
  <2> QED
    BY <2>1, <2>2 DEF FetchStep
<1>11. CASE \E w \in Worker : WorkerHands(w)
  <2> PICK w \in Worker : WorkerHands(w)
    BY <1>11
  <2>1. worker' \in [Worker -> WorkerState]
    BY DEF WorkerHands, AtRest, WorkerState
  <2>2. val' \in ValState
    BY DEF WorkerHands, WorkerState, ValState
  <2> QED
    BY <2>1, <2>2 DEF WorkerHands, AtRest, kafkaVars, mainVars, chanVars, topicVars
<1>12. CASE \E w \in Worker : WorkerEnds(w)
  <2> PICK w \in Worker : WorkerEnds(w)
    BY <1>12
  <2>1. worker[w] \in WorkerState
    BY DEF WorkerEnds
  <2>2. [worker[w] EXCEPT !.pc = "gone"] \in WorkerState
    BY <2>1 DEF WorkerState
  <2>3. worker' \in [Worker -> WorkerState]
    BY <2>2 DEF WorkerEnds
  <2> QED
    BY <2>1, <2>2, <2>3 DEF WorkerEnds, kafkaVars, mainVars, chanVars, topicVars
<1>13. CASE CloseValidate
  BY <1>13 DEF CloseValidate, kafkaVars, mainVars, chanVars, topicVars
<1>14. CASE ValRejects
  <2>1. val' \in ValState
    BY <1>14, ZenonT(40) DEF ValRejects, ValProduced, Resting, ValState
  <2>2. fate' \in [Offset -> Fate]
    BY <1>14 DEF ValRejects, Settle, Fate, Places
  <2>3. replies' \subseteq Reply
    BY <1>14 DEF ValRejects, Answer, Reply, Places
  <2> QED
    BY <1>14, <2>1, <2>2, <2>3 DEF ValRejects, Answer, ValProduced, Resting, Settle, Delivery, kafkaVars, mainVars, chanVars, topicVars
<1>15. CASE ValAccepts
  <2>1. val' \in ValState
    BY <1>15, ZenonT(40) DEF ValAccepts, ValProduced, Resting, ValState
  <2>2. replies' \subseteq Reply
    BY <1>15 DEF ValAccepts, Answer, Reply, Places
  <2> QED
    BY <1>15, <2>1, <2>2 DEF ValAccepts, Answer, ValProduced, Resting, Delivery, kafkaVars, mainVars, chanVars, topicVars
<1>16. CASE ValRelays
  <2>1. val' \in ValState
    BY <1>16, ZenonT(40) DEF ValRelays, ValProduced, Resting, ValState
  <2>2. fate' \in [Offset -> Fate]
    BY <1>16 DEF ValRelays, Settle, Fate, Places
  <2>3. [life |-> life, req |-> val.req] \in Update
    BY <1>16 DEF ValRelays, Update, Places
  <2>4. updates' \in Seq(Update)
    BY <1>16, <2>3 DEF ValRelays
  <2> QED
    BY <1>16, <2>1, <2>2, <2>3, <2>4 DEF ValRelays, ValProduced, Resting, Settle, Delivery, kafkaVars, mainVars, chanVars, topicVars
<1>17. CASE ValRaises
  BY <1>17, RaiseFrame DEF ValRaises, mainVars
<1>18. CASE ValPanics
  BY <1>18 DEF ValPanics, kafkaVars, mainVars, chanVars, topicVars
<1>19. CASE ValEnds
  <2>1. val' \in ValState
    BY <1>19 DEF ValEnds, ValGoto, ValState
  <2> QED
    BY <1>19, <2>1 DEF ValEnds, ValGoto, kafkaVars, mainVars, chanVars, topicVars
<1>20. CASE AutoCommit
  BY <1>20 DEF AutoCommit, kafkaVars, mainVars, chanVars, topicVars
<1>21. CASE MetricsFails
  BY <1>21 DEF MetricsFails, kafkaVars, mainVars, chanVars, topicVars
<1>22. CASE TakeSignal
  BY <1>22 DEF TakeSignal, kafkaVars, mainVars, chanVars, topicVars
<1>23. CASE TakeError
  BY <1>23 DEF TakeError, kafkaVars, mainVars, chanVars, topicVars
<1>24. CASE ExitDrained
  BY <1>24 DEF ExitDrained, kafkaVars, mainVars, chanVars, topicVars
<1>25. CASE ExitTimeout
  BY <1>25 DEF ExitTimeout, kafkaVars, mainVars, chanVars, topicVars
<1>26. CASE Crash
  BY <1>26 DEF Crash, kafkaVars, mainVars, chanVars, topicVars
<1>27. CASE Restart
  <2>1. loop' \in LoopState
    BY <1>27 DEF Restart, Unstarted, LoopState
  <2>2. worker' \in [Worker -> WorkerState]
    BY <1>27 DEF Restart, AtRest, WorkerState
  <2>3. val' \in ValState
    BY <1>27 DEF Restart, Resting, ValState
  <2>4. fate' \in [Offset -> Fate]
    BY <1>27 DEF Restart, Fate
  <2>5. life' \in 0..MaxRestarts /\ position' \in 1..(Len(Requests) + 1)
    BY <1>27 DEF Restart
  <2> QED
    BY <1>27, <2>1, <2>2, <2>3, <2>4, <2>5 DEF Restart, AtRest, Resting, Unstarted, kafkaVars, mainVars, chanVars, topicVars
<1>28. CASE UNCHANGED vars
  BY <1>28 DEF vars, kafkaVars, mainVars, chanVars, topicVars
<1> QED
  BY <1>1, <1>2, <1>3, <1>4, <1>5, <1>6, <1>7, <1>8, <1>9, <1>10, <1>11, <1>12, <1>13, <1>14, <1>15, <1>16, <1>17, <1>18, <1>19, <1>20, <1>21, <1>22, <1>23, <1>24, <1>25, <1>26, <1>27, <1>28
     DEF Next, LoopStep, WorkerStep, ValStep, MainStep

\* Every step keeps requests where they are worked on.
LEMMA PlacesStep == Inv /\ [Next]_vars => Places'
<1> SUFFICES ASSUME Inv, [Next]_vars PROVE Places'
  OBVIOUS
<1> USE ConstantTypes DEF Inv, TypeOK, Places
<1>1. CASE LoopStart
  BY <1>1 DEF LoopStart, LoopGoto, kafkaVars, mainVars, chanVars, topicVars
<1>2. CASE LoopReads
  BY <1>2 DEF LoopReads, LoopGoto, Settle, kafkaVars, mainVars, chanVars, topicVars
<1>3. CASE LoopRefuses
  BY <1>3 DEF LoopRefuses, Answer, LoopGoto, Settle, Delivery, kafkaVars, mainVars, chanVars, topicVars
<1>4. CASE LoopRaises
  BY <1>4 DEF LoopRaises, LoopGoto, kafkaVars, mainVars, chanVars, topicVars
<1>5. CASE \E w \in Worker : LoopHands(w)
  BY <1>5 DEF LoopHands, LoopGoto, kafkaVars, mainVars, chanVars, topicVars
<1>6. CASE LoopStops
  BY <1>6 DEF LoopStops, LoopGoto, Settle, kafkaVars, mainVars, chanVars, topicVars
<1>7. CASE LoopEnds
  BY <1>7 DEF LoopEnds, LoopGoto, kafkaVars, mainVars, chanVars, topicVars
<1>8. CASE LoopReadFails
  BY <1>8 DEF LoopReadFails, LoopGoto, kafkaVars, mainVars, chanVars, topicVars
<1>9. CASE \E w \in Worker : Fetched(w)
  <2> PICK w \in Worker : Fetched(w)
    BY <1>9
  <2>1. FetchStep(w)
    BY FetchFrame
  <2> QED
    BY <2>1 DEF FetchStep
<1>10. CASE \E w \in Worker : FetchFails(w)
  <2> PICK w \in Worker : FetchFails(w)
    BY <1>10
  <2>1. FetchStep(w)
    BY FetchFrame
  <2> QED
    BY <2>1 DEF FetchStep
<1>11. CASE \E w \in Worker : WorkerHands(w)
  BY <1>11 DEF WorkerHands, AtRest, kafkaVars, mainVars, chanVars, topicVars
<1>12. CASE \E w \in Worker : WorkerEnds(w)
  BY <1>12 DEF WorkerEnds, kafkaVars, mainVars, chanVars, topicVars
<1>13. CASE CloseValidate
  BY <1>13 DEF CloseValidate, kafkaVars, mainVars, chanVars, topicVars
<1>14. CASE ValRejects
  BY <1>14 DEF ValRejects, Answer, ValProduced, Resting, Settle, Delivery, kafkaVars, mainVars, chanVars, topicVars
<1>15. CASE ValAccepts
  BY <1>15 DEF ValAccepts, Answer, ValProduced, Resting, Delivery, kafkaVars, mainVars, chanVars, topicVars
<1>16. CASE ValRelays
  BY <1>16 DEF ValRelays, ValProduced, Resting, Settle, Delivery, kafkaVars, mainVars, chanVars, topicVars
<1>17. CASE ValRaises
  BY <1>17, RaiseFrame
<1>18. CASE ValPanics
  BY <1>18 DEF ValPanics, kafkaVars, mainVars, chanVars, topicVars
<1>19. CASE ValEnds
  BY <1>19 DEF ValEnds, ValGoto, kafkaVars, mainVars, chanVars, topicVars
<1>20. CASE AutoCommit
  BY <1>20 DEF AutoCommit, kafkaVars, mainVars, chanVars, topicVars
<1>21. CASE MetricsFails
  BY <1>21 DEF MetricsFails, kafkaVars, mainVars, chanVars, topicVars
<1>22. CASE TakeSignal
  BY <1>22 DEF TakeSignal, kafkaVars, mainVars, chanVars, topicVars
<1>23. CASE TakeError
  BY <1>23 DEF TakeError, kafkaVars, mainVars, chanVars, topicVars
<1>24. CASE ExitDrained
  BY <1>24 DEF ExitDrained, kafkaVars, mainVars, chanVars, topicVars
<1>25. CASE ExitTimeout
  BY <1>25 DEF ExitTimeout, kafkaVars, mainVars, chanVars, topicVars
<1>26. CASE Crash
  BY <1>26 DEF Crash, kafkaVars, mainVars, chanVars, topicVars
<1>27. CASE Restart
  BY <1>27 DEF Restart, AtRest, Resting, Unstarted, kafkaVars, mainVars, chanVars, topicVars
<1>28. CASE UNCHANGED vars
  BY <1>28 DEF vars, kafkaVars, mainVars, chanVars, topicVars
<1> QED
  BY <1>1, <1>2, <1>3, <1>4, <1>5, <1>6, <1>7, <1>8, <1>9, <1>10, <1>11, <1>12, <1>13, <1>14, <1>15, <1>16, <1>17, <1>18, <1>19, <1>20, <1>21, <1>22, <1>23, <1>24, <1>25, <1>26, <1>27, <1>28
     DEF Next, LoopStep, WorkerStep, ValStep, MainStep

\* Every step keeps the order of the shutdown.
LEMMA ShutdownStep == Inv /\ [Next]_vars => Shutdown'
<1> SUFFICES ASSUME Inv, [Next]_vars PROVE Shutdown'
  OBVIOUS
<1> USE ConstantTypes DEF Inv, TypeOK, Places, Shutdown
<1>1. CASE LoopStart
  BY <1>1 DEF LoopStart, LoopGoto, Alive, kafkaVars, mainVars, chanVars, topicVars
<1>2. CASE LoopReads
  BY <1>2 DEF LoopReads, LoopGoto, Settle, kafkaVars, mainVars, chanVars, topicVars
<1>3. CASE LoopRefuses
  BY <1>3 DEF LoopRefuses, Answer, LoopGoto, Settle, Delivery, kafkaVars, mainVars, chanVars, topicVars
<1>4. CASE LoopRaises
  BY <1>4 DEF LoopRaises, LoopGoto, kafkaVars, mainVars, chanVars, topicVars
<1>5. CASE \E w \in Worker : LoopHands(w)
  BY <1>5 DEF LoopHands, LoopGoto, kafkaVars, mainVars, chanVars, topicVars
<1>6. CASE LoopStops
  BY <1>6 DEF LoopStops, LoopGoto, Settle, kafkaVars, mainVars, chanVars, topicVars
<1>7. CASE LoopEnds
  BY <1>7 DEF LoopEnds, LoopGoto, kafkaVars, mainVars, chanVars, topicVars
<1>8. CASE LoopReadFails
  BY <1>8 DEF LoopReadFails, LoopGoto, kafkaVars, mainVars, chanVars, topicVars
<1>9. CASE \E w \in Worker : Fetched(w)
  <2> PICK w \in Worker : Fetched(w)
    BY <1>9
  <2>1. FetchStep(w)
    BY FetchFrame
  <2> QED
    BY <2>1 DEF FetchStep
<1>10. CASE \E w \in Worker : FetchFails(w)
  <2> PICK w \in Worker : FetchFails(w)
    BY <1>10
  <2>1. FetchStep(w)
    BY FetchFrame
  <2> QED
    BY <2>1 DEF FetchStep
<1>11. CASE \E w \in Worker : WorkerHands(w)
  BY <1>11 DEF WorkerHands, AtRest, kafkaVars, mainVars, chanVars, topicVars
<1>12. CASE \E w \in Worker : WorkerEnds(w)
  BY <1>12 DEF WorkerEnds, kafkaVars, mainVars, chanVars, topicVars
<1>13. CASE CloseValidate
  BY <1>13 DEF CloseValidate, kafkaVars, mainVars, chanVars, topicVars
<1>14. CASE ValRejects
  BY <1>14 DEF ValRejects, Answer, ValProduced, Resting, Settle, Delivery, kafkaVars, mainVars, chanVars, topicVars
<1>15. CASE ValAccepts
  BY <1>15 DEF ValAccepts, Answer, ValProduced, Resting, Delivery, kafkaVars, mainVars, chanVars, topicVars
<1>16. CASE ValRelays
  BY <1>16 DEF ValRelays, ValProduced, Resting, Settle, Delivery, kafkaVars, mainVars, chanVars, topicVars
<1>17. CASE ValRaises
  BY <1>17, RaiseFrame
<1>18. CASE ValPanics
  BY <1>18 DEF ValPanics, kafkaVars, mainVars, chanVars, topicVars
<1>19. CASE ValEnds
  BY <1>19 DEF ValEnds, ValGoto, kafkaVars, mainVars, chanVars, topicVars
<1>20. CASE AutoCommit
  BY <1>20 DEF AutoCommit, kafkaVars, mainVars, chanVars, topicVars
<1>21. CASE MetricsFails
  BY <1>21 DEF MetricsFails, kafkaVars, mainVars, chanVars, topicVars
<1>22. CASE TakeSignal
  BY <1>22 DEF TakeSignal, kafkaVars, mainVars, chanVars, topicVars
<1>23. CASE TakeError
  BY <1>23 DEF TakeError, kafkaVars, mainVars, chanVars, topicVars
<1>24. CASE ExitDrained
  BY <1>24 DEF ExitDrained, kafkaVars, mainVars, chanVars, topicVars
<1>25. CASE ExitTimeout
  BY <1>25 DEF ExitTimeout, kafkaVars, mainVars, chanVars, topicVars
<1>26. CASE Crash
  BY <1>26 DEF Crash, kafkaVars, mainVars, chanVars, topicVars
<1>27. CASE Restart
  BY <1>27 DEF Restart, AtRest, Resting, Unstarted, kafkaVars, mainVars, chanVars, topicVars
<1>28. CASE UNCHANGED vars
  BY <1>28 DEF vars, kafkaVars, mainVars, chanVars, topicVars
<1> QED
  BY <1>1, <1>2, <1>3, <1>4, <1>5, <1>6, <1>7, <1>8, <1>9, <1>10, <1>11, <1>12, <1>13, <1>14, <1>15, <1>16, <1>17, <1>18, <1>19, <1>20, <1>21, <1>22, <1>23, <1>24, <1>25, <1>26, <1>27, <1>28
     DEF Next, LoopStep, WorkerStep, ValStep, MainStep

\* No step gives a request to two goroutines.
LEMMA ApartStep == Inv /\ [Next]_vars => Apart'
<1> SUFFICES ASSUME Inv, [Next]_vars PROVE Apart'
  OBVIOUS
<1> USE ConstantTypes DEF Inv, TypeOK, Apart
<1>1. CASE LoopStart
  BY <1>1 DEF LoopStart, LoopGoto, kafkaVars, mainVars, chanVars, topicVars
<1>2. CASE LoopReads
  BY <1>2 DEF InsideIsHeld, Offsets, LoopReads, LoopGoto, Settle, kafkaVars, mainVars, chanVars, topicVars
<1>3. CASE LoopRefuses
  BY <1>3 DEF LoopRefuses, Answer, LoopGoto, Settle, Delivery, kafkaVars, mainVars, chanVars, topicVars
<1>4. CASE LoopRaises
  BY <1>4 DEF LoopRaises, LoopGoto, kafkaVars, mainVars, chanVars, topicVars
<1>5. CASE \E w \in Worker : LoopHands(w)
  BY <1>5 DEF LoopHands, LoopGoto, kafkaVars, mainVars, chanVars, topicVars
<1>6. CASE LoopStops
  BY <1>6 DEF LoopStops, LoopGoto, Settle, kafkaVars, mainVars, chanVars, topicVars
<1>7. CASE LoopEnds
  BY <1>7 DEF LoopEnds, LoopGoto, kafkaVars, mainVars, chanVars, topicVars
<1>8. CASE LoopReadFails
  BY <1>8 DEF LoopReadFails, LoopGoto, kafkaVars, mainVars, chanVars, topicVars
<1>9. CASE \E w \in Worker : Fetched(w)
  <2> PICK w \in Worker : Fetched(w)
    BY <1>9
  <2>1. FetchStep(w)
    BY FetchFrame
  <2>2. /\ \A v \in Worker : worker'[v].req \in {worker[v].req, NoReq}
        /\ loop' = loop /\ val' = val
    BY <2>1 DEF FetchStep
  <2> QED
    BY <2>2
<1>10. CASE \E w \in Worker : FetchFails(w)
  <2> PICK w \in Worker : FetchFails(w)
    BY <1>10
  <2>1. FetchStep(w)
    BY FetchFrame
  <2>2. /\ \A v \in Worker : worker'[v].req \in {worker[v].req, NoReq}
        /\ loop' = loop /\ val' = val
    BY <2>1 DEF FetchStep
  <2> QED
    BY <2>2
<1>11. CASE \E w \in Worker : WorkerHands(w)
  BY <1>11 DEF WorkerHands, AtRest, kafkaVars, mainVars, chanVars, topicVars
<1>12. CASE \E w \in Worker : WorkerEnds(w)
  BY <1>12 DEF WorkerEnds, kafkaVars, mainVars, chanVars, topicVars
<1>13. CASE CloseValidate
  BY <1>13 DEF CloseValidate, kafkaVars, mainVars, chanVars, topicVars
<1>14. CASE ValRejects
  BY <1>14 DEF ValRejects, Answer, ValProduced, Resting, Settle, Delivery, kafkaVars, mainVars, chanVars, topicVars
<1>15. CASE ValAccepts
  BY <1>15 DEF ValAccepts, Answer, ValProduced, Resting, Delivery, kafkaVars, mainVars, chanVars, topicVars
<1>16. CASE ValRelays
  BY <1>16 DEF ValRelays, ValProduced, Resting, Settle, Delivery, kafkaVars, mainVars, chanVars, topicVars
<1>17. CASE ValRaises
  BY <1>17, RaiseFrame
<1>18. CASE ValPanics
  BY <1>18 DEF ValPanics, kafkaVars, mainVars, chanVars, topicVars
<1>19. CASE ValEnds
  BY <1>19 DEF ValEnds, ValGoto, kafkaVars, mainVars, chanVars, topicVars
<1>20. CASE AutoCommit
  BY <1>20 DEF AutoCommit, kafkaVars, mainVars, chanVars, topicVars
<1>21. CASE MetricsFails
  BY <1>21 DEF MetricsFails, kafkaVars, mainVars, chanVars, topicVars
<1>22. CASE TakeSignal
  BY <1>22 DEF TakeSignal, kafkaVars, mainVars, chanVars, topicVars
<1>23. CASE TakeError
  BY <1>23 DEF TakeError, kafkaVars, mainVars, chanVars, topicVars
<1>24. CASE ExitDrained
  BY <1>24 DEF ExitDrained, kafkaVars, mainVars, chanVars, topicVars
<1>25. CASE ExitTimeout
  BY <1>25 DEF ExitTimeout, kafkaVars, mainVars, chanVars, topicVars
<1>26. CASE Crash
  BY <1>26 DEF Crash, kafkaVars, mainVars, chanVars, topicVars
<1>27. CASE Restart
  BY <1>27 DEF Restart, AtRest, Resting, Unstarted, kafkaVars, mainVars, chanVars, topicVars
<1>28. CASE UNCHANGED vars
  BY <1>28 DEF vars, kafkaVars, mainVars, chanVars, topicVars
<1> QED
  BY <1>1, <1>2, <1>3, <1>4, <1>5, <1>6, <1>7, <1>8, <1>9, <1>10, <1>11, <1>12, <1>13, <1>14, <1>15, <1>16, <1>17, <1>18, <1>19, <1>20, <1>21, <1>22, <1>23, <1>24, <1>25, <1>26, <1>27, <1>28
     DEF Next, LoopStep, WorkerStep, ValStep, MainStep

\* Every step that takes a request from the last goroutine gives it an outcome.
LEMMA InsideStep == Inv /\ [Next]_vars => InsideIsHeld'
<1> SUFFICES ASSUME Inv, [Next]_vars PROVE InsideIsHeld'
  OBVIOUS
<1> USE ConstantTypes DEF Inv, TypeOK, Places, InsideIsHeld
<1>1. CASE LoopStart
  BY <1>1 DEF LoopStart, LoopGoto, kafkaVars, mainVars, chanVars, topicVars
<1>2. CASE LoopReads
  BY <1>2 DEF Offsets, Apart, LoopReads, LoopGoto, Settle, kafkaVars, mainVars, chanVars, topicVars
<1>3. CASE LoopRefuses
  BY <1>3 DEF Apart, LoopRefuses, Answer, LoopGoto, Settle, Delivery, kafkaVars, mainVars, chanVars, topicVars
<1>4. CASE LoopRaises
  BY <1>4 DEF LoopRaises, LoopGoto, kafkaVars, mainVars, chanVars, topicVars
<1>5. CASE \E w \in Worker : LoopHands(w)
  <2> PICK w \in Worker : LoopHands(w)
    BY <1>5
  <2>1. /\ worker[w].req \notin Offset
        /\ worker'[w].req = loop.req
        /\ \A v \in Worker : v # w => worker'[v].req = worker[v].req
        /\ loop'.req = NoReq /\ loop.req \in Offset
        /\ val' = val /\ fate' = fate
        /\ InsideIsHeld
    BY ZenonT(40) DEF LoopHands, LoopGoto
  <2> HIDE DEF Inv, TypeOK, Places
  <2> QED
    BY <2>1
<1>6. CASE LoopStops
  BY <1>6 DEF Offsets, LoopStops, LoopGoto, Settle, kafkaVars, mainVars, chanVars, topicVars
<1>7. CASE LoopEnds
  BY <1>7 DEF LoopEnds, LoopGoto, kafkaVars, mainVars, chanVars, topicVars
<1>8. CASE LoopReadFails
  BY <1>8 DEF LoopReadFails, LoopGoto, kafkaVars, mainVars, chanVars, topicVars
<1>9. CASE \E w \in Worker : Fetched(w)
  <2> PICK w \in Worker : Fetched(w)
    BY <1>9
  <2>1. FetchStep(w)
    BY FetchFrame
  <2>2. /\ \A v \in Worker : v # w => worker'[v].req = worker[v].req
        /\ worker[w].req \in Offset
        /\ loop' = loop /\ val' = val
        /\ fate \in [Offset -> Fate]
        /\ InsideIsHeld
    BY <2>1 DEF FetchStep
  <2>3. /\ loop.req # worker[w].req /\ val.req # worker[w].req
        /\ \A v \in Worker : v # w => worker[v].req # worker[w].req
    BY <2>2 DEF Apart
  <2>4. \/ worker'[w].req = worker[w].req /\ fate' = fate
        \/ /\ worker'[w].req = NoReq
           /\ fate' = [fate EXCEPT ![worker[w].req] = "unfetched"]
    BY <2>1 DEF FetchStep
  <2> HIDE DEF Inv, TypeOK, Places
  <2>5. CASE worker'[w].req = worker[w].req /\ fate' = fate
    <3>1. \A v \in Worker : worker'[v].req = worker[v].req
      BY <2>2, <2>5
    <3> QED
      BY <2>2, <2>5, <3>1
  <2>6. CASE /\ worker'[w].req = NoReq
             /\ fate' = [fate EXCEPT ![worker[w].req] = "unfetched"]
    <3>1. \A u \in Offset : u # worker[w].req => fate'[u] = fate[u]
      BY <2>2, <2>6
    <3>2. fate'[worker[w].req] # "inside"
      BY <2>2, <2>6
    <3>3. \A u \in Offset : \A v \in Worker :
             worker'[v].req = u <=> (u # worker[w].req /\ worker[v].req = u)
      BY <2>2, <2>3, <2>6
    <3> QED
      BY <2>2, <2>3, <3>1, <3>2, <3>3
  <2> QED
    BY <2>4, <2>5, <2>6
<1>10. CASE \E w \in Worker : FetchFails(w)
  <2> PICK w \in Worker : FetchFails(w)
    BY <1>10
  <2>1. FetchStep(w)
    BY FetchFrame
  <2>2. /\ \A v \in Worker : v # w => worker'[v].req = worker[v].req
        /\ worker[w].req \in Offset
        /\ loop' = loop /\ val' = val
        /\ fate \in [Offset -> Fate]
        /\ InsideIsHeld
    BY <2>1 DEF FetchStep
  <2>3. /\ loop.req # worker[w].req /\ val.req # worker[w].req
        /\ \A v \in Worker : v # w => worker[v].req # worker[w].req
    BY <2>2 DEF Apart
  <2>4. \/ worker'[w].req = worker[w].req /\ fate' = fate
        \/ /\ worker'[w].req = NoReq
           /\ fate' = [fate EXCEPT ![worker[w].req] = "unfetched"]
    BY <2>1 DEF FetchStep
  <2> HIDE DEF Inv, TypeOK, Places
  <2>5. CASE worker'[w].req = worker[w].req /\ fate' = fate
    <3>1. \A v \in Worker : worker'[v].req = worker[v].req
      BY <2>2, <2>5
    <3> QED
      BY <2>2, <2>5, <3>1
  <2>6. CASE /\ worker'[w].req = NoReq
             /\ fate' = [fate EXCEPT ![worker[w].req] = "unfetched"]
    <3>1. \A u \in Offset : u # worker[w].req => fate'[u] = fate[u]
      BY <2>2, <2>6
    <3>2. fate'[worker[w].req] # "inside"
      BY <2>2, <2>6
    <3>3. \A u \in Offset : \A v \in Worker :
             worker'[v].req = u <=> (u # worker[w].req /\ worker[v].req = u)
      BY <2>2, <2>3, <2>6
    <3> QED
      BY <2>2, <2>3, <3>1, <3>2, <3>3
  <2> QED
    BY <2>4, <2>5, <2>6
<1>11. CASE \E w \in Worker : WorkerHands(w)
  BY <1>11 DEF WorkerHands, AtRest, kafkaVars, mainVars, chanVars, topicVars
<1>12. CASE \E w \in Worker : WorkerEnds(w)
  BY <1>12 DEF WorkerEnds, kafkaVars, mainVars, chanVars, topicVars
<1>13. CASE CloseValidate
  BY <1>13 DEF CloseValidate, kafkaVars, mainVars, chanVars, topicVars
<1>14. CASE ValRejects
  BY <1>14 DEF Apart, ValRejects, Answer, ValProduced, Resting, Settle, Delivery, kafkaVars, mainVars, chanVars, topicVars
<1>15. CASE ValAccepts
  BY <1>15 DEF ValAccepts, Answer, ValProduced, Resting, Delivery, kafkaVars, mainVars, chanVars, topicVars
<1>16. CASE ValRelays
  BY <1>16, SMTT(30) DEF Apart, ValRelays, ValProduced, Resting, Settle, Delivery, kafkaVars, mainVars, chanVars, topicVars
<1>17. CASE ValRaises
  BY <1>17, RaiseFrame, SMTT(30)
<1>18. CASE ValPanics
  BY <1>18 DEF ValPanics, kafkaVars, mainVars, chanVars, topicVars
<1>19. CASE ValEnds
  BY <1>19 DEF ValEnds, ValGoto, kafkaVars, mainVars, chanVars, topicVars
<1>20. CASE AutoCommit
  BY <1>20 DEF AutoCommit, kafkaVars, mainVars, chanVars, topicVars
<1>21. CASE MetricsFails
  BY <1>21 DEF MetricsFails, kafkaVars, mainVars, chanVars, topicVars
<1>22. CASE TakeSignal
  BY <1>22 DEF TakeSignal, kafkaVars, mainVars, chanVars, topicVars
<1>23. CASE TakeError
  BY <1>23 DEF TakeError, kafkaVars, mainVars, chanVars, topicVars
<1>24. CASE ExitDrained
  BY <1>24 DEF ExitDrained, kafkaVars, mainVars, chanVars, topicVars
<1>25. CASE ExitTimeout
  BY <1>25 DEF ExitTimeout, kafkaVars, mainVars, chanVars, topicVars
<1>26. CASE Crash
  BY <1>26 DEF Crash, kafkaVars, mainVars, chanVars, topicVars
<1>27. CASE Restart
  BY <1>27 DEF Restart, AtRest, Resting, Unstarted, kafkaVars, mainVars, chanVars, topicVars
<1>28. CASE UNCHANGED vars
  BY <1>28 DEF vars, kafkaVars, mainVars, chanVars, topicVars
<1> QED
  BY <1>1, <1>2, <1>3, <1>4, <1>5, <1>6, <1>7, <1>8, <1>9, <1>10, <1>11, <1>12, <1>13, <1>14, <1>15, <1>16, <1>17, <1>18, <1>19, <1>20, <1>21, <1>22, <1>23, <1>24, <1>25, <1>26, <1>27, <1>28
     DEF Next, LoopStep, WorkerStep, ValStep, MainStep

\* Every step keeps the offsets in order.
LEMMA OffsetsStep == Inv /\ [Next]_vars => Offsets'
<1> SUFFICES ASSUME Inv, [Next]_vars PROVE Offsets'
  OBVIOUS
<1> USE ConstantTypes DEF Inv, TypeOK, Places, Offsets, NoneSkipped
<1>1. CASE LoopStart
  BY <1>1 DEF LoopStart, LoopGoto, kafkaVars, mainVars, chanVars, topicVars
<1>2. CASE LoopReads
  BY <1>2 DEF LoopReads, LoopGoto, Settle, kafkaVars, mainVars, chanVars, topicVars
<1>3. CASE LoopRefuses
  BY <1>3 DEF LoopRefuses, Answer, LoopGoto, Settle, Delivery, kafkaVars, mainVars, chanVars, topicVars
<1>4. CASE LoopRaises
  BY <1>4 DEF LoopRaises, LoopGoto, kafkaVars, mainVars, chanVars, topicVars
<1>5. CASE \E w \in Worker : LoopHands(w)
  BY <1>5 DEF LoopHands, LoopGoto, kafkaVars, mainVars, chanVars, topicVars
<1>6. CASE LoopStops
  BY <1>6 DEF LoopStops, LoopGoto, Settle, kafkaVars, mainVars, chanVars, topicVars
<1>7. CASE LoopEnds
  BY <1>7 DEF LoopEnds, LoopGoto, kafkaVars, mainVars, chanVars, topicVars
<1>8. CASE LoopReadFails
  BY <1>8 DEF LoopReadFails, LoopGoto, kafkaVars, mainVars, chanVars, topicVars
<1>9. CASE \E w \in Worker : Fetched(w)
  <2> PICK w \in Worker : Fetched(w)
    BY <1>9
  <2>1. FetchStep(w)
    BY FetchFrame
  <2> QED
    BY <2>1, SMTT(30) DEF FetchStep
<1>10. CASE \E w \in Worker : FetchFails(w)
  <2> PICK w \in Worker : FetchFails(w)
    BY <1>10
  <2>1. FetchStep(w)
    BY FetchFrame
  <2> QED
    BY <2>1, SMTT(30) DEF FetchStep
<1>11. CASE \E w \in Worker : WorkerHands(w)
  BY <1>11 DEF WorkerHands, AtRest, kafkaVars, mainVars, chanVars, topicVars
<1>12. CASE \E w \in Worker : WorkerEnds(w)
  BY <1>12 DEF WorkerEnds, kafkaVars, mainVars, chanVars, topicVars
<1>13. CASE CloseValidate
  BY <1>13 DEF CloseValidate, kafkaVars, mainVars, chanVars, topicVars
<1>14. CASE ValRejects
  BY <1>14 DEF ValRejects, Answer, ValProduced, Resting, Settle, Delivery, kafkaVars, mainVars, chanVars, topicVars
<1>15. CASE ValAccepts
  BY <1>15 DEF ValAccepts, Answer, ValProduced, Resting, Delivery, kafkaVars, mainVars, chanVars, topicVars
<1>16. CASE ValRelays
  BY <1>16 DEF ValRelays, ValProduced, Resting, Settle, Delivery, kafkaVars, mainVars, chanVars, topicVars
<1>17. CASE ValRaises
  BY <1>17, RaiseFrame
<1>18. CASE ValPanics
  BY <1>18 DEF ValPanics, kafkaVars, mainVars, chanVars, topicVars
<1>19. CASE ValEnds
  BY <1>19 DEF ValEnds, ValGoto, kafkaVars, mainVars, chanVars, topicVars
<1>20. CASE AutoCommit
  BY <1>20 DEF AutoCommit, kafkaVars, mainVars, chanVars, topicVars
<1>21. CASE MetricsFails
  BY <1>21 DEF MetricsFails, kafkaVars, mainVars, chanVars, topicVars
<1>22. CASE TakeSignal
  BY <1>22 DEF TakeSignal, kafkaVars, mainVars, chanVars, topicVars
<1>23. CASE TakeError
  BY <1>23 DEF TakeError, kafkaVars, mainVars, chanVars, topicVars
<1>24. CASE ExitDrained
  BY <1>24 DEF ExitDrained, kafkaVars, mainVars, chanVars, topicVars
<1>25. CASE ExitTimeout
  BY <1>25 DEF ExitTimeout, kafkaVars, mainVars, chanVars, topicVars
<1>26. CASE Crash
  BY <1>26 DEF Crash, kafkaVars, mainVars, chanVars, topicVars
<1>27. CASE Restart
  BY <1>27 DEF Restart, AtRest, Resting, Unstarted, kafkaVars, mainVars, chanVars, topicVars
<1>28. CASE UNCHANGED vars
  BY <1>28 DEF vars, kafkaVars, mainVars, chanVars, topicVars
<1> QED
  BY <1>1, <1>2, <1>3, <1>4, <1>5, <1>6, <1>7, <1>8, <1>9, <1>10, <1>11, <1>12, <1>13, <1>14, <1>15, <1>16, <1>17, <1>18, <1>19, <1>20, <1>21, <1>22, <1>23, <1>24, <1>25, <1>26, <1>27, <1>28
     DEF Next, LoopStep, WorkerStep, ValStep, MainStep

\* Every step keeps what was told and relayed behind the process.
LEMMA HistoryStep == Inv /\ [Next]_vars => History'
<1> SUFFICES ASSUME Inv, [Next]_vars PROVE History'
  OBVIOUS
<1> USE ConstantTypes
<1>1. CASE LoopStart
  <2>1. UNCHANGED <<replies, updates, life, position, fate>>
    BY <1>1 DEF LoopStart, kafkaVars, topicVars
  <2> QED
    BY <2>1, PositionIsInt, HistoryKept
<1>2. CASE LoopReads
  <2>1. position \in Int /\ fate \in [Offset -> Fate]
    BY DEF Inv, TypeOK
  <2>2. /\ UNCHANGED <<replies, updates, life>>
        /\ position' \in Int /\ position' >= position
        /\ \A u \in Offset : u < position => fate'[u] = fate[u]
    BY <1>2, <2>1 DEF LoopReads, Settle, kafkaVars, topicVars
  <2> QED
    BY <2>2, HistoryKept
<1>3. CASE LoopRefuses
  <2>1. loop.req \in Offset /\ fate \in [Offset -> Fate] /\ fate[loop.req] = "inside"
    BY <1>3 DEF Inv, TypeOK, Places, InsideIsHeld, LoopRefuses
  <2>2. /\ replies' \subseteq replies \cup {[life |-> life, req |-> loop.req, verdict |-> "failure"]}
        /\ UNCHANGED <<updates, life, position>>
        /\ fate' = [fate EXCEPT ![loop.req] = "refused"]
    BY <1>3 DEF LoopRefuses, Answer, Settle, kafkaVars
  <2> QED
    BY <2>1, <2>2, HistoryReply
<1>4. CASE LoopRaises
  <2>1. UNCHANGED <<replies, updates, life, position, fate>>
    BY <1>4 DEF LoopRaises, kafkaVars, topicVars
  <2> QED
    BY <2>1, PositionIsInt, HistoryKept
<1>5. CASE \E w \in Worker : LoopHands(w)
  <2>1. UNCHANGED <<replies, updates, life, position, fate>>
    BY <1>5 DEF LoopHands, kafkaVars, topicVars
  <2> QED
    BY <2>1, PositionIsInt, HistoryKept
<1>6. CASE LoopStops
  <2>1. position \in Int /\ fate \in [Offset -> Fate]
    BY DEF Inv, TypeOK
  <2>2. /\ UNCHANGED <<replies, updates, life>>
        /\ position' \in Int /\ position' >= position
        /\ \A u \in Offset : u < position => fate'[u] = fate[u]
    BY <1>6, <2>1 DEF LoopStops, Settle, kafkaVars, topicVars
  <2> QED
    BY <2>2, HistoryKept
<1>7. CASE LoopEnds
  <2>1. UNCHANGED <<replies, updates, life, position, fate>>
    BY <1>7 DEF LoopEnds, kafkaVars, topicVars
  <2> QED
    BY <2>1, PositionIsInt, HistoryKept
<1>8. CASE LoopReadFails
  <2>1. UNCHANGED <<replies, updates, life, position, fate>>
    BY <1>8 DEF LoopReadFails, kafkaVars, topicVars
  <2> QED
    BY <2>1, PositionIsInt, HistoryKept
<1>9. CASE \E w \in Worker : Fetched(w)
  <2> PICK w \in Worker : Fetched(w)
    BY <1>9
  <2>1. FetchStep(w)
    BY FetchFrame
  <2>2. position \in Int /\ fate \in [Offset -> Fate]
    BY DEF Inv, TypeOK
  <2> QED
    BY <2>1, <2>2, HistoryKept DEF FetchStep
<1>10. CASE \E w \in Worker : FetchFails(w)
  <2> PICK w \in Worker : FetchFails(w)
    BY <1>10
  <2>1. FetchStep(w)
    BY FetchFrame
  <2>2. position \in Int /\ fate \in [Offset -> Fate]
    BY DEF Inv, TypeOK
  <2> QED
    BY <2>1, <2>2, HistoryKept DEF FetchStep
<1>11. CASE \E w \in Worker : WorkerHands(w)
  <2>1. UNCHANGED <<replies, updates, life, position, fate>>
    BY <1>11 DEF WorkerHands, kafkaVars, topicVars
  <2> QED
    BY <2>1, PositionIsInt, HistoryKept
<1>12. CASE \E w \in Worker : WorkerEnds(w)
  <2>1. UNCHANGED <<replies, updates, life, position, fate>>
    BY <1>12 DEF WorkerEnds, kafkaVars, topicVars
  <2> QED
    BY <2>1, PositionIsInt, HistoryKept
<1>13. CASE CloseValidate
  <2>1. UNCHANGED <<replies, updates, life, position, fate>>
    BY <1>13 DEF CloseValidate, kafkaVars, topicVars
  <2> QED
    BY <2>1, PositionIsInt, HistoryKept
<1>14. CASE ValRejects
  <2>1. val.req \in Offset /\ fate \in [Offset -> Fate] /\ fate[val.req] = "inside"
    BY <1>14 DEF Inv, TypeOK, Places, InsideIsHeld, ValRejects
  <2>2. /\ replies' \subseteq replies \cup {[life |-> life, req |-> val.req, verdict |-> "failure"]}
        /\ UNCHANGED <<updates, life, position>>
        /\ fate' = [fate EXCEPT ![val.req] = "rejected"]
    BY <1>14 DEF ValRejects, Answer, Settle, kafkaVars
  <2> QED
    BY <2>1, <2>2, HistoryReply
<1>15. CASE ValAccepts
  <2>1. val.req \in Offset /\ fate \in [Offset -> Fate] /\ fate[val.req] = "inside"
    BY <1>15 DEF Inv, TypeOK, Places, InsideIsHeld, ValAccepts
  <2>2. /\ replies' \subseteq replies \cup {[life |-> life, req |-> val.req, verdict |-> "success"]}
        /\ UNCHANGED <<updates, life, position>>
        /\ fate' = fate
    BY <1>15 DEF ValAccepts, Answer, kafkaVars
  <2>3. /\ \A x \in Offset : fate[x] # "inside" => fate'[x] # "inside"
        /\ "success" = "failure" => fate'[val.req] # "inside"
    BY <2>2
  <2> QED
    BY <2>1, <2>2, <2>3, HistoryReply
<1>16. CASE ValRelays
  <2>1. val.req \in Offset /\ fate[val.req] = "inside"
    BY <1>16 DEF Inv, TypeOK, Places, InsideIsHeld, ValRelays
  <2>2. /\ updates' \in {updates, Append(updates, [life |-> life, req |-> val.req])}
        /\ UNCHANGED <<replies, life, position>>
        /\ \E how \in Fate \ {"inside"} : fate' = [fate EXCEPT ![val.req] = how]
    BY <1>16 DEF ValRelays, Settle, Fate, kafkaVars
  <2> QED
    BY <2>1, <2>2, HistoryRelay
<1>17. CASE ValRaises
  <2>1. UNCHANGED <<replies, updates, life, position, fate>>
    BY <1>17 DEF ValRaises, kafkaVars, topicVars
  <2> QED
    BY <2>1, PositionIsInt, HistoryKept
<1>18. CASE ValPanics
  <2>1. UNCHANGED <<replies, updates, life, position, fate>>
    BY <1>18 DEF ValPanics, kafkaVars, topicVars
  <2> QED
    BY <2>1, PositionIsInt, HistoryKept
<1>19. CASE ValEnds
  <2>1. UNCHANGED <<replies, updates, life, position, fate>>
    BY <1>19 DEF ValEnds, kafkaVars, topicVars
  <2> QED
    BY <2>1, PositionIsInt, HistoryKept
<1>20. CASE AutoCommit
  <2>1. UNCHANGED <<replies, updates, life, position, fate>>
    BY <1>20 DEF AutoCommit, kafkaVars, topicVars
  <2> QED
    BY <2>1, PositionIsInt, HistoryKept
<1>21. CASE MetricsFails
  <2>1. UNCHANGED <<replies, updates, life, position, fate>>
    BY <1>21 DEF MetricsFails, kafkaVars, topicVars
  <2> QED
    BY <2>1, PositionIsInt, HistoryKept
<1>22. CASE TakeSignal
  <2>1. UNCHANGED <<replies, updates, life, position, fate>>
    BY <1>22 DEF TakeSignal, kafkaVars, topicVars
  <2> QED
    BY <2>1, PositionIsInt, HistoryKept
<1>23. CASE TakeError
  <2>1. UNCHANGED <<replies, updates, life, position, fate>>
    BY <1>23 DEF TakeError, kafkaVars, topicVars
  <2> QED
    BY <2>1, PositionIsInt, HistoryKept
<1>24. CASE ExitDrained
  <2>1. UNCHANGED <<replies, updates, life, position, fate>>
    BY <1>24 DEF ExitDrained, kafkaVars, topicVars
  <2> QED
    BY <2>1, PositionIsInt, HistoryKept
<1>25. CASE ExitTimeout
  <2>1. UNCHANGED <<replies, updates, life, position, fate>>
    BY <1>25 DEF ExitTimeout, kafkaVars, topicVars
  <2> QED
    BY <2>1, PositionIsInt, HistoryKept
<1>26. CASE Crash
  <2>1. UNCHANGED <<replies, updates, life, position, fate>>
    BY <1>26 DEF Crash, kafkaVars, topicVars
  <2> QED
    BY <2>1, PositionIsInt, HistoryKept
<1>27. CASE Restart
  <2>1. /\ History /\ life \in Int
        /\ replies \subseteq Reply /\ updates \in Seq(Update)
    BY DEF Inv, TypeOK
  <2>2. life' = life + 1 /\ replies' = replies /\ updates' = updates
    BY <1>27 DEF Restart, topicVars
  <2>3. /\ \A r \in replies : r.life \in Int
        /\ \A i \in DOMAIN updates : updates[i].life \in Int
    BY TopicTypes
  <2> QED
    BY <2>1, <2>2, <2>3 DEF History, FailedNotRelayed, RelayedOnce
<1>28. CASE UNCHANGED vars
  BY <1>28, PositionIsInt, HistoryKept DEF vars, kafkaVars, mainVars, chanVars, topicVars
<1> QED
  BY <1>1, <1>2, <1>3, <1>4, <1>5, <1>6, <1>7, <1>8, <1>9, <1>10, <1>11, <1>12, <1>13, <1>14, <1>15, <1>16, <1>17, <1>18, <1>19, <1>20, <1>21, <1>22, <1>23, <1>24, <1>25, <1>26, <1>27, <1>28
     DEF Next, LoopStep, WorkerStep, ValStep, MainStep

-----------------------------------------------------------------------------

LEMMA InitInv == Init => Inv
<1> SUFFICES ASSUME Init PROVE Inv
  OBVIOUS
<1> USE ConstantTypes DEF Init
<1>1. TypeOK
  <2>1. loop \in LoopState /\ val \in ValState
    BY DEF Unstarted, Resting, LoopState, ValState
  <2>2. worker \in [Worker -> WorkerState]
    BY DEF AtRest, WorkerState
  <2>3. fate \in [Offset -> Fate]
    BY DEF Fate
  <2>4. replies \subseteq Reply /\ updates \in Seq(Update)
    OBVIOUS
  <2>5. /\ position \in 1..(Len(Requests) + 1) /\ committed \in 1..(Len(Requests) + 1)
        /\ life \in 0..MaxRestarts
    OBVIOUS
  <2>6. clean \in BOOLEAN /\ metricsUp \in BOOLEAN /\ requestsOpen \in BOOLEAN /\ validateOpen \in BOOLEAN
    OBVIOUS
  <2> QED
    BY <2>1, <2>2, <2>3, <2>4, <2>5, <2>6 DEF TypeOK
<1>2. Places /\ Apart
  BY DEF Places, Apart, Unstarted, Resting, AtRest
<1>3. InsideIsHeld
  BY DEF InsideIsHeld, Unstarted, Resting, AtRest
<1>4. Shutdown
  BY DEF Shutdown, Unstarted, Resting, AtRest
<1>5. Offsets
  BY DEF Offsets, NoneSkipped
<1>6. History
  BY DEF History, FailedNotRelayed, RelayedOnce
<1> QED
  BY <1>1, <1>2, <1>3, <1>4, <1>5, <1>6 DEF Inv

\* The invariant holds in every state of every behaviour of the validator.
THEOREM Invariant == Spec => []Inv
<1>1. Inv /\ [Next]_vars => Inv'
  BY TypeStep, PlacesStep, ApartStep, InsideStep, ShutdownStep, OffsetsStep, HistoryStep DEF Inv
<1> QED
  BY InitInv, <1>1, PTL DEF Spec

\* Offsets, channels and goroutines of the validator keep their types; the
\* channel of errors never holds more than one.
THEOREM TypeCorrect == Spec => []TypeOK
<1>1. Inv => TypeOK
  BY DEF Inv
<1> QED
  BY Invariant, <1>1, PTL

\* Shutting down closes requestsChan, validateChan and the producer in an order
\* in which nobody sends on a closed channel or uses a closed producer.
THEOREM NeverSendsOnClosed == Spec => []ChannelsSafe
<1>1. Inv => ChannelsSafe
  BY DEF Inv, Shutdown, ChannelsSafe
<1> QED
  BY Invariant, <1>1, PTL

\* A request on its way through the goroutines is in exactly one place, and in
\* none once it has an outcome.
THEOREM NothingForgotten == Spec => []HeldByOne
<1>1. Inv => HeldByOne
  <2> SUFFICES ASSUME Inv, NEW u \in Offset
               PROVE  /\ fate[u] = "inside" => \E h \in Holders(u) : Holders(u) = {h}
                      /\ fate[u] # "inside" => Holders(u) = {}
    BY DEF HeldByOne
  <2>1. u # NoReq
    BY ConstantTypes
  <2>2. Apart /\ InsideIsHeld
    BY DEF Inv
  <2>3. CASE fate[u] # "inside"
    BY <2>2, <2>3 DEF InsideIsHeld, Holders
  <2>4. CASE loop.req = u
    <3>1. val.req # u /\ \A w \in Worker : worker[w].req # u
      BY <2>1, <2>2, <2>4 DEF Apart
    <3>2. Holders(u) = {<<"loop", 0>>}
      BY <2>4, <3>1 DEF Holders
    <3> QED
      BY <2>2, <2>4, <3>2 DEF InsideIsHeld
  <2>5. CASE val.req = u
    <3>1. loop.req # u /\ \A w \in Worker : worker[w].req # u
      BY <2>1, <2>2, <2>5 DEF Apart
    <3>2. Holders(u) = {<<"val", 0>>}
      BY <2>5, <3>1 DEF Holders
    <3> QED
      BY <2>2, <2>5, <3>2 DEF InsideIsHeld
  <2>6. CASE \E w \in Worker : worker[w].req = u
    <3>1. PICK w \in Worker : worker[w].req = u
      BY <2>6
    <3>2. loop.req # u /\ val.req # u /\ \A v \in Worker : v # w => worker[v].req # u
      BY <2>1, <2>2, <3>1 DEF Apart
    <3>3. {x \in Worker : worker[x].req = u} = {w}
      BY <3>1, <3>2
    <3>4. Holders(u) = {<<"worker", w>>}
      BY <3>2, <3>3 DEF Holders
    <3> QED
      BY <2>2, <2>6, <3>4 DEF InsideIsHeld
  <2> QED
    BY <2>2, <2>3, <2>4, <2>5, <2>6 DEF InsideIsHeld
<1> QED
  BY Invariant, <1>1, PTL

\* A shutdown that does not time out leaves no request without an outcome.
THEOREM DrainedBeforeExit == Spec => []CleanExitDrained
<1>1. Inv => CleanExitDrained
  <2> SUFFICES ASSUME Inv, main = "exited", clean, NEW u \in Offset
               PROVE  fate[u] # "inside"
    BY DEF CleanExitDrained
  <2> USE ConstantTypes
  <2>1. Places /\ Shutdown /\ InsideIsHeld /\ clean \in BOOLEAN
    BY DEF Inv, TypeOK
  <2>2. loop.req # u
    BY <2>1 DEF Shutdown, Places
  <2>3. val.req # u /\ \A w \in Worker : worker[w].req # u
    <3>1. CASE loop.pc = "unstarted"
      BY <2>1, <3>1 DEF Shutdown
    <3>2. CASE loop.pc = "stopped"
      BY <2>1, <3>2 DEF Shutdown, Places
    <3> QED
      BY <2>1, <3>1, <3>2 DEF Shutdown
  <2> QED
    BY <2>1, <2>2, <2>3 DEF InsideIsHeld
<1> QED
  BY Invariant, <1>1, PTL

\* Reading on from the committed offset after a restart skips no request.
THEOREM SkipsNothing == Spec => []NoneSkipped
<1>1. Inv => NoneSkipped
  BY DEF Inv, Offsets
<1> QED
  BY Invariant, <1>1, PTL

\* One process never produces two updates for a request, and never one for an
\* upload it has called a failure.
THEOREM RelaysOnceAndOnlyValid == Spec => []RelayedSound
<1>1. Inv => RelayedSound
  BY DEF Inv, History, RelayedSound
<1> QED
  BY Invariant, <1>1, PTL

-----------------------------------------------------------------------------
(* One fetch worker: the updates follow the order of the topic *)

\* What the line of goroutines looks like to the provers.
LEMMA LineTypes ==
    ASSUME Inv, Concurrency = 1
    PROVE  /\ Worker = {1}
           /\ Offset \subseteq Int /\ NoReq \notin Offset
           /\ position \in Int /\ life \in Int
           /\ loop.req \in Offset => loop.req < position
           /\ val.req \in Offset => val.req < position
           /\ worker[1].req \in Offset => worker[1].req < position
           /\ \A i \in DOMAIN updates : updates[i].life = life => updates[i].req < position
<1> USE ConstantTypes
<1>1. Worker = {1} /\ Offset \subseteq Int /\ NoReq \notin Offset
  OBVIOUS
<1>2. position \in Int /\ life \in Int /\ InsideIsHeld
      /\ \A u \in Offset : fate[u] = "inside" => u < position
  BY DEF Inv, TypeOK, Offsets
<1>3. \A u \in Offset : (loop.req = u \/ val.req = u \/ worker[1].req = u) => u < position
  BY <1>1, <1>2 DEF InsideIsHeld
<1>4. \A i \in DOMAIN updates : updates[i].life = life => updates[i].req < position
  BY DEF Inv, History
<1> QED
  BY <1>1, <1>2, <1>3, <1>4

\* Steps in which goroutines keep or let go of what they have.
LEMMA LineKept ==
    ASSUME Inv, InLine, Concurrency = 1, UNCHANGED <<updates, life>>,
           loop'.req \in {loop.req, NoReq}, val'.req \in {val.req, NoReq},
           worker'[1].req \in {worker[1].req, NoReq}
    PROVE  InLine'
<1>1. Worker = {1} /\ NoReq \notin Offset
  BY LineTypes
<1>2. /\ loop'.req \in Offset => loop'.req = loop.req
      /\ val'.req \in Offset => val'.req = val.req
      /\ \A w \in Worker : worker'[w].req \in Offset => worker'[w].req = worker[w].req
  BY <1>1
<1> QED
  BY <1>2 DEF InLine

\* With one fetch worker every step keeps the line.
LEMMA LineStep ==
    ASSUME Inv, InLine, Concurrency = 1, [Next]_vars
    PROVE  InLine'
<1>0. Worker = {1} /\ Offset \subseteq Int /\ NoReq \notin Offset
  BY LineTypes
<1>w. worker \in [Worker -> WorkerState] /\ worker[1] \in WorkerState /\ AtRest.req = NoReq
  BY <1>0 DEF Inv, TypeOK, AtRest
<1>p. \A raised \in BOOLEAN : \A next \in {"idle", "relay"} :
         ValProduced(raised, next) => val'.req \in {val.req, NoReq}
  BY DEF Inv, TypeOK, ValState, ValProduced, Resting
<1>k. ASSUME UNCHANGED <<updates, life, loop, worker, val>>
      PROVE  InLine'
  BY <1>k, LineKept
<1>l. ASSUME UNCHANGED <<updates, life, worker, val>>, loop'.req = NoReq
      PROVE  InLine'
  BY <1>l, LineKept
<1>1. CASE LoopStart
  BY <1>1, <1>l DEF LoopStart, LoopGoto, topicVars
<1>2. CASE LoopReads
  <2>1. UNCHANGED <<updates, life, worker, val>>
    BY <1>2 DEF LoopReads, topicVars
  <2>2. CASE loop' = loop
    BY <2>1, <2>2, <1>k
  <2>3. CASE loop'.req = position
    <3>1. /\ \A w \in Worker : worker[w].req \in Offset => worker[w].req < position
          /\ val.req \in Offset => val.req < position
          /\ \A i \in DOMAIN updates : updates[i].life = life => updates[i].req < position
      BY LineTypes
    <3> QED
      BY <2>1, <2>3, <3>1 DEF InLine
  <2> QED
    BY <1>2, <2>2, <2>3 DEF LoopReads, LoopGoto
<1>3. CASE LoopRefuses
  BY <1>3, <1>l DEF LoopRefuses, LoopGoto
<1>4. CASE LoopRaises
  BY <1>4, <1>l DEF LoopRaises, LoopGoto, topicVars
<1>5. CASE \E w \in Worker : LoopHands(w)
  <2>1. /\ UNCHANGED <<updates, life, val>>
        /\ loop'.req = NoReq
        /\ worker'[1].req = loop.req
    BY <1>5, <1>0, <1>w DEF LoopHands, LoopGoto, topicVars
  <2> QED
    BY <2>1, <1>0 DEF InLine
<1>6. CASE LoopStops
  BY <1>6, <1>l DEF LoopStops, LoopGoto, topicVars
<1>7. CASE LoopEnds
  BY <1>7, <1>l DEF LoopEnds, LoopGoto, topicVars
<1>8. CASE LoopReadFails
  BY <1>8, <1>l DEF LoopReadFails, LoopGoto, topicVars
<1>9. CASE \E w \in Worker : Fetched(w) \/ FetchFails(w)
  <2>1. PICK w \in Worker : Fetched(w) \/ FetchFails(w)
    BY <1>9
  <2>2. FetchStep(w) /\ w = 1
    BY <2>1, <1>0, FetchFrame
  <2>3. UNCHANGED <<updates, life, loop, val>> /\ worker'[1].req \in {worker[1].req, NoReq}
    BY <2>2 DEF FetchStep
  <2> QED
    BY <2>3, LineKept
<1>10. CASE \E w \in Worker : WorkerHands(w)
  <2>1. /\ UNCHANGED <<updates, life, loop>>
        /\ val'.req = worker[1].req
        /\ worker'[1].req = NoReq
    BY <1>10, <1>0, <1>w DEF WorkerHands, topicVars
  <2> QED
    BY <2>1, <1>0 DEF InLine
<1>11. CASE \E w \in Worker : WorkerEnds(w)
  <2>1. /\ UNCHANGED <<updates, life, loop, val>>
        /\ worker'[1].req = worker[1].req
    BY <1>11, <1>0, <1>w DEF WorkerEnds, WorkerState, topicVars
  <2> QED
    BY <2>1, LineKept
<1>12. CASE CloseValidate
  BY <1>12, <1>k DEF CloseValidate, topicVars
<1>13. CASE ValRejects
  <2>1. UNCHANGED <<updates, life, loop, worker>> /\ val'.req \in {val.req, NoReq}
    BY <1>13, <1>p DEF ValRejects, Delivery
  <2> QED
    BY <2>1, LineKept
<1>14. CASE ValAccepts
  <2>1. UNCHANGED <<updates, life, loop, worker>> /\ val'.req \in {val.req, NoReq}
    BY <1>14, <1>p DEF ValAccepts, Delivery
  <2> QED
    BY <2>1, LineKept
<1>15. CASE ValRelays
  <2>1. UNCHANGED <<life, loop, worker>> /\ val'.req = NoReq
    BY <1>15 DEF ValRelays, ValProduced, Resting
  <2>2. val.req \in Offset
    BY <1>15 DEF Inv, Places, ValRelays
  <2>3. CASE updates' = updates
    BY <2>1, <2>3, LineKept
  <2>4. CASE updates' = Append(updates, [life |-> life, req |-> val.req])
    <3> DEFINE new == [life |-> life, req |-> val.req]
    <3>1. new \in Update /\ new.life = life /\ new.req = val.req /\ updates \in Seq(Update)
      BY <2>2 DEF Inv, TypeOK, Update
    <3> HIDE DEF new
    <3>2. /\ Len(updates) \in Nat
          /\ DOMAIN updates = 1..Len(updates)
          /\ DOMAIN updates' = 1..(Len(updates) + 1)
          /\ \A i \in DOMAIN updates : updates'[i] = updates[i]
          /\ updates'[Len(updates) + 1] = new
      BY <2>4, <3>1 DEF new
    <3>3. \A i \in DOMAIN updates' : \/ i \in DOMAIN updates /\ updates'[i] = updates[i]
                                     \/ i = Len(updates) + 1 /\ updates'[i] = new
      BY <3>2
    <3>4. \A i, j \in DOMAIN updates' :
             (i < j /\ updates'[i].life = updates'[j].life) => updates'[i].req < updates'[j].req
      <4> SUFFICES ASSUME NEW i \in DOMAIN updates', NEW j \in DOMAIN updates',
                          i < j, updates'[i].life = updates'[j].life
                   PROVE  updates'[i].req < updates'[j].req
        OBVIOUS
      <4>1. i \in DOMAIN updates /\ updates'[i] = updates[i]
        BY <3>2, <3>3
      <4>2. CASE j \in DOMAIN updates /\ updates'[j] = updates[j]
        BY <4>1, <4>2 DEF InLine
      <4>3. CASE updates'[j] = new
        BY <4>1, <4>3, <2>2, <3>1 DEF InLine
      <4> QED
        BY <3>3, <4>2, <4>3
    <3>5. \A i \in DOMAIN updates' :
             updates'[i].life = life =>
                /\ loop.req \in Offset => updates'[i].req < loop.req
                /\ \A w \in Worker : worker[w].req \in Offset => updates'[i].req < worker[w].req
      BY <2>2, <3>1, <3>3 DEF InLine
    <3> QED
      BY <1>0, <2>1, <3>4, <3>5 DEF InLine
  <2> QED
    BY <1>15, <2>3, <2>4 DEF ValRelays
<1>16. CASE ValRaises
  <2>1. UNCHANGED <<updates, life, loop, worker>> /\ val'.req = val.req
    BY <1>16, RaiseFrame
  <2> QED
    BY <2>1, LineKept
<1>17. CASE ValPanics
  BY <1>17, <1>k DEF ValPanics, topicVars
<1>18. CASE ValEnds
  <2>1. UNCHANGED <<updates, life, loop, worker>> /\ val'.req = val.req
    BY <1>18 DEF ValEnds, ValGoto, Inv, TypeOK, ValState, topicVars
  <2> QED
    BY <2>1, LineKept
<1>19. CASE AutoCommit
  BY <1>19, <1>k DEF AutoCommit, topicVars
<1>20. CASE MetricsFails
  BY <1>20, <1>k DEF MetricsFails, topicVars
<1>21. CASE TakeSignal \/ TakeError
  BY <1>21, <1>k DEF TakeSignal, TakeError, topicVars
<1>22. CASE ExitDrained \/ ExitTimeout \/ Crash
  BY <1>22, <1>k DEF ExitDrained, ExitTimeout, Crash, topicVars
<1>23. CASE Restart
  <2>1. /\ updates' = updates /\ life' = life + 1
        /\ loop'.req = NoReq /\ val'.req = NoReq /\ worker'[1].req = NoReq
    BY <1>23, <1>0 DEF Restart, Unstarted, Resting, AtRest, topicVars
  <2> QED
    BY <2>1, <1>0 DEF InLine
<1>24. CASE UNCHANGED vars
  BY <1>24, <1>k DEF vars, topicVars
<1> QED
  BY <1>1, <1>2, <1>3, <1>4, <1>5, <1>6, <1>7, <1>8, <1>9, <1>10, <1>11, <1>12, <1>13,
     <1>14, <1>15, <1>16, <1>17, <1>18, <1>19, <1>20, <1>21, <1>22, <1>23, <1>24
     DEF Next, LoopStep, WorkerStep, ValStep, MainStep

\* With storage.max.concurrency = 1 a process produces its updates in the order
\* of the announcements, through failed downloads, rejected uploads and raised
\* errors: nothing but the number of fetch workers lets uploads overtake.
THEOREM RelaysInOrder == Spec => []RelayedInOrder
<1>1. ASSUME Concurrency = 1 PROVE Init => InLine
  <2> SUFFICES ASSUME Init PROVE InLine
    OBVIOUS
  <2>1. loop.req = NoReq /\ val.req = NoReq /\ updates = <<>>
    BY DEF Init, Unstarted, Resting
  <2>2. \A w \in Worker : worker[w].req = NoReq
    BY DEF Init, AtRest
  <2> QED
    BY <2>1, <2>2, ConstantTypes DEF InLine
<1>2. CASE Concurrency = 1
  <2>1. Init => InLine
    BY <1>1, <1>2
  <2>2. Inv /\ InLine /\ [Next]_vars => InLine'
    BY <1>2, LineStep
  <2>3. InLine => RelayedInOrder
    BY DEF InLine, RelayedInOrder
  <2> QED
    BY <2>1, <2>2, <2>3, Invariant, PTL DEF Spec
<1>3. CASE Concurrency # 1
  <2>1. RelayedInOrder
    BY <1>3 DEF RelayedInOrder
  <2> QED
    BY <2>1, PTL
<1> QED
  BY <1>2, <1>3
=============================================================================
