------------------------------ MODULE ApiServer ------------------------------
(***************************************************************************)
(* The life of an API process: the goroutines that run its two HTTP        *)
(* servers, the goroutine that stops the API when the context is canceled, *)
(* and main, which waits for a signal or an error and then for the wait    *)
(* group before it stops the metrics server and clears the Kessel client.  *)
(* Requests are in flight all the while.                                   *)
(***************************************************************************)
EXTENDS FiniteSets, Naturals

CONSTANT Client     \* requests the process may accept

VARIABLES main,      \* "up", "waiting", "metrics", "closing", "leaving" or "exited"
          api,       \* the API's listener: "starting", "listening" or "returned"
          metrics,   \* the metrics server: "up" or "returned"
          stopper,   \* goroutine of Start that stops the API: "blocked", "draining", "done"
          senders,   \* servers that have returned and are to report their error
          errs,      \* errors in the channel, which has room for one
          clients,   \* request -> "none", "inflight", "answered" or "cut"
          manager,   \* globalManager of Kessel: "up" or "closed"
          late       \* the time to drain the API has run out

serverVars == <<main, api, metrics, stopper, senders, errs, clients, manager, late>>

inflight == {r \in Client : clients[r] = "inflight"}

ServerInit ==
    /\ main = "up" /\ api = "starting" /\ metrics = "up" /\ stopper = "blocked"
    /\ senders = {} /\ errs = 0
    /\ clients = [r \in Client |-> "none"]
    /\ manager = "up" /\ late = FALSE

-----------------------------------------------------------------------------
(* The servers                                                             *)

return(server) == senders' = senders \cup {server}

\* server.Start; it returns an error if the port is taken or Shutdown was
\* called before.
Listen ==
    /\ api = "starting" /\ main # "exited"
    /\ \/ api' = "listening" /\ stopper = "blocked" /\ UNCHANGED senders
       \/ api' = "returned" /\ return("api")
    /\ UNCHANGED <<main, metrics, stopper, errs, clients, manager, late>>

MetricsFails ==
    /\ metrics = "up" /\ main # "exited"
    /\ metrics' = "returned"
    /\ return("metrics")
    /\ UNCHANGED <<main, api, stopper, errs, clients, manager, late>>

\* errors <- server.Start(...)
SendError ==
    /\ main # "exited"
    /\ errs = 0
    /\ \E s \in senders : senders' = senders \ {s}
    /\ errs' = 1
    /\ UNCHANGED <<main, api, metrics, stopper, clients, manager, late>>

Accept ==
    /\ api = "listening" /\ main # "exited"
    /\ \E r \in Client : clients[r] = "none" /\ clients' = [clients EXCEPT ![r] = "inflight"]
    /\ UNCHANGED <<main, api, metrics, stopper, senders, errs, manager, late>>

Answer ==
    /\ main # "exited"
    /\ \E r \in inflight : clients' = [clients EXCEPT ![r] = "answered"]
    /\ UNCHANGED <<main, api, metrics, stopper, senders, errs, manager, late>>

-----------------------------------------------------------------------------
(* Shutdown                                                                *)

TakeSignal ==
    /\ main = "up"
    /\ main' = "waiting"
    /\ UNCHANGED <<api, metrics, stopper, senders, errs, clients, manager, late>>

TakeError ==
    /\ main = "up"
    /\ errs = 1
    /\ errs' = 0
    /\ main' = "waiting"
    /\ UNCHANGED <<api, metrics, stopper, senders, clients, manager, late>>

\* <-ctx.Done(), then Shutdown closes the listener.
StopApi ==
    /\ stopper = "blocked" /\ main \notin {"up", "exited"}
    /\ stopper' = "draining"
    /\ IF api = "listening" THEN api' = "returned" /\ return("api") ELSE UNCHANGED <<api, senders>>
    /\ UNCHANGED <<main, metrics, errs, clients, manager, late>>

\* Faulty variant: it waits until the server's error has been passed on.
Drained_Reports ==
    /\ stopper = "draining" /\ main # "exited" /\ "api" \notin senders
    /\ inflight = {}
    /\ stopper' = "done"
    /\ UNCHANGED <<main, api, metrics, senders, errs, clients, manager, late>>

Drained ==
    /\ stopper = "draining" /\ main # "exited"
    /\ inflight = {}
    /\ stopper' = "done"
    /\ UNCHANGED <<main, api, metrics, senders, errs, clients, manager, late>>

\* apiShutdownTimeout.
DrainTimeout ==
    /\ stopper = "draining" /\ main # "exited"
    /\ inflight # {}
    /\ stopper' = "done"
    /\ late' = TRUE
    /\ UNCHANGED <<main, api, metrics, senders, errs, clients, manager>>

\* Faulty variant: the goroutine adds itself to the wait group.
WgWaitFor_AddedLate ==
    /\ main = "waiting"
    /\ stopper \in {"blocked", "done"}
    /\ main' = "metrics"
    /\ UNCHANGED <<api, metrics, stopper, senders, errs, clients, manager, late>>

\* The goroutine was added to the wait group before it was started, and its own
\* timeout is half of main's, which therefore never ends the wait.
WgWaitFor ==
    /\ main = "waiting"
    /\ stopper = "done"
    /\ main' = "metrics"
    /\ UNCHANGED <<api, metrics, stopper, senders, errs, clients, manager, late>>

StopMetrics ==
    /\ main = "metrics"
    /\ main' = "closing"
    /\ IF metrics = "up" THEN metrics' = "returned" /\ return("metrics")
       ELSE UNCHANGED <<metrics, senders>>
    /\ UNCHANGED <<api, stopper, errs, clients, manager, late>>

KesselClose ==
    /\ main = "closing"
    /\ main' = "leaving"
    /\ manager' = "closed"
    /\ UNCHANGED <<api, metrics, stopper, senders, errs, clients, late>>

Exit ==
    /\ main = "leaving"
    /\ main' = "exited"
    /\ clients' = [r \in Client |-> IF r \in inflight THEN "cut" ELSE clients[r]]
    /\ UNCHANGED <<api, metrics, stopper, senders, errs, manager, late>>

Main == TakeError \/ WgWaitFor \/ StopMetrics \/ KesselClose \/ Exit
Stopper == StopApi \/ Drained \/ DrainTimeout

ServerNext ==
    \/ Listen \/ MetricsFails \/ SendError \/ Accept \/ Answer
    \/ TakeSignal \/ Main \/ Stopper

ServerSpec == ServerInit /\ [][ServerNext]_serverVars

\* Goroutines that can run do run.  Nothing is assumed of signals, failures,
\* clients and handlers: the timeout takes the place of an answer.
ServerFairness == WF_serverVars(Main) /\ WF_serverVars(Stopper) /\ WF_serverVars(SendError)
ServerFairSpec == ServerSpec /\ ServerFairness

-----------------------------------------------------------------------------

ServerTypeOK ==
    /\ main \in {"up", "waiting", "metrics", "closing", "leaving", "exited"}
    /\ api \in {"starting", "listening", "returned"}
    /\ metrics \in {"up", "returned"}
    /\ stopper \in {"blocked", "draining", "done"}
    /\ senders \subseteq {"api", "metrics"}
    /\ errs \in 0..1
    /\ clients \in [Client -> {"none", "inflight", "answered", "cut"}]
    /\ manager \in {"up", "closed"}
    /\ late \in BOOLEAN

\* A request that was accepted keeps the Kessel client and the process until it
\* is answered, however signal, errors and servers interleave: only one that
\* outlasts the time the API is given to drain loses them.
RequestsOutlived ==
    (manager = "closed" \/ main = "exited") =>
        late \/ \A r \in Client : clients[r] \in {"none", "answered"}

\* A process that is told to stop, or one of whose servers has returned, ends:
\* neither an error that no one takes from the full channel nor a request that
\* is never answered holds it up.
ProcessEnds == (main # "up" \/ senders # {}) ~> main = "exited"
=============================================================================
