# Playbook dispatcher: TLA+ models and proofs

Playbook dispatcher sends Ansible playbooks to connected hosts and tracks what
became of them. This directory models the parts of it that are hard to test:

* the processes (API replicas, response consumers, a clean job) that share two
  database tables without talking to each other;
* the validator, the pipeline of goroutines that feeds them and may lose,
  duplicate, reorder or delay uploads;
* the requests of the two APIs: authorization by two services that may fail or not
  answer, lists read while their tables change, batches processed by concurrent
  goroutines, answers put together from several services;
* the life of an API process, from the start of its servers to its exit.

## The system

| Component | State | Operations | Talks to |
|---|---|---|---|
| Dispatch manager (`internal/api/dispatch`) | rate limiter; rows it inserts | `ProcessRun`, `ProcessCancel` | cloud connector, tables |
| Private API (`internal/api/controllers/private`) | none | create and cancel batches, connection status | dispatch manager, inventory, sources |
| Public API (`internal/api/controllers/public`) | none | list runs, list run hosts | tables |
| Authorization (`internal/api/middleware`, `rbac`, `internal/common/kessel`, `unleash`) | client manager, feature flags | permission checks in four modes, workspace lookup with tokens and retries | RBAC, Kessel and token services |
| Connectors (`internal/api/connectors`, `internal/api/rbac`) | none | what becomes of a reply | cloud connector, inventory, sources, RBAC |
| API process (`internal/api/main.go`, `cmd/run.go`) | two servers, error channel, wait group | start, serve, drain, exit | all of the API |
| Validator (`internal/validator`) | two unbuffered channels, N fetch workers, one validation worker | check request, fetch archive, validate, produce | ingress, storage, updates topic |
| Response consumer (`internal/response-consumer`) | open transaction | `onMessage` | updates topic, tables |
| Event interpretation (`handler.go`, `internal/common/satellite`, `internal/common/ansible`) | none (pure) | statuses, hosts, output and sequence numbers of an upload | response consumer |
| Clean job (`cmd/clean.go`) | open transaction | `clean`, from a cron schedule | tables |
| Tables (`internal/common/model/db`, `migrations`) | `runs`, `run_hosts` | | PostgreSQL |
| Event streams (`event-streams`) | none | table changes to Kafka events | consumers outside |
| Kafka event loop, process supervision (`internal/common/kafka`, `cmd/run.go`) | error channel, context, wait group | read loop, shutdown | all of the above |

What is hard here:

* **Interleaving.** A consumer reads a run, then updates it, then its hosts. The
  clean job reads expired runs, then updates them by id, then their hosts. Any of
  these statements may be separated by statements of another transaction.
* **Delivery.** The validator fetches archives with concurrent workers, so
  uploads of a run overtake each other. Offsets are committed in the background,
  so a message can be handled twice or, after an error, not at all.
* **Ordering with requests.** `ProcessRun` sends the work request before it
  records the run.
* **Time.** A run times out while its last upload is on the way, and readers are
  shown a timeout before the clean job has stored it.
* **Shutdown.** The validator closes two channels and a producer behind
  goroutines that are still at work; errors go to a channel with room for one that
  is read once; offsets of uploads in the pipeline are already committed.
  An API process drains its requests, then closes what they use.
* **Requests.** Items of a batch run in goroutines of their own, in which a panic
  ends the process, and share a rate limiter. A list is a count and a page read by
  two statements. Authorization nests two kinds of retries, some of its waits end
  with the request, some by a timeout and some not at all.
* **Replies.** Clients are generated: a reply may come without body, with a body
  that does not decode, or with pointers that are nil.
* **Bounds.** `sat_sequence` is a `smallint`; big archives are truncated by line
  number and size.

What makes each component correct:

* tables and consumers: a verdict is not taken back by late, stale or duplicated
  messages; run and hosts change together; output is stored once and in order;
* clean job: it only closes runs that are overdue, and every run is closed in the
  end;
* event interpretation: run and host verdicts drawn from one upload agree and do
  not depend on the order of events in the archive;
* dispatch: a run that was sent is recorded;
* validator: every upload read gets one outcome, none is forgotten or relayed
  twice, one reported invalid is not relayed, the pipeline shuts down;
* payload validation: truncation changes output only, and an upload stays tied to
  its run;
* authorization: in each mode the service that enforces decides, and the other
  one, its errors and its delays change nothing; retries end;
* lists: nobody sees another organization's items, runs are found under the status
  they are shown with, a walk along the links misses nothing;
* batches: the code of each item is true of what was sent, delivered and recorded;
  the rate limit holds; no input takes the process down;
* connection status: every host is accounted for, with the status its recipient has;
* API process: it ends when told to, and not under the feet of its requests;
* event streams: every change of a row is published with the right type.

`PROJECT.json` lists all components, also those without a model, and the hazards
at the lines where they bite.

## Modules

| Module | Models |
|---|---|
| `PlaybookEvents` | event interpretation: `inferStatus`, `inferSatPlaybookStatus`, `inferSatHostStatus`, `checkSatStatusPartial`, `SortSatEvents`, `GetSatHostInfo`, `GetStdout` |
| `RunTables` | `runs` and `run_hosts`, transactions, row locks, time |
| `Dispatch` | `ProcessRun` |
| `ResponseConsumer` | `onMessage`, one action per SQL statement, its errors, panics and crashes |
| `Cleaner` | `clean`, one action per SQL statement |
| `RunLifecycle` | the composition of the four, the recipient, the properties |
| `PayloadValidation` | `validateContent` with truncation, `GetCorrelationId` |
| `Validator` | the validator process: event loop, fetch workers, validation worker, error channel, shutdown, crash and restart (`internal/validator`, `internal/common/kafka`, `cmd/run.go`) |
| `Authorization` | a request through `EnforcePermissions`: mode, RBAC, workspace lookup, Kessel checks (`internal/api/middleware`, `internal/api/rbac`, `internal/common/kessel`, `unleash/features`) |
| `Listing` | `ApiRunsList`, `ApiRunHostsList`, `ApiInternalV2RunHostsList` and a client that walks along their links |
| `Batches` | create (v1, v2), cancel and status requests: `PMap`, `ProcessRun`, `ProcessCancel`, protocols, rate limiter |
| `ConnectionStatus` | `ApiInternalHighlevelConnectionStatus` with inventory, sources and cloud connector |
| `ApiServer` | `api.Start`, `run` and `shutdown` for a process that runs the API |
| `RunRecord` | abstract specification: what readers may see happen to a run's status. `RunLifecycle` implements it, `Batches` builds on it |
| `RunLifecycle_proofs`, `RunHosts_proofs`, `RunOutput_proofs` | theorems about `RunLifecycle`, each module extending the one before |
| `Validator_proofs` | theorems about `Validator` |
| `Archives_proofs` | theorems about `PlaybookEvents` and `PayloadValidation`, on top of `MCArchives` |
| `PublicApi_proofs` | theorems about `Authorization` and `Listing`, on top of `MCPublicApi` |
| `InternalApi_proofs` | theorems about `Batches`, `ApiServer` and `ConnectionStatus`, on top of `MCInternalApi` |
| `MCPlaybookEvents`, `MCPayload`, `MCArchives`, `MCRunner`, `MCSatUploads`, `MCSatellite`, `MCFull`, `MCValidator`, `MCPublicApi`, `MCInternalApi` | instances for TLC |

`MCArchives`, `MCFull`, `MCPublicApi` and `MCInternalApi` put components that share no
state side by side: in a behaviour one of them is at work and the others are at
rest, so the number of states is a sum and not a product.

Operators whose name is that of another operator with a suffix
(`inferStatus_NilSkipped`, `UpdateRun_StaleGuard`) are deliberately wrong
variants, used to confirm that the properties notice the difference.

### State and code

* `runs[r]`, `hosts[r][h]`: the committed rows, reduced to `status`, `response_full`
  and `events`, and to `status`, `sat_sequence` and `log`. `NoRow`: no such row.
* `wroteRuns[t]`, `wroteHosts[t]`: what transaction `t` (a consumer or the clean
  job) has written and not committed. A written row is locked.
* `expired`: runs with `created_at + timeout <= NOW()`.
* `api[r]`: progress of the request in `ProcessRun`; `delivered`: the work request
  reached the recipient.
* `topic`: copies of each upload in the updates topic; `pc`, `msg`, `seen`, `todo`:
  position of a consumer, its message, the row of its SELECT, hosts left.
* `cleanPc`, `ids`, `targets`: position of the clean job, the ids of its SELECT,
  the host rows its subquery found.

PostgreSQL is modelled at READ COMMITTED, its default: a statement sees what is
committed when it starts and its own transaction's writes; an UPDATE waits for a
lock and then re-evaluates its WHERE clause on the new row. For `status NOT IN
(success, failure)` (consumer) that is a real protection; for `id IN (...)` (clean
job) it is not, because the id does not change, and `CleanHostsUpdate` therefore
writes rows that `CleanHostsScan` chose earlier. An `INSERT ... ON CONFLICT DO
UPDATE` locks the row also when its condition is false, hence `upsertedHost`
returns the row itself.

A log is a sequence of parts, each a set of numbered pieces of output and a flag
for the missing-output mark. In `MCSatUploads` a piece has the number of the
Satellite event it came with, which is what lets `LogInOrder` speak about order.
Within an upload, pieces are in sequence order by `SortSatEvents`, so a set is
enough. `sort.Slice` is stable for up to twelve elements; the model is that case. The
proofs about uploads of any length do not use it: they only compare events of one host
and one type, which never have the same sequence number.

A request's hosts, an upload's hosts and inventory ids are all names of `Host`.
Messages of one run share a Kafka partition; after a rebalance two consumers can
still be inside transactions for the same run, so the model lets any consumer
take any message. The findings below do not need this: their runs have one
consumer.

In the validator:

* `position`, `committed`: next offset to read and the offset a new process starts
  from; the client commits what `ReadMessage` has returned, in the background
  (`AutoCommit`) and when it is closed;
* `loop`, `worker[w]`, `val`: where each goroutine is and the request it has. Both
  channels are unbuffered, so a send and the receive are one action (`LoopHands`,
  `WorkerHands`); `requestsOpen`, `validateOpen`: not closed yet;
* `errs`: errors in the channel of `cmd/run.go`, which has room for one;
  `main`: `up` until the `select`, `stopping` while `shutdown` waits, `exited`;
  `clean`: it did not end by timeout, panic or crash;
* `fate[u]`: what became of request `u` when it was last read. Everything from
  `ignored` to `lost` is an outcome; `inside` is not;
* `replies`, `updates`: what was written to the topics, with the process (`life`)
  that wrote it. A delivery ends acknowledged, refused as too large (neither
  written nor raised as an error) or failed, and a failed one may have been
  written.

An archive is a sequence of lines, and of a line only what decides about
rejection, truncation and the correlation id is kept. The text that replaces
truncated output is one variable shared by all lines and is emptied after its
first use, so it is always empty in what is sent; the model has this. The page of
an HTTP error is validated like an archive, since its status code is not looked
at (`ErrorPage`).

In the APIs:

* `Authorization`: `pc` is the place of one request in the middleware, `req` the
  variables of its handlers (mode, RBAC's permissions, attempts), `said` what Kessel
  answered, `calls` what was asked of the token service and RBAC. Requests share
  the client manager (`up`, or nil because it was never built or has been closed)
  and the flags, which change between any two steps; the mode is read once per
  request. An empty `answer.services` restricts nothing, as the handlers read it.
  Replies of RBAC are records of what the generated client looks at: status, JSON,
  decodable, links, meta.
* `Listing`: `table` holds runs, or run hosts joined with their runs; `query` is the
  request for the page being read, `at` whether its count or its page comes next,
  `started` and `seen` what the walk should and did return. Pages of runs are sorted
  by creation and id; run hosts have no order, so any order is a possible page.
  `Respond`, `TimeOut` and `Expire` are an upload, the clean job and the clock, as far as
  readers of the lists can tell: a host has a status of its own, and `success` stands for
  every final status. The clean job's late write over a complete run is in `RunLifecycle`
  only. Of a limit the schema rules out, 0 and those above the maximum are modelled.
* `Batches`: `at[i]`, `result[i]` are the place and code of item `i`, `sent`,
  `delivered`, `recorded` what happened to it. A message may be delivered although
  the reply is an error or missing. `tokens` and `refills` are the limiter's; any
  refill may happen or not, and a wait may end with the request. Meanwhile the runs
  that are to be canceled live by `RunRecord` (`RunsChange`).
* `ConnectionStatus`: `known` is what inventory holds, from which hosts vanish between
  calls; `found`, `details`, `groups`, `partial` are the local variables of the handler, in
  which a list of hosts is the set of their positions in `details` (each loop keeps that order),
  `committed` the status that has been written (the first one counts), `said` what cloud
  connector answered. Maps are walked in any order.
* `ApiServer`: `api` and `metrics` are the two servers, `senders` those that have
  returned and not yet reported, `errs` the channel with room for one, `stopper` the
  goroutine that waits for the context, `late` that the time to drain ran out.

## Runs

| Run | Instance | Shows |
|---|---|---|
| `archives` | all uploads of up to 4 events for 2 hosts, updates numbered 0 and 1, finished events 2 or not at all; all archives of up to 5 lines, 2 correlation ids, truncation after line 1 | `VerdictsAgree`: run and host verdicts agree and archive order does not matter; `PartialNeverEarly`: a partial response never ends a run early; `TruncationSound`: truncation costs only output, not the summary, and bounds what is left; `GrowthHarmless`: more lines take back neither a verdict nor the tie to the run |
| `full_responses` | 2 direct runs with 4 uploads, or a Satellite run with 4 full uploads (a cancellation, one panic); 2 consumers, 1 fault | `RunAndHostsAgree`, `FullLogWhole`: output is that of one upload; `NeverRunningAgain`: what was shown as ended is not shown as running; `HostsForward`: verdicts of a runner's hosts are not timed out, numbers and output of Satellite hosts do not go back; refinement `KeepsPromise` |
| `satellite_partial` | 1 run, 2 hosts, 4 uploads, 2 consumers | `MissedIsMarked`: gaps in the output are marked; `CanceledOnlyByStale`: who may still replace a cancellation |
| `satellite_faults` | fair scheduling, 3 uploads twice each, 1 fault, one oversized number | `TypeOK`, `LogInOrder`: output once and in order; `Settles`: every recorded run ends |
| `validator` | 3 requests (valid, empty, one that panics), 2 workers, 2 attempts, 1 restart | `HeldByOne`, `ChannelsSafe`, `CleanExitDrained`, `NoneSkipped`, `RelayedSound`: relayed once, and not if rejected |
| `validator_stops` | fair scheduling, 4 requests (one blocklisted, one invalid), 1 worker | `RelayedInOrder`, `Settled`, `Drains` |
| `public_api` | 7 configurations, 5 identities, 5 sets of permissions, one change of flags; or 12 walks over tables of 3 kinds of items: up to 3 runs that change twice, or 2 hosts that change three times | `TypesOK`; `KesselEnforced`, `KesselOnlyWatches`: the enforcing service decides, the other one changes nothing; `RetriesBounded`, `CancelStopsCalls`, `Answered`; `TenantIsolated`; `StatusFilters`: runs are found under the status they are shown with, and which hosts are found under which status and which under none; `WalkComplete`: a walk along the links to their end sees every run at least once |
| `internal_api` | one of 10 lists of up to 3 items, a bucket of 2 that may be drained already; or 11 lists of hosts of an inventory of 8; or a process with 3 requests | `TypesOK`; `AnswersTrue`, `CancelJustified`, `RateRespected`: the items of a list keep to the rate; `HostsAccountedFor`, `StatusAsTold`; `RequestsAnswered`; `RequestsOutlived`, `ProcessEnds` |
| `sent_before_recorded` | | violated: the documented order of request and record |
| `complete_reopened` | | violated: a complete run stays complete |
| `never_panics` | | violated: an event without console does not end the process |
| `kessel_init_fails` | | violated: without a Kessel client the mode is RBAC only |

Several properties are conjunctions of named parts, each with its own comment in
the module: `HostsForward` in `RunLifecycle`, `VerdictsAgree` in `MCPlaybookEvents`,
`TruncationSound` in `MCPayload`, `RelayedSound` in `Validator`, `StatusFilters` and
`WalkComplete` in `Listing`, `HostsAccountedFor` and `StatusAsTold` in `ConnectionStatus`.

**Bounds.** Two consumers and one clean job give every pair of transactions that
can meet on a row; a third would only repeat one of the roles. Two hosts are
needed for hosts to differ within an upload. Four uploads of one run contain a
first, a middle, a last and an exceptional one; with at most one copy of each
every order is reached, and two copies (`satellite_faults`) add duplicates,
the redelivery of a message whose transaction was committed among them. `MaxFaults`
bounds redeliveries and failed clean jobs only; losing a message in a crash or an error
is not bounded. `MaxSmallint` is 3, one below
the number in the `Overflow` upload. Consumers are symmetric; runs are not, since
their uploads differ. Deadlock is not checked: the instances have finitely many
uploads and the system legitimately stops when all are handled.

Two fetch workers are the least that overtake each other; the three requests of
`validator` have the loop, the workers and the validation worker at work on
different ones when the process ends. Order is a question
for one worker only (`validator_stops`). Five lines reach past the truncation limit
of the instance and past the two lines spared at the end.
`MaxRestarts` bounds restarts; one is enough for an upload to be read twice. The
topic has one partition and no rebalance, and the producer's own retries do not
duplicate messages.

The configurations of `public_api` have Kessel off, on, without authentication, with
settings that make its initialization fail, and with retries unset, zero and above
the limit; each mode is reached through a flag or the environment. `MaxPolls` bounds
how often flags change; a second change would fall into the same steps. Three items
are enough for two pages, an item on another organization and one created during
the walk; `MaxTime` is 1, so that runs share a creation time; `DefaultLimit` is 2, one
less than the table. `MaxItems` and `MaxChanges` are given for each
list: a run needs two changes to expire and to be timed out or answered late; three let a
host end before its run, which then expires and is timed out, and an upload come after
the clean job. Three items that pass a bucket
of 2 make one wait. The
inventory has hosts of one Satellite in two organizations (one of them given as a
number and as a string), directly connected ones, one without facts and
one whose Satellite has no organization; `MaxHosts` is the limit of a request.

**Fairness** (`satellite_faults`). Weak fairness of each consumer's own steps (a process
that is not killed goes on), of the clean job (its cron schedule starts it again)
and of the clock. Nothing is assumed about recipients, API callers or failures.
A transaction that waits for a lock waits for one of these fair processes.
In `validator_stops` each goroutine and `main` are weakly fair: an HTTP request
ends by its timeout, a delivery by its report. Signals, failed reads, failures of
the metrics server, the timeout of the shutdown, crashes and restarts may or may
not happen. `Drains` is therefore about shutdowns that do not need their timeout;
its exception, `Jammed`, is the one way for a shutdown to need it: one more error
fills the channel, the next blocks the goroutine that raises it.

In `public_api` the steps of the process and calls with a timeout are fair; a token
is fairly waited for only when the flag gave it a timeout, a check by Kessel only
ends for certain when the request is canceled, and the token for the checks never
for certain. `Answered` names these three waits as its exceptions, so it says that
there are no others. In `internal_api` goroutines are scheduled and their calls end by
timeouts; refills of the limiter are not fair, because a wait ends with the request.
For the process, main, the goroutine that stops the API and the sending of errors are
fair; clients, handlers, signals and failures are not, since the time to drain takes
the place of an answer. The drain of the API has 10 seconds and `shutdown` 20, hence
main's own timeout is not modelled there.

**Assumptions on uploads and clients.** Some properties are about well-behaved
recipients or clients. What that means is a definition next to the property, an ASSUME
of the instances that TLC evaluates (`MCRunner`, `MCSatellite`, `MCFull`, `MCPublicApi`) and
a hypothesis of the theorem, never of the specification:

* `CumulativeUploads` (`RunAndHostsAgree`, the runner half of `HostsForward`): each upload
  of a device contains the events of the earlier ones, as rhc-worker-playbook's do, and
  nothing follows the event that ends the playbook;
* `WholeOutput` (`FullLogWhole`): with full responses Satellite repeats all output;
* `OutputInBatches` (`LogInOrder`, `MissedIsMarked`): with partial responses each piece of
  output is in one batch only;
* `FromBeginning` (`WalkComplete`): the client starts a list of runs at offset 0 and gives
  limit and offset at most once.

What other services store is constrained by two ASSUMEs of `ConnectionStatus`.
`InventoryAssumption` gives the facts of a host the shape that inventory's schema gives them.
`InstanceAssumption` has all Satellite ids of one length: they are UUIDs
(`schema/private.openapi.yaml:398`), but nothing in the code checks it, and
`groupHostsBySatellite` relies on it when it concatenates an id and an organization
without a separator (`inventory_test.go:17` uses the id `5678`).

**What an instance leaves to a theorem, or open.** `VerdictsAgree` compares an upload with
itself reversed, not with every order. `HostsForward` in `full_responses` meets no partial
response, so that its clause on appended output rests on the theorem; with `MaxPolls` = 1
so does a change of flags after a flag had chosen an enforcing mode (`KesselEnforced`), and so
do two different Satellites in one request (`HostsAccountedFor`, under
`InstanceAssumption`). `RateRespected` follows one list; what other lists have taken
before is in its initial state, what they take meanwhile is not.

## Findings

1. `sent_before_recorded`: `ProcessRun` sends before it records; `docs/sequence.txt`
   has it the other way round. A quick answer is dropped.
2. `complete_reopened`: the clean job turns a run completed after its SELECT into
   `timeout`. `RunRecord` allows this step, so that the promise is what the code
   really keeps.
3. `never_panics`: in a big Satellite archive an event without console past the
   truncation limit panics; the condition has `||` where `&&` is meant.
4. `kessel_init_fails`: the mode is chosen without looking whether the Kessel client
   could be built. The documents promise RBAC-only authorization in that case; the
   code answers 403 in the modes in which Kessel enforces.

More was seen while modelling and has no run of its own:

* an upload with two consecutive updates of a Satellite host is stored with a
  missing-output mark, because `satAssignmentWithCase` compares the stored number with
  the last number of the upload;
* a finished event without a sequence number leaves `sat_sequence` NULL, so a late
  update of the same host still matches and sets it back to `running`;
* the clean job can store a timeout over the verdict of a Satellite host: when the run
  is already complete a consumer does not update, and so does not lock, its row, and
  the clean job then writes the hosts its subquery found before. For a runner's hosts
  this cannot happen (`VerdictKept`), because they are complete when their run is;
* `GetCorrelationId` looks at `executor_on_start` only, while the repository's README
  says that `executor_on_failed` carries the id as well;
* the internal list of run hosts appends `limit` and `offset` to a query that may have
  them already, and the generated wrapper then refuses the link;
* `Hack` escapes the whole query string once it has found a parameter in brackets
  (`fields[data]`, `filter[labels][..]`, `filter[run][..]`; `deepObject.go:51`), and the validator
  behind it then sees no limit, while the wrappers bind the one echo had parsed. With limit 0
  the public lists answer with an empty page whose next link is the page itself; the internal
  list divides by zero (`runHostsListV2.go:208`) and the server recovers with 500
  (`FindPanics`). `schema/public.openapi.yaml:472` has `minimum: 1`; `LimitsChecked` says that
  this is the only way past it;
* the lists of run hosts do not filter by what they show: a host is shown with its stored
  status, but `timeout` finds the hosts of timed-out and overdue runs, so that a host that
  ended well in such a run is found both under `success` and under `timeout`, and a host that
  still runs in an overdue one is shown as `running` and found only under `timeout`;
* when an upload ends a run, hosts it does not mention keep their status; those that are still
  `running` when the run's time is over, and those the clean job had timed out before a late
  upload, are found under no status (`HostsFound` states exactly this and the above);
* the connection status of hosts asks cloud connector without taking a token of the rate
  limiter (`highlevelConnectionStatus.go:161` and `:243`), unlike dispatch, cancellation and
  the status of recipients; its questions come on top of what `RateRespected` bounds;
* for a Satellite the same handler asks cloud connector in the organization that the host's
  facts give (line 243), which is the "organization within Satellite"
  (`schema/private.openapi.yaml:405`), while `dispatch/impl.go:68` and `recipientStatus.go:33`
  pass the tenant's organization for the same header; `ToldInThisRequest` states what the
  code does;
* `runsList.go:60` says that an empty list of services returns nothing; the code
  returns everything. `KesselEnforced` shows that the case does not arise where Kessel
  enforces; where RBAC does, the empty list means "no restriction";
* a successful connection status leaves out hosts whose Satellite sources does not
  know, and has a system with an empty id for every host inventory did not return
  (`HostsAccountedFor` states exactly this);
* an error of Kessel is answered with 403, where the comment at
  `kessel/authorization.go:308` suggests 503;
* `api/main.go:171` closes the database connection only if it could not be obtained.

## Proofs

`RunLifecycle_proofs` proves, for any sets of runs, hosts, consumers and uploads
and any bounds:

* `TypeCorrect`: `Spec => []TypeOK`;
* `NoLostUpdate`: `Spec => []WritesCurrent`;
* `CompleteKept`: `Spec => CompleteOnlyTimedOut`;
* `NeverShownRunningAgain`: `Spec => NeverRunningAgain`;
* `ImplementsRunRecord`: `Spec => KeepsPromise`.

`TypeOK` is not inductive: a consumer without a message has no upload whose
fields could be typed, and the host rows the clean job is about to write must
still exist. `TypeOK /\ WritesCurrent` is. Its parts:

* `ConsumerPlaces`, `RowsExist`: a consumer past its SELECT has a message and a
  run with a row; rows appear only when the request is through and never vanish;
* `OneWriter`: row locks are exclusive;
* `ConsumerWrites`: what a consumer has written replaces a row that is still not
  complete. The UPDATE checks this and `OneWriter` keeps it true until commit;
* `CleanWrites`: what the clean job has written is the current row with status
  `timeout`, exactly for the selected ids, all of them expired;
* `TimedOutExpired`: a stored timeout means the run is expired.

`CompleteKept` then follows because a commit by a consumer only replaces an
incomplete row. `NeverShownRunningAgain` also needs `TimedOutExpired`: a late
upload may store `running` over `timeout`, but for an expired run this is still
shown as a timeout. The refinement maps `status` to the stored status and `picked`
to `ids`; CreateRun is Record, Commit is Report or a stutter, CleanSelect, CleanCommit
and CleanAborts are Pick, TimeOut and GiveUp.

`RunHosts_proofs` proves, about the rows of `run_hosts` and stale reads:

* `ChangesCurrent`: `Spec => []HInv`;
* `CanceledKept`: `Spec => CanceledOnlyByStale`;
* `VerdictsAgreeAlways`: `Spec => []RunAndHostsAgree`, and `VerdictKept`: `Spec =>
  HostVerdictNotTimedOut`, both for `CumulativeUploads`.

`WritesCurrent` says which rows transactions may replace, not by what. `HInv` says it
exactly: every row that a consumer has written is what `statusFor`, `upsertedHost` or
`updatedSatHost` make of the row that is committed now, and every row of the clean job is
the current one with status `timeout`. From this `CanceledKept` follows, since a status
other than `canceled` can only come from what the consumer's SELECT saw.

Agreement of run and hosts needs more (`VInv`), because their rows are read, written and
timed out by different statements. For a run of a runner, `FinalOf` is the set of its
uploads that end the playbook; by `CumulativeUploads` they have the same hosts and
verdicts. A stored verdict of run or host is that of a final upload (`RunVerdict`,
`HostVerdict`); a consumer that found the run complete, and so holds no lock on it, finds
its hosts complete (`NoLockNeeded`); the clean job holds the lock on a run while it
writes exactly those of its hosts that are running (`TargetsOpen`), so that a timed-out
run leaves none running (`HostsTimedOut`) for a late upload to miss.

`RunOutput_proofs` proves, about the output of Satellite hosts:

* `OutputForward`: `Spec => SequenceForward`;
* `OutputWhole`: `Spec => []FullLogWhole`, for `WholeOutput`;
* `OutputInOrder`: `Spec => []LogInOrder` and `GapsMarked`: `Spec => []MissedIsMarked`, for
  `OutputInBatches`;
* `HostsOnlyForward`: `Spec => HostsForward`, for `CumulativeUploads`.

`HInv` reduces a step to one call of `updatedSatHost` on a row whose number is below that of
the upload (`matchesHost`). `LogInOrder` is not inductive, since nothing in it says that an
upload's pieces are larger than the stored ones when only its last number is:
`PartialRows` adds that every part of a log is the output of one upload and that the
stored number belongs to the last part, so that two batches that share a piece would be
the same batch. `Max` and `Min` are defined by CHOOSE, so that both must be shown to exist;
the lemma `Least` finds the least element of a set of numbers by the
well-foundedness of strict inclusion on finite sets, without an induction theorem.

`Validator_proofs` proves, for any topic, number of workers, retries and restarts:

* `Invariant`: `Spec => []Inv`, and from it
* `TypeCorrect` (`TypeOK`), `NeverSendsOnClosed` (`ChannelsSafe`), `NothingForgotten`
  (`HeldByOne`), `DrainedBeforeExit` (`CleanExitDrained`), `SkipsNothing`
  (`NoneSkipped`), `RelaysOnceAndOnlyValid` (`RelayedSound`);
* `RelaysInOrder`: `Spec => []RelayedInOrder`.

`Inv` is needed because none of these is inductive. `HeldByOne` speaks of sets of
holders; `Places`, `Apart` and `InsideIsHeld` say the same goroutine by goroutine, so
that a hand-over is seen to move a request and not copy it. `ChannelsSafe` needs the
whole order of the shutdown (`Shutdown`): workers end only when `requestsChan` is
closed, `validateChan` is closed only when all have ended, the validation worker
ends only then, and the goroutine of `Start` waits for it; with `Places` this also
gives `CleanExitDrained`. `RelayedOnce` and `FailedNotRelayed` need `Offsets` and
`History`: what this process has answered or relayed is behind its position and
no longer inside, and a process never goes back to it. `RelayedInOrder` needs `InLine`: with
one worker the requests in validation, in the worker and in the loop are in the order
of their offsets, behind everything this process has relayed. `LineStep` reduces each
action to which of the three places it fills, from which other one.

`PublicApi_proofs` proves, about authorization, for any configuration, identity, permissions and changes
of flags: `Invariant` (`Spec => []Inv`), `TypeCorrect` (`TypeOK`), `KesselDecides`
(`KesselEnforced`), `KesselWatches` (`KesselOnlyWatches`), `CallsBounded` (`RetriesBounded`) and
`CancelQuiets` (`CancelStopsCalls`). `Inv` adds to the two properties what each place in the
middleware implies: which modes lead there and what RBAC said before (`Stages`), and how
many requests and tokens were used up by the attempt and the try at hand (`Counts`,
which multiplies the two loops). That an attempt of the outer loop starts with no more
tokens than all earlier attempts may take is what makes the product a bound.

About the lists it proves, for any tables, queries, page sizes and changes during a walk:

* `ListInvariant` (`ListSpec => []ListInv`), `ShowsOnlyAllowed` (`TenantIsolated`),
  `FiltersFind` (`StatusFilters`);
* `WalkSeesAll`: `ListSpec => []WalkComplete`, for `FromBeginning`.

The walk is the hard part: pages are read by offset while rows come in at the front.
`WalkInv` says that a run that is still due has a rank above the offset of the next page
(`Due`: new rows only raise ranks, a page of n rows takes away ranks up to offset + n), and
that a count is behind the list by at most the rows created since (`CountLag`). The proof
relates three things about a page: the place of a row in it is its rank minus the
offset (`PlaceIsRank`, by counting), a full page moves the offset by its length, and there
is a next link exactly when the offset lies before that of the last page (division with
remainder by the limit).

`ApiTypesCorrect` is `ApiSpec => []TypesOK` for the composition: a request or a walk is followed
and keeps its invariant (`Inv`, `ListInv`), the other one is at rest and has no step.

`InternalApi_proofs` proves, about batches, for any requests, keys, runs and bucket, with
lists of any length:

* `Invariant`: `Spec => []IInv`, and from it `TypeCorrect` (`TypeOK`), `NeverDies`
  (`ProcessSurvives`), `AnswersAlwaysTrue` (`AnswersTrue`), `CancelsJustified`
  (`CancelJustified`);
* `RateAlwaysRespected`: `Spec => []RateRespected`.

`AnswersTrue` speaks of the end of a request; `IInv` says for every place of an item
what has happened to it so far (`Before`, `Between`, `After`), that an item past the
check of its run has a reason to be there (`Canceled`), and that a v2 request that is
being processed was validated as a whole. A goroutine touches only its own item
(`Frame`), which makes one lemma (`ItemStep`) enough for the others. `RateRespected` is
not inductive, because a token is taken before the message is sent: `RateInv` counts
the items that hold a token (`Ticket`) as well.

About the process it proves, for any set of clients, `ShutdownOrdered` (`ServerSpec =>
[]ServerInv`), `ServerTypes` and `OutlivedAlways` (`ServerSpec => []RequestsOutlived`).
`ServerInv` is the order of the shutdown: no listener once the API is stopped, nothing in
flight or late once its goroutine is done, main past the wait group only then, the Kessel
client closed after that.

About the connection status it proves, for any inventory, list of hosts and replies:

* `AlwaysAsTold`: `StatusSpec => []StatusAsTold`. The property is about answers; `StatusInv`
  says it of the three lists of responses while they are built, of which an error drops
  one and the handler goes on with the others, and that from a failure on the status is 500;
* `HostsAlwaysAccountedFor`: `StatusSpec => []HostsAccountedFor`. The property counts how often
  an id occurs in the answer; it is not inductive, because only the end of the handler puts
  the three lists together. `HostsInv` says where each position of `details` is at each
  step: details name the hosts found, each id once (`FoundOnce`, `DetailsOfFound`); no list
  is begun before the hosts are sorted (`Early`); each of the three lists holds every position
  its loop has come to exactly once (`Underway`), and so does a complete answer (`Divided`);
  a failed question has fixed the status (`NotYet`); an entry has one Satellite and one
  organization (`KeptApart`). The last rests on
  `KeyDetermines`: by `InstanceAssumption` equal concatenations have equal halves. The counts
  then follow from bijections: a found host has one position and that is in one entry
  (`OnceConcat`), and the positions with an empty id are those behind the hosts found
  (`MissingOnceNamed`).

`ApiTypesCorrect` is `ApiSpec => []TypesOK` for the three together, each followed or at rest.

`Archives_proofs` proves, for uploads and archives of any length, any sequence numbers and
any truncation limits:

* `VerdictsAlwaysAgree`: `ArchivesSpec => []VerdictsAgree`;
* `PartialIsNeverEarly`: `ArchivesSpec => []PartialNeverEarly`;
* `TruncationIsSound`: `ArchivesSpec => []TruncationSound`;
* `GrowthIsHarmless`: `ArchivesSpec => GrowthHarmless`.

The loops over events look for a first or a last one, so they are written with `Min` and `Max`
of sets of indices and not recursively. The sort is given by ranks: an event goes to the
place after those that come before it. That this is a permutation is shown without
induction: places grow along the order (`PlaceGrows`), n different places in 1..n are all
of them (`PlacesTaken`). With it each inference over the sorted upload is a function of the
set of its events (`FoundIs`, `PartialIs`, `HostIs`, `FullIs`), which does not change when the
upload is reversed, and in which the verdict of the run can be read off those of the hosts.
What makes the first finished event of a host (`inferSatHostStatus`) and its last status
(`inferSatPlaybookStatus`) the same is the hypothesis in `SatVerdictAgrees` that no host
finishes twice. Of an archive the lines up to the first that stops validation are its
events, so a longer archive has the old events in front of the new ones (`FirstCarrierStays`).

The assumptions are the named ASSUMEs of the modules: what kinds of uploads and
requests there are, what inventory stores, that the bucket's size and sequence numbers are
natural numbers, that the walk the lists are left at is one of the instance
(`WalksAssumption`), and that the sentinel values are not rows, messages or hosts.

The hypotheses of single theorems are those of "Assumptions on uploads and clients".

Only model-checked: all liveness (`Settles`, `Settled`, `Drains`, `Answered`,
`RequestsAnswered`, `ProcessEnds`), because liveness under fairness is outside the prover's
reach. Every invariant, action property and refinement that a passing run checks is also
proved.

Proved and in no run of their own: `WritesCurrent`, `CompleteOnlyTimedOut`,
`ProcessSurvives`, and the inductive invariants (`IInv`, `HInv`, `VInv`, `PartialRows`,
`Inv`, `InLine`, `ListInv`, `WalkInv`, `ServerInv`, `StatusInv`, `HostsInv`).

## Not modelled, and the plan

Left out for good: stored-only columns, the building of URLs, headers and HTTP
messages, operations of generated clients that the program never calls, metrics,
logging, the parsing of settings. They have no state that a property could be about.
Negative limits and offsets, which a request can hide from the validator as it can a limit
of 0, are left out as well: the database layer ignores them, while the links are computed
with them.

Planned, in this order:

1. Composition of `Validator` with `RunLifecycle` through the updates topic, which
   would replace the free reordering and loss of `RunLifecycle` by the validator's.
2. A process that runs several modules with one error channel and one wait group.
3. `EventStreams`: table changes to create, update, delete and read events (Java,
   `event-streams`), composed with `RunRecord`.
