------------------------------- MODULE Listing -------------------------------
(***************************************************************************)
(* The lists of runs and of run hosts (public API) and of run hosts        *)
(* (internal API), and a client that walks one of them from link to link   *)
(* while runs are created, answered and run out of time.  A list is read   *)
(* by two statements outside a transaction: the count, then the page.  An  *)
(* item is a run, or a run host joined with its run.                       *)
(***************************************************************************)
EXTENDS Integers, FiniteSets, Sequences, SequencesExt, FiniteSetsExt

CONSTANTS Id,           \* ids of items: random uuids, unrelated to their age
          Kind,         \* what the filters tell apart: [org, service, labels]
          Walks,        \* the queries clients start from
          Blocklist,    \* organizations the internal API turns away
          DefaultLimit,
          MaxLimit,     \* the maximum the schema gives for a limit
          MaxTime,      \* bound on creation times; items may share one
          MaxItems,     \* list -> bound on its items
          MaxChanges    \* list -> bound on the uploads, timeouts and expiries of items

VARIABLES table,    \* the items
          changes,  \* how often one of them has changed
          at,       \* the next step of the walk: "count", "find" or "end"
          query,    \* the request of the page being read
          total,    \* its count
          page,     \* the last answer
          started,  \* ids that matched when the walk began
          seen,     \* ids returned so far
          raced     \* items created between the last count and its page

walk == <<at, query, total, page, started, seen>>
listVars == <<table, changes, raced, walk>>

NoFilter == "none"
None == -1
Lists == {"runs", "hosts", "internal"}
RunStatuses == {"running", "success", "failure", "timeout", "canceled"}

\* A run, or a run host with the status of its run.
Run == [id : Id, kind : Kind, created : 0..MaxTime, run : RunStatuses, status : RunStatuses,
        expired : BOOLEAN]

\* A request; given says how often limit and offset appear in it.
ApiRunsListParams ==
    [list : Lists, org : STRING, allowed : SUBSET STRING,
     service : STRING, status : RunStatuses \cup {NoFilter},
     params : Seq([prefix : STRING, key : STRING, value : STRING]), sort : {"asc", "desc"},
     limit : Nat \cup {None}, offset : Nat \cup {None}, given : Nat,
     malformed : BOOLEAN]

ASSUME ListingAssumption ==
    /\ Id \subseteq Int /\ IsFiniteSet(Id)
    /\ Walks \subseteq ApiRunsListParams
    /\ MaxLimit \in Nat /\ DefaultLimit \in 1..MaxLimit
    /\ MaxTime \in Nat /\ MaxItems \in [Lists -> Nat] /\ MaxChanges \in [Lists -> Nat]

-----------------------------------------------------------------------------
(* Requests                                                                *)

\* The middleware collects the values of each key, in the order of the request,
\* from the parameters with a prefix: [prefix, key, value].
parseDeepObject(params, prefix) ==
    LET mine == SelectSeq(params, LAMBDA p : p.prefix = prefix)
        values(key) == SelectSeq(mine, LAMBDA p : p.key = key)
    IN  [key \in {mine[i].key : i \in DOMAIN mine} |->
            [i \in DOMAIN values(key) |-> values(key)[i].value]]

\* Of several values of a label the last one counts.
labelsOf(labelFilters) == [key \in DOMAIN labelFilters |-> Last(labelFilters[key])]

\* runs.labels @> labels
addLabelFilterToQueryAsWhereClause(item, labelFilters) ==
    \A key \in DOMAIN labelFilters :
        key \in DOMAIN item.kind.labels /\ item.kind.labels[key] = labelsOf(labelFilters)[key]

overdue(item) == item.run = "running" /\ item.expired

\* Faulty variant: the timeout is taken into account on one side only.
statusFilter_NoOverdue(status, item) ==
    CASE status = NoFilter -> TRUE
      [] status = "timeout" -> item.run = "timeout"
      [] status = "running" -> item.status = "running" /\ ~item.expired
      [] OTHER -> item.status = status

statusFilter(status, item) ==
    CASE status = NoFilter -> TRUE
      [] status = "timeout" -> item.run = "timeout" \/ overdue(item)
      [] status = "running" -> item.status = "running" /\ ~item.expired
      [] OTHER -> item.status = status

serviceFilter(q, item) == q.service # NoFilter => item.kind.service = q.service

\* The handlers read an empty list as "no restriction".
GetAllowedServices(q, item) == q.allowed # {} => item.kind.service \in q.allowed

\* The conditions are joined by AND, each in parentheses.
filters(q, item) ==
    /\ item.kind.org = q.org
    /\ statusFilter(q.status, item)
    /\ serviceFilter(q, item)
    /\ addLabelFilterToQueryAsWhereClause(item, parseDeepObject(q.params, "labels"))

ApiRunsList(q, item) == filters(q, item) /\ GetAllowedServices(q, item)
ApiRunHostsList(q, item) == filters(q, item) /\ GetAllowedServices(q, item)
\* The internal API trusts its callers with all services.
ApiInternalV2RunHostsList(q, item) == filters(q, item)

\* Faulty variant: the OR of the timeout condition is not in parentheses.
where_Unparenthesized(q, item) ==
    \/ filters(q, item) /\ GetAllowedServices(q, item)
    \/ q.status = "timeout" /\ overdue(item)

where(q, item) ==
    CASE q.list = "runs" -> ApiRunsList(q, item)
      [] q.list = "hosts" -> ApiRunHostsList(q, item)
      [] q.list = "internal" -> ApiInternalV2RunHostsList(q, item)

matching(q) == {item \in table : where(q, item)}

\* The stored status, unless a run has outlived its timeout.
mapFieldsToSql(item) == IF overdue(item) THEN "timeout" ELSE item.status
mapHostFieldsToSql(item) == item.status

\* The columns of the fields asked for, of which the status alone is kept.
runFields == {"id", "org_id", "recipient", "url", "labels", "timeout", "status"}
runHostFields == {"host", "run", "status", "stdout", "links", "inventory_id"}

parseFields(q) ==
    LET input == parseDeepObject(q.params, "fields")
        known == IF q.list = "runs" THEN runFields ELSE runHostFields
    IN  IF "data" \notin DOMAIN input THEN {"status"}
        ELSE IF ToSet(input["data"]) \subseteq known THEN ToSet(input["data"])
        ELSE {"unknown"}

dbRuntoApiRun(q, item) ==
    IF "status" \notin parseFields(q) THEN NoFilter
    ELSE IF q.list = "runs" THEN mapFieldsToSql(item)
    ELSE mapHostFieldsToSql(item)

\* Faulty variant: runs created together are not sorted.
mayPrecede_CreatedOnly(q, a, b) ==
    q.list = "runs" => IF q.sort = "asc" THEN a.created <= b.created ELSE a.created >= b.created

\* Runs are sorted by creation, then id; run hosts are not sorted at all.
mayPrecede(q, a, b) ==
    IF q.list # "runs" THEN TRUE
    ELSE IF a.created = b.created THEN a.id <= b.id
    ELSE IF q.sort = "asc" THEN a.created < b.created ELSE a.created > b.created

getLimit(q) == IF q.limit = None THEN DefaultLimit ELSE q.limit
getOffset(q) == IF q.offset = None THEN 0 ELSE q.offset

\* The orders in which the database may return the matching items.
orders(q) ==
    {s \in SetToSeqs(matching(q)) : \A i, j \in DOMAIN s : i < j => mayPrecede(q, s[i], s[j])}

pages(q) ==
    {SubSeq(s, getOffset(q) + 1, Min({Len(s), getOffset(q) + getLimit(q)})) : s \in orders(q)}

\* The internal API appends limit and offset to the query it was asked with,
\* so that a link gives them once more than the request did.
internalLink(q, offset) ==
    [q EXCEPT !.limit = getLimit(q), !.offset = offset, !.given = @ + 1]

\* The public API replaces them.
publicLink(q, offset) ==
    [q EXCEPT !.limit = getLimit(q), !.offset = offset, !.given = 1]

createLink(q, offset) ==
    IF q.list = "internal" THEN internalLink(q, offset) ELSE publicLink(q, offset)

\* The public API divides floating-point numbers: whatever number a limit of 0
\* yields is multiplied by 0.  The internal API divides integers (linksPanic).
lastPage(limit, count) ==
    IF limit = 0 THEN 0 ELSE (IF count > 0 THEN count - 1 ELSE 0) \div limit

linksPanic(q) == q.list = "internal" /\ getLimit(q) = 0

createLinks(q, count) ==
    LET limit == getLimit(q)
        offset == getOffset(q)
    IN  [last |-> lastPage(limit, count) * limit,
         next |-> IF offset + limit < count THEN offset + limit ELSE None]

\* Hack re-escapes the whole query once it finds a parameter in brackets: the
\* validator then sees no limit, while the wrappers still bind it.  The service
\* is such a parameter for hosts (filter[run][service]).
hidden(q) == q.params # <<>> \/ (q.list # "runs" /\ q.service # NoFilter)

badLimit(q) == q.limit \notin (1..MaxLimit) \cup {None}

\* The validation against the schema, of what it sees.
schemaFails(q) == badLimit(q) /\ ~hidden(q)

\* The generated wrappers take each of limit and offset once.
bindFails(q) == q.given > 1

\* A field that does not exist, or an id that is no uuid.
parseFails(q) == parseFields(q) = {"unknown"} \/ q.malformed

\* Faulty variant: a blocklisted organization is reported as unknown.
refusal_NotFound(q) ==
    IF schemaFails(q) \/ bindFails(q) THEN 400
    ELSE IF q.list = "internal" /\ q.org \in Blocklist THEN 404
    ELSE IF parseFails(q) THEN 400
    ELSE 0

\* The request is validated, its parameters are bound, the organization is
\* looked up in the blocklist and fields and ids are parsed before anything is
\* read.
refusal(q) ==
    IF schemaFails(q) \/ bindFails(q) THEN 400
    ELSE IF q.list = "internal" /\ q.org \in Blocklist THEN 403
    ELSE IF parseFails(q) THEN 400
    ELSE 0

-----------------------------------------------------------------------------

ids(items) == {i.id : i \in items}

emptyPage(code) == [code |-> code, data |-> <<>>, offset |-> 0, last |-> 0, next |-> None]

ListInit ==
    /\ table = {} /\ changes = 0
    /\ at = "count"
    /\ query \in Walks
    /\ total = 0
    /\ page = emptyPage(0)
    /\ started = {} /\ seen = {} /\ raced = 0

Refuse ==
    /\ at = "count" /\ refusal(query) # 0
    /\ at' = "end"
    /\ page' = emptyPage(refusal(query))
    /\ UNCHANGED <<table, changes, raced, query, total, started, seen>>

Count ==
    /\ at = "count" /\ refusal(query) = 0
    /\ at' = "find"
    /\ total' = Cardinality(matching(query))
    /\ started' = IF page.code = 0 THEN ids(matching(query)) ELSE started
    /\ raced' = 0
    /\ UNCHANGED <<table, changes, query, page, seen>>

\* The client follows the next link, if there is one.
Find ==
    /\ at = "find" /\ ~linksPanic(query)
    /\ \E items \in pages(query) :
        LET links == createLinks(query, total)
        IN  /\ page' = [code |-> 200, offset |-> getOffset(query),
                        last |-> links.last, next |-> links.next,
                        data |-> [i \in DOMAIN items |-> dbRuntoApiRun(query, items[i])]]
            /\ seen' = seen \cup {items[i].id : i \in DOMAIN items}
            /\ IF links.next = None THEN at' = "end" /\ UNCHANGED query
               ELSE at' = "count" /\ query' = createLink(query, links.next)
    /\ UNCHANGED <<table, changes, raced, total, started>>

\* The page was read, but its links cannot be computed: the server recovers.
FindPanics ==
    /\ at = "find" /\ linksPanic(query)
    /\ at' = "end"
    /\ page' = emptyPage(500)
    /\ UNCHANGED <<table, changes, raced, query, total, started, seen>>

ReadFails ==
    /\ at \in {"count", "find"} /\ refusal(query) = 0
    /\ at' = "end"
    /\ page' = emptyPage(500)
    /\ UNCHANGED <<table, changes, raced, query, total, started, seen>>

-----------------------------------------------------------------------------
(* The tables, as dispatch, responses and the passing of time change them  *)
(* during the walk                                                         *)

newItem(id, kind, created) ==
    [id |-> id, kind |-> kind, created |-> created,
     run |-> "running", status |-> "running", expired |-> FALSE]

Create ==
    /\ at # "end" /\ Cardinality(table) < MaxItems[query.list]
    /\ \E id \in Id \ ids(table), kind \in Kind, created \in 0..MaxTime :
        table' = table \cup {newItem(id, kind, created)}
    /\ raced' = IF at = "find" THEN raced + 1 ELSE raced
    /\ UNCHANGED <<changes, walk>>

change(item, new) ==
    /\ at # "end" /\ changes < MaxChanges[query.list] /\ new # item
    /\ changes' = changes + 1
    /\ table' = (table \ {item}) \cup {new}
    /\ UNCHANGED <<raced, walk>>

\* An upload is stored: the run goes on or ends unless it has ended, also one
\* that had timed out; a host the upload mentions takes over a status of its own,
\* whatever becomes of the run, and another host keeps its status.  "success"
\* stands for every status of a run or host that has ended.
Respond ==
    \E item \in table :
        \E run \in IF item.run = "success" THEN {"success"} ELSE {"running", "success"},
           status \in {item.status, "running", "success"} :
            /\ query.list = "runs" => status = run
            /\ change(item, [item EXCEPT !.run = run, !.status = status])

\* The clean job gives up an overdue run, and its host unless that has ended.
\* (What it does to a run that ends meanwhile is in RunLifecycle.)
TimeOut ==
    \E item \in table :
        /\ overdue(item)
        /\ change(item, [item EXCEPT !.run = "timeout",
                                     !.status = IF @ = "running" THEN "timeout" ELSE @])

Expire ==
    \E item \in table : ~item.expired /\ change(item, [item EXCEPT !.expired = TRUE])

ListNext ==
    \/ Refuse \/ Count \/ Find \/ FindPanics \/ ReadFails
    \/ Create \/ Respond \/ TimeOut \/ Expire

ListSpec == ListInit /\ [][ListNext]_listVars

-----------------------------------------------------------------------------

ListTypeOK ==
    /\ table \subseteq Run /\ \A a, b \in table : a.id = b.id => a = b
    /\ query \in ApiRunsListParams
    /\ changes \in 0..MaxChanges[query.list]
    /\ at \in {"count", "find", "end"}
    /\ total \in 0..Cardinality(Id)
    /\ page.code \in {0, 200, 400, 403, 500}
    /\ seen \subseteq Id /\ started \subseteq Id /\ raced \in Nat

\* A list shows nothing but items of the organization and of a service the
\* caller may see: the OR in the condition on expired runs adds none.
TenantIsolated ==
    \A item \in table : item.id \in seen =>
        /\ item.kind.org = query.org
        /\ (query.list # "internal" /\ query.allowed # {}) => item.kind.service \in query.allowed

\* Runs are filtered by the status they are shown with, though one is computed
\* in the condition and the other in the selected columns: a filtered page
\* shows no other status, and every run is found under exactly the status an
\* unfiltered list shows for it.
RunsAsShown ==
    query.list = "runs" =>
        /\ query.status # NoFilter =>
              \A i \in DOMAIN page.data : page.data[i] \in {query.status, NoFilter}
        /\ \A item \in table, status \in RunStatuses :
              statusFilter(status, item) <=> mapFieldsToSql(item) = status

\* The run of an item, as the list of runs has it.
runOf(item) == [item EXCEPT !.status = item.run]

\* Run hosts are shown with their stored status, but not all are filtered by it.
\* A page filtered by "running" or by a final status shows no other status.  The
\* filter "timeout" goes by the run: it finds the hosts of the runs that the list
\* of runs shows as timed out, also a host that is shown as running or as
\* ended.  And some hosts are found under no status at all: once the run has
\* ended, those still shown as timed out, and those still running after the
\* run's timeout.
HostsFound ==
    query.list # "runs" =>
        /\ query.status \notin {NoFilter, "timeout"} =>
              \A i \in DOMAIN page.data : page.data[i] \in {query.status, NoFilter}
        /\ \A item \in table :
              /\ statusFilter("timeout", item) <=> mapFieldsToSql(runOf(item)) = "timeout"
              /\ (\E status \in RunStatuses : statusFilter(status, item)) <=>
                    ~ /\ item.run = "success"
                      /\ item.status = "timeout" \/ (item.status = "running" /\ item.expired)

\* What the status filters of the lists find: runs by the status they are shown
\* with, hosts by a mixture of their own status and that of their run (the status
\* conditions of runsList.go, runHostsList.go and runHostsListV2.go against the
\* columns they select).
StatusFilters == RunsAsShown /\ HostsFound

\* Following the next links to the end shows every run that was there at the
\* beginning, whatever was created meanwhile: only a run created between the
\* last count and its page can hide one, by pushing it to a page that no link
\* leads to.
NoneMissed ==
    (query.list = "runs" /\ query.status = NoFilter /\ at = "end" /\ page.code = 200) =>
        Cardinality(started \ seen) <= raced

\* The two ways links are computed agree: a page of a walk from the beginning has
\* a next one exactly if it is before the page the last link names.  (With a limit
\* of 0, which a request that hides it from the validator may ask for, the pages
\* are empty and the next link leads to the same page again.)
LinksAgree ==
    (page.code = 200 /\ getLimit(query) > 0 /\ page.offset % getLimit(query) = 0) =>
        (page.next # None <=> page.offset < page.last)

\* The links of the public lists can be followed to the end: only what the
\* client itself got wrong is refused as a bad request.
LinksValid ==
    (query.list # "internal" /\ page.code = 400) => parseFails(query) \/ badLimit(query)

\* A limit the schema rules out is answered only where the request hides it from
\* the validator, a limit of 0 not even then by the internal API.
LimitsChecked ==
    (page.code = 200 /\ badLimit(query)) => hidden(query) /\ ~linksPanic(query)

\* What the walks of a client that only follows links look like: the first
\* request gives limit and offset at most once, and a list of runs is read from
\* its beginning.
FromBeginning ==
    \A q \in Walks :
        /\ q.list # "internal" => q.given <= 1
        /\ q.list = "runs" => getOffset(q) = 0

\* A client that follows the links to their end sees the whole list, each run at
\* least once: they agree on where the end is, none of them is refused, they
\* leave out nothing but what races with a count, and no page has a size that the
\* validator saw and does not allow.
WalkComplete == NoneMissed /\ LinksAgree /\ LinksValid /\ LimitsChecked

-----------------------------------------------------------------------------
(* The inductive invariant behind these properties *)

\* Only what has expired times out, and the clean job leaves no host running in a
\* run that timed out; apart from that a host has a status of its own.
Rows ==
    \A item \in table :
        /\ item.run \in {"running", "success", "timeout"}
        /\ item.status \in {"running", "success", "timeout"}
        /\ (item.run = "timeout" \/ item.status = "timeout") => item.expired
        /\ item.run = "timeout" => item.status # "running"
        /\ query.list = "runs" => item.status = item.run

\* What was shown is in the table, of the organization and of allowed services.
Shown == seen \subseteq ids(table) /\ TenantIsolated

\* A walk goes on only after a page, a refusal or failure has no data, and what is
\* refused is not read.
Paged ==
    /\ page.code \in {400, 403, 500} => at = "end"
    /\ page.code # 200 => page.data = <<>>
    /\ at = "find" => refusal(query) = 0
    /\ (query.status # NoFilter /\ (query.list # "runs" => query.status # "timeout")) =>
          \A i \in DOMAIN page.data : page.data[i] \in {query.status, NoFilter}

\* The ids of the matching items up to and including this one.
upTo(item) == ids({other \in matching(query) : mayPrecede(query, other, item)})

wholeList == query.list = "runs" /\ query.status = NoFilter

\* Before the first page nothing was shown; before the first count nothing is due.
Begun ==
    /\ page.code = 0 => seen = {} /\ (wholeList => getOffset(query) = 0)
    /\ (page.code = 0 /\ at = "count") => started = {}
    /\ started \subseteq ids(table)

\* Whatever is still due comes after the offset of the page to be read next: new
\* items can push it back but never to a page that was read.
Due ==
    (wholeList /\ at # "end") =>
        \A item \in table :
            item.id \in started \ seen =>
                item \in matching(query) /\ Cardinality(upTo(item)) > getOffset(query)

\* The count is behind by what was created since.
CountLag ==
    (wholeList /\ at = "find") => Cardinality(ids(matching(query))) <= total + raced

\* The links of the public lists name each parameter once.
LinksBind == query.list # "internal" => query.given <= 1

ListInv == ListTypeOK /\ Rows /\ Shown /\ Paged
WalkInv == Begun /\ Due /\ CountLag /\ LinksBind
=============================================================================
