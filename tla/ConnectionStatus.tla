-------------------------- MODULE ConnectionStatus ---------------------------
(***************************************************************************)
(* The high-level connection status of the internal API.  For a list of    *)
(* hosts it asks inventory (twice), then sources about the Satellites the  *)
(* hosts belong to, then cloud connector about every recipient, and puts   *)
(* the answers together.  One request is followed while hosts disappear    *)
(* from inventory.  A pointer that may be nil is <<>> or <<value>>; the    *)
(* text of a fact is a sequence, so that texts can be concatenated.  A     *)
(* list of hosts is the set of their positions in the slice of details,    *)
(* whose order every list keeps.                                           *)
(***************************************************************************)
EXTENDS Integers, FiniteSets, Sequences, SequencesExt, FiniteSetsExt

CONSTANTS HostRequests, \* [org, hosts]: hosts is a sequence of ids, "malformed" ones too
          Inventory,    \* id -> [facts, rhc], what inventory knows of a host
          RhcIds,       \* the well-formed client ids of inventory and sources
          MaxHosts      \* how many hosts a request may list (50)

VARIABLES asked,     \* the request
          known,     \* the hosts that are in inventory now
          step,      \* where the handler is
          found,     \* the hosts of inventory's first answer, in its order
          details,   \* what GetHostConnectionDetails returned
          groups,    \* hostsGroupedBySatellite: key -> [instance, org, hosts, rhc]
          todo,      \* keys of groups the current loop has not come to
          partial,   \* [satellite, direct, none]: the three lists of responses
          said,      \* <<org, client, connected>>: what cloud connector answered
          failed,    \* a question to cloud connector was not answered
          committed, \* the committed status, 0 if none is
          body       \* the responses sent

upstream == <<asked, known>>
statusVars ==
    <<upstream, step, found, details, groups, todo, partial, said, failed, committed, body>>

Malformed == "malformed"
NoId == ""                  \* the zero value of a host's id
ZeroUuid == "zero"

RecipientType == {"satellite", "directConnect", "none"}
RecipientWithConnectionInfo ==
    [sat : Seq(Seq(Int)), recipient : RhcIds \cup {ZeroUuid}, systems : SUBSET Nat, type : RecipientType,
     status : {"connected", "disconnected", "rhc_not_configured"}]

-----------------------------------------------------------------------------
(* Replies.  The generated clients decode a body only if its status and its *)
(* content type are the documented ones.                                   *)

Status == {200, 400, 404, 500}
NoReply == [status |-> 0, json |-> FALSE, valid |-> FALSE]
ServiceReply == [status : Status, json : BOOLEAN, valid : BOOLEAN] \cup {NoReply}

parse(reply, codes) ==
    CASE reply.status = 0 -> "error"
      [] reply.status \in codes /\ reply.json -> IF reply.valid THEN "decoded" ELSE "error"
      [] OTHER -> "undecoded"

ParseApiHostGetHostByIdResponse(reply) == parse(reply, {200})
ParseApiHostGetHostSystemProfileByIdResponse(reply) == parse(reply, {200})
ParseListSourcesResponse(reply) == parse(reply, {200, 400})
ParseGetSourcesRhcConnectionResponse(reply) == parse(reply, {200})
ParseV2ConnectionStatusMultiorgResponse(reply) == parse(reply, {200})

-----------------------------------------------------------------------------
(* Inventory                                                               *)

strSliceToUUIDSlice(ids) == \A i \in DOMAIN ids : ids[i] # Malformed

getHostDetails(reply) ==
    IF ParseApiHostGetHostByIdResponse(reply) = "error" THEN "error"
    ELSE IF reply.status = 404 THEN "none"
    ELSE IF ParseApiHostGetHostByIdResponse(reply) = "undecoded" THEN "error"
    ELSE "found"

getSystemProfileDetails(reply) ==
    ParseApiHostGetHostSystemProfileByIdResponse(reply) = "decoded"

\* A number loses its fraction (it is given in tenths here).
convertInterfaceToString(v) ==
    CASE v.kind = "float64" -> <<v.value \div 10>>
      [] v.kind = "string" -> v.value
      [] OTHER -> <<>>

\* The last fact set of the namespace that has the key.
satelliteFact(facts, key) ==
    LET having == {i \in DOMAIN facts : facts[i].namespace = "satellite" /\ key \in DOMAIN facts[i].facts}
    IN  IF having = {} THEN <<>> ELSE <<convertInterfaceToString(facts[Max(having)].facts[key])>>

getSatelliteFacts(facts) ==
    [instance |-> satelliteFact(facts, "satellite_instance_id"),
     org |-> satelliteFact(facts, "organization_id")]

\* What inventory keeps of a host: at most one list of fact sets, whose values
\* are numbers and strings, and at most one client id.  Requests list ids.
ASSUME InventoryAssumption ==
    /\ NoId \notin DOMAIN Inventory
    /\ \A h \in DOMAIN Inventory :
         /\ \/ Inventory[h].rhc = <<>>
            \/ \E c \in RhcIds \cup {Malformed} : Inventory[h].rhc = <<c>>
         /\ Inventory[h].facts # <<>> =>
              LET sets == Inventory[h].facts[1]
              IN  /\ Len(sets) \in Nat /\ DOMAIN sets = 1..Len(sets)
                  /\ \A i \in DOMAIN sets : \A key \in DOMAIN sets[i].facts :
                       LET v == sets[i].facts[key]
                       IN  /\ v.kind = "float64" => v.value \in Int
                           /\ v.kind = "string" => v.value \in Seq(Int)
    /\ \A r \in HostRequests : Len(r.hosts) \in Nat /\ DOMAIN r.hosts = 1..Len(r.hosts)

\* The ids of Satellites are UUIDs, all of one length (by the schema; the code
\* does not check it).
ASSUME InstanceAssumption ==
    \A g, h \in DOMAIN Inventory :
        Inventory[g].facts # <<>> /\ Inventory[h].facts # <<>> =>
            LET a == getSatelliteFacts(Inventory[g].facts[1]).instance
                b == getSatelliteFacts(Inventory[h].facts[1]).instance
            IN  a # <<>> /\ b # <<>> => Len(a[1]) = Len(b[1])

\* The profiles of the second answer, by host.
keySystemProfileResults(profiles) == {h \in profiles : \E i \in DOMAIN asked.hosts : asked.hosts[i] = h}

\* The facts of a host are a pointer, and so is its profile, which is missing
\* if the host was deleted after the first answer.
detailsPanic(profiles) ==
    \E i \in DOMAIN found :
        Inventory[found[i]].facts = <<>> \/ found[i] \notin keySystemProfileResults(profiles)

noDetails == [id |-> NoId, instance |-> <<>>, org |-> <<>>, rhc |-> <<>>]

\* The slice is as long as the request: what was not found stays zero.
GetHostConnectionDetails ==
    [i \in DOMAIN asked.hosts |->
        IF i > Len(found) THEN noDetails
        ELSE LET facts == getSatelliteFacts(Inventory[found[i]].facts[1])
             IN  [id |-> found[i], instance |-> facts.instance, org |-> facts.org,
                  rhc |-> Inventory[found[i]].rhc]]

-----------------------------------------------------------------------------
(* Sources and cloud connector, as sets of possible results                *)

sourceAnswer(kind, rhc) == [kind |-> kind, rhc |-> rhc]

\* A source without a name is dereferenced all the same.
getSourceIdBySatelliteId(reply, data) ==
    IF ParseListSourcesResponse(reply) # "decoded" \/ reply.status = 400 THEN "error"
    ELSE IF data \in {"empty", "no id"} THEN "error"
    ELSE IF data = "no name" THEN "panic"
    ELSE "ok"

getRHCConnectionStatus(reply, data) ==
    IF ParseGetSourcesRhcConnectionResponse(reply) # "decoded" \/ data = "empty" THEN "error" ELSE "ok"

\* What comes of the two questions to sources.
sourceIdResults ==
    {getSourceIdBySatelliteId(r, d) : r \in ServiceReply, d \in {"empty", "no id", "no name", "full"}}
rhcConnectionResults == {getRHCConnectionStatus(r, d) : r \in ServiceReply, d \in {"empty", "full"}}

GetSourceConnectionDetails ==
    LET rhcs == {<<>>} \cup {<<c>> : c \in RhcIds}
    IN  {sourceAnswer(k, <<>>) : k \in (sourceIdResults \cup rhcConnectionResults) \ {"ok"}}
            \cup IF "ok" \in sourceIdResults \cap rhcConnectionResults
                 THEN {sourceAnswer("ok", c) : c \in rhcs} ELSE {}

GetConnectionStatus ==
    LET answered == {ParseV2ConnectionStatusMultiorgResponse(r) : r \in ServiceReply}
    IN  (IF "decoded" \in answered THEN {"connected", "disconnected", "panic"} ELSE {})
            \cup (IF answered # {"decoded"} THEN {"error"} ELSE {})

-----------------------------------------------------------------------------
(* The parts of the answer                                                 *)

\* Faulty variant: the first two cases do not exclude each other.
sortHostsByRecipient_Overlap ==
    [satellite |-> {i \in DOMAIN details : details[i].instance # <<>>},
     direct |-> {i \in DOMAIN details : details[i].rhc # <<>>},
     none |-> {i \in DOMAIN details : details[i].instance = <<>> /\ details[i].rhc = <<>>}]

sortHostsByRecipient ==
    [satellite |-> {i \in DOMAIN details : details[i].instance # <<>>},
     direct |-> {i \in DOMAIN details : details[i].instance = <<>> /\ details[i].rhc # <<>>},
     none |-> {i \in DOMAIN details : details[i].instance = <<>> /\ details[i].rhc = <<>>}]

formatConnectionResponse(sat, rhc, hosts, type, status) ==
    [sat |-> sat, recipient |-> IF rhc = <<>> \/ rhc = <<Malformed>> THEN ZeroUuid ELSE rhc[1],
     systems |-> hosts, type |-> type, status |-> status]

getRHCStatus(hosts) ==
    formatConnectionResponse(<<>>, <<>>, hosts, "none", "rhc_not_configured")

satInstanceAndOrg(host) == host.instance[1] \o host.org[1]

\* The first host of a group names its Satellite and organization.
groupHostsBySatellite(hosts) ==
    LET keys == {satInstanceAndOrg(details[i]) : i \in hosts}
        members(k) == {i \in hosts : satInstanceAndOrg(details[i]) = k}
        leader(k) == details[Min(members(k))]
    IN  [k \in keys |-> [instance |-> leader(k).instance[1], org |-> leader(k).org[1],
                         hosts |-> members(k), rhc |-> <<>>]]

concatResponses == partial.satellite \o partial.direct \o partial.none

-----------------------------------------------------------------------------
(* The handler                                                             *)

\* Faulty variant: the last status written wins.
send_Last(status, responses) ==
    /\ step' = "done"
    /\ committed' = status
    /\ body' = responses

send(status, responses) ==
    /\ step' = "done"
    /\ committed' = IF committed = 0 THEN status ELSE committed
    /\ body' = responses

parts == <<found, details, groups, todo, partial, said, failed>>

ReadRequest ==
    /\ step = "read"
    /\ IF Len(asked.hosts) > MaxHosts \/ ~strSliceToUUIDSlice(asked.hosts)
       THEN send(400, <<>>)
       ELSE step' = "hosts" /\ UNCHANGED <<committed, body>>
    /\ UNCHANGED <<upstream, parts>>

AskHosts ==
    /\ step = "hosts"
    /\ \E reply \in ServiceReply :
        CASE getHostDetails(reply) = "error" -> send(400, <<>>) /\ UNCHANGED found
          [] getHostDetails(reply) = "none" -> send(200, <<>>) /\ UNCHANGED found
          [] OTHER ->
                /\ found' \in SetToSeqs({asked.hosts[i] : i \in DOMAIN asked.hosts} \cap known)
                /\ IF found' = <<>> THEN send(200, <<>>)
                   ELSE step' = "profiles" /\ UNCHANGED <<committed, body>>
    /\ UNCHANGED <<upstream, details, groups, todo, partial, said, failed>>

AskProfiles ==
    /\ step = "profiles"
    /\ \E reply \in ServiceReply :
        IF ~getSystemProfileDetails(reply) THEN send(400, <<>>) /\ UNCHANGED details
        ELSE IF detailsPanic(known) THEN send(500, <<>>) /\ UNCHANGED details
        ELSE /\ details' = GetHostConnectionDetails
             /\ step' = "sort"
             /\ UNCHANGED <<committed, body>>
    /\ UNCHANGED <<upstream, found, groups, todo, partial, said, failed>>

\* Without satellites and direct connections the rest is skipped.  A host
\* with a Satellite but no organization is dereferenced.
Sort ==
    LET sorted == sortHostsByRecipient
        none == IF sorted.none = {} THEN <<>> ELSE <<getRHCStatus(sorted.none)>>
    IN  /\ step = "sort"
        /\ partial' = [partial EXCEPT !.none = none]
        /\ IF sorted.satellite = {} /\ sorted.direct = {}
           THEN send(200, none) /\ UNCHANGED <<groups, todo>>
           ELSE IF \E i \in sorted.satellite : details[i].org = <<>>
           THEN send(500, <<>>) /\ UNCHANGED <<groups, todo>>
           ELSE /\ groups' = groupHostsBySatellite(sorted.satellite)
                /\ todo' = DOMAIN groups'
                /\ step' = "sources"
                /\ UNCHANGED <<committed, body>>
        /\ UNCHANGED <<upstream, found, details, said, failed>>

\* A map's order is arbitrary.  An error is logged and nothing else.
getSourceInfo ==
    /\ step = "sources" /\ todo # {}
    /\ \E k \in todo, r \in GetSourceConnectionDetails :
        /\ IF r.kind = "panic" THEN send(500, <<>>) ELSE UNCHANGED <<step, committed, body>>
        /\ groups' = [groups EXCEPT ![k].rhc = r.rhc]
        /\ todo' = todo \ {k}
    /\ UNCHANGED <<upstream, found, details, partial, said, failed>>

SourcesDone ==
    /\ step = "sources" /\ todo = {}
    /\ step' = "satellites"
    /\ todo' = {k \in DOMAIN groups : groups[k].rhc # <<>>}
    /\ UNCHANGED <<upstream, found, details, groups, partial, said, failed, committed, body>>

\* One question to cloud connector, about the recipient of an entry that lacks
\* only its status.  After an error the status 500 is
\* committed and the list being built is dropped, but NoContent returns no
\* error and the handler goes on.
ask(org, entry, list, next) ==
    \E r \in GetConnectionStatus :
        CASE r = "panic" -> send(500, <<>>) /\ UNCHANGED <<partial, said, failed>>
          [] r = "error" ->
                /\ step' = next
                /\ committed' = 500
                /\ failed' = TRUE
                /\ partial' = [partial EXCEPT ![list] = <<>>]
                /\ UNCHANGED <<said, body>>
          [] OTHER ->
                /\ partial' = [partial EXCEPT ![list] = Append(@,
                      formatConnectionResponse(entry.sat, entry.rhc, entry.systems,
                                               entry.type, r))]
                /\ said' = said \cup {<<org, entry.rhc[1], r>>}
                /\ UNCHANGED <<step, failed, committed, body>>

\* Satellites are asked about in the organization of the Satellite.
createSatelliteConnectionResponses ==
    /\ step = "satellites"
    /\ \E k \in todo :
        LET s == groups[k]
            entry == [sat |-> <<s.instance, s.org>>, rhc |-> s.rhc, systems |-> s.hosts,
                      type |-> "satellite"]
        IN  /\ ask(s.org, entry, "satellite", "direct")
            /\ todo' = todo \ {k}
    /\ UNCHANGED <<upstream, found, details, groups>>

SatellitesDone ==
    /\ step = "satellites" /\ todo = {}
    /\ step' = "direct"
    /\ UNCHANGED <<upstream, parts, committed, body>>

\* The directly connected hosts the loop has not come to.
directHosts ==
    sortHostsByRecipient.direct \ UNION {partial.direct[e].systems : e \in DOMAIN partial.direct}

getDirectConnectStatus ==
    LET next == Min(directHosts)
        entry == [sat |-> <<>>, rhc |-> details[next].rhc, systems |-> {next},
                  type |-> "directConnect"]
    IN  /\ step = "direct" /\ directHosts # {}
        /\ ask(asked.org, entry, "direct", "answer")
        /\ UNCHANGED <<upstream, found, details, groups, todo>>

\* JSON writes its body even if another status is committed already.
ApiInternalHighlevelConnectionStatus ==
    /\ step = "answer" \/ (step = "direct" /\ directHosts = {})
    /\ send(200, concatResponses)
    /\ UNCHANGED <<upstream, parts>>

\* Somebody deletes a host.
DeleteHost ==
    /\ step \in {"hosts", "profiles"}
    /\ \E id \in known : known' = known \ {id}
    /\ UNCHANGED <<asked, step, parts, committed, body>>

StatusInit ==
    /\ asked \in HostRequests
    /\ known = DOMAIN Inventory
    /\ step = "read"
    /\ found = <<>> /\ details = <<>> /\ groups = <<>> /\ todo = {}
    /\ partial = [satellite |-> <<>>, direct |-> <<>>, none |-> <<>>]
    /\ said = {} /\ failed = FALSE /\ committed = 0 /\ body = <<>>

Handler ==
    \/ ReadRequest \/ AskHosts \/ AskProfiles \/ Sort \/ getSourceInfo \/ SourcesDone
    \/ createSatelliteConnectionResponses \/ SatellitesDone \/ getDirectConnectStatus
    \/ ApiInternalHighlevelConnectionStatus

StatusNext == Handler \/ DeleteHost

StatusSpec == StatusInit /\ [][StatusNext]_statusVars

\* Every call has a timeout.
StatusFairSpec == StatusSpec /\ WF_statusVars(Handler)

-----------------------------------------------------------------------------

StatusTypeOK ==
    /\ known \subseteq DOMAIN Inventory
    /\ step \in {"read", "hosts", "profiles", "sort", "sources", "satellites", "direct",
               "answer", "done"}
    /\ todo \subseteq DOMAIN groups
    /\ failed \in BOOLEAN
    /\ committed \in {0, 200, 400, 500}
    /\ body \in Seq(RecipientWithConnectionInfo)

answeredFully == step = "done" /\ committed = 200 /\ details # <<>>

\* How often an answer names a host.
times(id) ==
    Cardinality({p \in (DOMAIN body) \X (DOMAIN details) :
                    p[2] \in body[p[1]].systems /\ details[p[2]].id = id})

unsourced == UNION {groups[k].hosts : k \in {g \in DOMAIN groups : groups[g].rhc = <<>>}}

\* A successful answer speaks of every host inventory returned exactly once,
\* whatever order maps are walked in.  Two things only differ: hosts of a
\* Satellite that sources did not know, or could not be asked about, are left
\* out without a trace, and each requested id that inventory did not return
\* appears as a system with an empty id.
EachHostOnce ==
    answeredFully =>
        /\ \A i \in DOMAIN found : times(found[i]) = IF i \in unsourced THEN 0 ELSE 1
        /\ times(NoId) = Len(asked.hosts) - Len(found)

\* Systems share an entry only if they belong to the same organization of the
\* same Satellite, though groups are found by a concatenation of the two.
SatellitesKeptApart ==
    step = "done" => \A e \in DOMAIN body : body[e].type = "satellite" =>
        \A i \in body[e].systems :
            <<details[i].instance[1], details[i].org[1]>> = body[e].sat

\* The entries of an answer divide the hosts as the inventory has them: each in
\* one entry, and only with hosts of the same recipient
\* (GetHostConnectionDetails, sortHostsByRecipient, groupHostsBySatellite).
HostsAccountedFor == EachHostOnce /\ SatellitesKeptApart

\* A recipient is shown with the status cloud connector gave for it in this
\* request, never with that of another one or a default.  A Satellite is asked for
\* in the organization it has within Satellite, as the code does; dispatch and the
\* status of recipients pass the tenant's organization instead.
ToldInThisRequest ==
    step = "done" => \A e \in DOMAIN body :
        body[e].type # "none" => \E s \in said :
            /\ s[3] = body[e].status
            /\ body[e].recipient \in {s[2], ZeroUuid}
            /\ s[1] = IF body[e].type = "satellite" THEN body[e].sat[2] ELSE asked.org

\* A question that cloud connector did not answer is never hidden by a
\* success, though the handler goes on and writes the rest of the answer.
FailureShows == (step = "done" /\ failed) => committed = 500

\* What an answer says of recipients is what cloud connector said, its failures
\* included (createSatelliteConnectionResponses, getDirectConnectStatus).
StatusAsTold == ToldInThisRequest /\ FailureShows

\* Every request is answered.
StatusAnswered == <>(step = "done")
=============================================================================
