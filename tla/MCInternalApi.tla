--------------------------- MODULE MCInternalApi ----------------------------
(***************************************************************************)
(* A request to the internal API: a list of runs to create or to cancel or *)
(* of recipients (Batches), or of hosts (ConnectionStatus); or the life of *)
(* the process (ApiServer).  The others are at rest.                       *)
(***************************************************************************)
EXTENDS Batches, ConnectionStatus, ApiServer, TLC

-----------------------------------------------------------------------------
(* Batches: two principals share a key, one organization is blocklisted.   *)

req(op, key, list) == [op |-> op, key |-> key, items |-> list]
v1(account) == [account |-> account]
v2(org, satellite, satelliteOrg, hosts) ==
    [org |-> org, satellite |-> satellite, satelliteOrg |-> satelliteOrg, hosts |-> hosts]
stop(r, org) == [run |-> r, org |-> org]

Good == v2("o1", TRUE, TRUE, <<TRUE, TRUE>>)
Plain == v2("o1", FALSE, FALSE, <<FALSE>>)

MCRequests ==
    {req("create_v1", "k1", <<v1("o1"), v1("o1"), v1("o1")>>),
     req("create_v1", "k2", <<v1("o2"), v1("o1")>>),
     req("create_v2", "k1", <<Good, Plain, v2("o2", FALSE, FALSE, <<>>)>>),
     req("create_v2", "k2", <<Good, v2("o1", TRUE, TRUE, <<TRUE, FALSE>>)>>),
     req("create_v2", "k2", <<Plain, v2("o1", FALSE, TRUE, <<TRUE>>)>>),
     req("create_v2", "", <<Good>>),
     req("cancel", "k3", <<stop("r1", "o1")>>),
     req("cancel", "k1", <<stop("r1", "o1"), stop("r2", "o1"), stop("r3", "o1")>>),
     req("cancel", "k1", <<stop("r1", "o1"), stop("r1", "o2")>>),
     req("status", "k1", <<[recipient |-> "p"], [recipient |-> "q"], [recipient |-> "p"]>>)}
MCKeys == "config_manager" :> "k1" @@ "remediations" :> "k1" @@ "tasks" :> "k2"
MCRows == "r1" :> [org |-> "o1", satellite |-> TRUE] @@ "r2" :> [org |-> "o1", satellite |-> FALSE]

BatchAtRest ==
    /\ request = req("create_v1", "k1", <<>>)
    /\ phase = "done" /\ code = 207 /\ service = "config_manager"
    /\ at = <<>> /\ result = <<>>
    /\ sent = {} /\ delivered = {} /\ recorded = {} /\ tokens = Bucket /\ refills = 0
    /\ status = [r \in DOMAIN RunRows |-> "running"] /\ picked = {} /\ open = DOMAIN RunRows

-----------------------------------------------------------------------------
(* Hosts: a, b and c of one Satellite but two of its organizations, d and  *)
(* e directly connected, f neither, g of a Satellite without organization, *)
(* h without facts.                                                        *)

str(s) == [kind |-> "string", value |-> s]
num(n) == [kind |-> "float64", value |-> n]
facts(namespace, values) == <<[namespace |-> namespace, facts |-> values]>>
satellite(instance, org) ==
    << facts("satellite", "satellite_instance_id" :> instance @@ "organization_id" :> org) >>
host(f, rhc) == [facts |-> f, rhc |-> rhc]

MCInventory ==
    "a" :> host(satellite(str(<<11>>), num(15)), <<>>) @@
    "b" :> host(satellite(str(<<11>>), str(<<1>>)), <<"c1">>) @@
    "c" :> host(satellite(str(<<11>>), num(20)), <<>>) @@
    "d" :> host(<< facts("other", "satellite_instance_id" :> str(<<12>>)) >>, <<"c1">>) @@
    "e" :> host(<< <<>> >>, <<"malformed">>) @@
    "f" :> host(<< <<>> >>, <<>>) @@
    "g" :> host(<< facts("satellite", "satellite_instance_id" :> str(<<12>>)) >>, <<>>) @@
    "h" :> host(<<>>, <<>>)

MCHostRequests ==
    {[org |-> <<9>>, hosts |-> list] :
        list \in {<<"a", "b", "c">>, <<"a", "d", "e">>, <<"c", "f", "missing">>,
                  <<"f", "missing", "f">>, <<"g", "d">>, <<"h">>, <<"missing">>,
                  <<"malformed">>, <<"d", "e", "f">>, <<"a", "b", "c", "d">>,
                  <<"a", "c", "d", "e", "f">>}}

HostsAtRest ==
    /\ asked = [org |-> <<9>>, hosts |-> <<"missing">>] /\ known = {} /\ step = "done"
    /\ found = <<>> /\ details = <<>> /\ groups = <<>> /\ todo = {}
    /\ partial = [satellite |-> <<>>, direct |-> <<>>, none |-> <<>>]
    /\ said = {} /\ failed = FALSE /\ committed = 200 /\ body = <<>>

-----------------------------------------------------------------------------

ServerAtRest ==
    /\ main = "exited" /\ api = "returned" /\ metrics = "returned" /\ stopper = "done"
    /\ senders = {} /\ errs = 0 /\ clients = [r \in Client |-> "none"]
    /\ manager = "closed" /\ late = FALSE

ApiInit ==
    \/ Init /\ HostsAtRest /\ ServerAtRest
    \/ StatusInit /\ BatchAtRest /\ ServerAtRest
    \/ ServerInit /\ BatchAtRest /\ HostsAtRest
ApiNext ==
    \/ Next /\ UNCHANGED <<statusVars, serverVars>>
    \/ StatusNext /\ UNCHANGED <<vars, serverVars>>
    \/ ServerNext /\ UNCHANGED <<vars, statusVars>>
ApiSpec ==
    /\ ApiInit /\ [][ApiNext]_<<vars, statusVars, serverVars>>
    /\ Fairness /\ WF_statusVars(Handler) /\ ServerFairness

-----------------------------------------------------------------------------

\* The variables of a list, of a connection status request and of the process
\* have their types.
TypesOK == TypeOK /\ StatusTypeOK /\ ServerTypeOK

\* Every list and every connection status request is answered, whatever the
\* other requests, the rate limiter and the services asked do.
RequestsAnswered == BatchAnswered /\ StatusAnswered
=============================================================================
