---------------------------- MODULE MCPublicApi -----------------------------
(***************************************************************************)
(* A request to the public API on its way through authorization, or a      *)
(* client that walks one of the lists; the other is at rest.               *)
(***************************************************************************)
EXTENDS Authorization, Listing

-----------------------------------------------------------------------------
(* Authorization: Kessel off; on with flags; without authentication; with  *)
(* settings that make its initialization fail; with a mode from the        *)
(* environment only.                                                       *)

config(kessel, url, auth, unleash, mode, retries) ==
    [kessel |-> kessel, url |-> url, auth |-> auth, unleash |-> unleash, mode |-> mode,
     retries |-> retries]

MCConfig == {config(FALSE, TRUE, "ok", TRUE, "kessel-only", 2),
             config(TRUE, TRUE, "ok", TRUE, "bad", 7),
             config(TRUE, TRUE, "ok", TRUE, "rbac-only", 0),
             config(TRUE, TRUE, "off", FALSE, "both-rbac-enforces", Unset),
             config(TRUE, TRUE, "off", FALSE, "kessel-only", Unset),
             config(TRUE, TRUE, "incomplete", TRUE, "kessel-only", 0),
             config(TRUE, FALSE, "ok", FALSE, "both-kessel-enforces", 0)}

MCIdentity == {[type |-> "", id |-> FALSE], [type |-> "System", id |-> TRUE],
               [type |-> "User", id |-> TRUE], [type |-> "user", id |-> TRUE],
               [type |-> "ServiceAccount", id |-> FALSE]}

access(resource, verb, defs) ==
    [app |-> "playbook-dispatcher", resource |-> resource, verb |-> verb, defs |-> defs]
def(key, values) == [key |-> key, value |-> values]

MCGrants == {{}, {access("run", "write", {})}, {access("run", "*", {})},
             {access("*", "read", {def("service", {"tasks"}), def("group", {"g"})})},
             {access("run", "read", {def("service", {Null})})}}

AuthorizationAtRest ==
    /\ cfg = config(FALSE, FALSE, "ok", FALSE, "", 0) /\ manager = "none"
    /\ flags = [variant |-> "disabled", tokenTimeout |-> FALSE] /\ polls = 0
    /\ canceled = FALSE /\ pc = "answered"
    /\ req = [who |-> [type |-> "User", id |-> TRUE], mode |-> "", asked |-> FALSE,
              permissions |-> {}, tokenTimeout |-> FALSE, attempt |-> 0, tokenTry |-> 0]
    /\ said = [yes |-> {}, no |-> {}] /\ calls = [token |-> 0, sent |-> 0]
    /\ answer = [code |-> 0, services |-> {}]

-----------------------------------------------------------------------------
(* Lists: two organizations, services and labels; walks over each list,    *)
(* with and without filters.                                               *)

kind(org, service, label) ==
    [org |-> org, service |-> service, labels |-> [key \in {"k"} |-> label]]
param(prefix, key, value) == [prefix |-> prefix, key |-> key, value |-> value]
MCKind == {kind("o1", "s1", "l1"), kind("o2", "s1", "l1"), kind("o1", "s2", "l2")}

Newest == [list |-> "runs", org |-> "o1", allowed |-> {"s1"}, service |-> "none",
           status |-> "none", params |-> <<>>, sort |-> "desc", limit |-> 1, offset |-> -1,
           given |-> 1, malformed |-> FALSE]
MCWalks == {Newest,
            [Newest EXCEPT !.sort = "asc", !.limit = -1, !.given = 0, !.allowed = {}],
            [Newest EXCEPT !.status = "timeout", !.allowed = {}, !.service = "s1"],
            [Newest EXCEPT !.status = "running",
                           !.params = <<param("labels", "k", "l2"), param("labels", "k", "l1")>>],
            [Newest EXCEPT !.limit = 0],
            [Newest EXCEPT !.limit = 0, !.params = <<param("fields", "data", "status")>>],
            [Newest EXCEPT !.list = "hosts", !.status = "timeout", !.offset = 1,
                           !.params = <<param("fields", "data", "host")>>],
            [Newest EXCEPT !.list = "hosts", !.status = "running"],
            [Newest EXCEPT !.list = "internal", !.service = "s1", !.limit = 0],
            [Newest EXCEPT !.list = "internal", !.params = <<param("fields", "data", "url")>>],
            [Newest EXCEPT !.list = "internal"],
            [Newest EXCEPT !.list = "internal", !.org = "o2", !.malformed = TRUE]}

MCMaxItems == [list \in Lists |-> IF list = "runs" THEN 3 ELSE 2]
MCMaxChanges == [list \in Lists |-> IF list = "runs" THEN 2 ELSE 3]

ASSUME WalksAssumption == FromBeginning /\ Newest \in Walks

ListsAtRest ==
    /\ table = {} /\ changes = 0 /\ at = "end" /\ query = Newest /\ total = 0
    /\ page = emptyPage(0) /\ started = {} /\ seen = {} /\ raced = 0

-----------------------------------------------------------------------------

ApiInit == (Init /\ ListsAtRest) \/ (ListInit /\ AuthorizationAtRest)
ApiNext == (Next /\ UNCHANGED listVars) \/ (ListNext /\ UNCHANGED vars)
ApiSpec == ApiInit /\ [][ApiNext]_<<vars, listVars>> /\ Fairness

-----------------------------------------------------------------------------

\* The variables of a request and of a walk have their types.
TypesOK == TypeOK /\ ListTypeOK
=============================================================================
