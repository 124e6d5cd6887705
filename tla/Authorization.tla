---------------------------- MODULE Authorization ----------------------------
(***************************************************************************)
(* How a request to the public API is authorized.  The mode, chosen anew   *)
(* for each request from a feature flag and the environment, says whether  *)
(* RBAC or Kessel decides; Kessel is asked after the default workspace of  *)
(* the organization has been looked up with tokens, timeouts and retries.  *)
(* One request is followed: requests share nothing but the client manager  *)
(* and the flags, which the environment changes between any two steps.     *)
(***************************************************************************)
EXTENDS Integers, FiniteSets

CONSTANTS Config,      \* the configurations of the process
          Identity,    \* the identities requests carry: [type, id]
          Grants,      \* the sets of permissions RBAC may answer with
          MaxPolls     \* bound: how often the feature flags change

Mode == {"rbac-only", "both-rbac-enforces", "both-kessel-enforces", "kessel-only"}
Services == {"config_manager", "remediations", "tasks"}     \* V2ApplicationPermissions
Unset == -2

Settings == [kessel : BOOLEAN, url : BOOLEAN, auth : {"ok", "off", "incomplete"},
             unleash : BOOLEAN, mode : STRING, retries : Int]

\* What RBAC grants: a permission app:resource:verb, and resource definitions
\* [key, value] with the set of the strings the value lists.
ResourceDefinition == [key : STRING, value : SUBSET STRING]
Access == [app : STRING, resource : STRING, verb : STRING, defs : SUBSET ResourceDefinition]

ASSUME ConfigAssumption == Config \subseteq Settings
ASSUME IdentityAssumption == Identity \subseteq [type : STRING, id : BOOLEAN]
ASSUME GrantsAssumption == Grants \subseteq SUBSET Access
ASSUME MaxPollsAssumption == MaxPolls \in Nat

VARIABLES
    cfg,        \* [kessel, url, auth, unleash, mode, retries]
    manager,    \* globalManager: "up", or nil as "none" (never built) or "closed"
    flags,      \* what Unleash says: [variant, tokenTimeout]
    polls,      \* flag changes so far
    canceled,   \* the context of the request
    pc,         \* where the request is
    req,        \* the variables of its handlers
    said,       \* what Kessel answered to it: [yes, no], sets of services
    calls,      \* calls made for it: [token, sent]
    answer      \* [code, services]; services = {} restricts nothing

vars == <<cfg, manager, flags, polls, canceled, pc, req, said, calls, answer>>
process == <<cfg, manager, flags, polls, canceled>>

-----------------------------------------------------------------------------
(* Permissions                                                             *)

Null == "null"
matches(expected, actual) == actual \in {expected, "*"}

FilterPermissions(permissions, required) ==
    {p \in permissions : /\ p.app = required.app
                         /\ matches(required.resource, p.resource)
                         /\ matches(required.verb, p.verb)}

\* A string or a list, whatever the operation says; null names nothing.
valuesOf(filter) == filter.value \ {Null}

GetPredicateValues(permissions, key) ==
    UNION {valuesOf(f) : f \in {d \in UNION {p.defs : p \in permissions} : d.key = key}}

Required == [app |-> "playbook-dispatcher", resource |-> "run", verb |-> "read"]
granted(permissions) == FilterPermissions(permissions, Required) # {}

-----------------------------------------------------------------------------
(* Configuration, flags and mode                                           *)

isValidMode(mode) == mode \in Mode

mapVariantToMode(variant) == IF variant \in Mode THEN variant ELSE ""

GetKesselAuthModeWithContext ==
    LET variant == mapVariantToMode(flags.variant)
    IN  IF ~cfg.kessel THEN "rbac-only"
        ELSE IF cfg.unleash /\ variant # "" THEN variant
        ELSE IF isValidMode(cfg.mode) THEN cfg.mode ELSE "rbac-only"

IsTokenTimeoutEnabled == cfg.unleash /\ flags.tokenTimeout

\* New of the Kessel client library may fail as well.
Initialize(c) ==
    IF c.kessel /\ c.url /\ c.auth # "incomplete" THEN {"up", "none"} ELSE {"none"}

DefaultTokenMaxRetries == 2
MaxTokenMaxRetries == 5
maxRetries == 3

tokenMaxRetries ==
    IF cfg.retries < 0 THEN DefaultTokenMaxRetries
    ELSE IF cfg.retries > MaxTokenMaxRetries THEN MaxTokenMaxRetries ELSE cfg.retries

kesselEnforces(mode) == mode \in {"both-kessel-enforces", "kessel-only"}

-----------------------------------------------------------------------------
(* Answers                                                                 *)

reply(code, services) ==
    /\ pc' = "answered"
    /\ answer' = [code |-> code, services |-> services]

\* A nil dereference: the Recover middleware answers.
panic == reply(500, {}) /\ UNCHANGED <<req, said, calls>>

\* Faulty variant: an empty list is never a refusal.
decide_Lenient(mode, services) == reply(200, services)

decide(mode, services) ==
    IF services = {} /\ kesselEnforces(mode) THEN reply(403, {}) ELSE reply(200, services)

\* Faulty variant: Kessel's answer counts whenever Kessel was asked.
computeAllowedServices_Kessel(mode, permissions, kesselServices) ==
    IF mode # "rbac-only" THEN kesselServices ELSE GetPredicateValues(permissions, "service")

computeAllowedServices(mode, permissions, kesselServices) ==
    IF kesselEnforces(mode) THEN kesselServices ELSE GetPredicateValues(permissions, "service")

\* getKesselAllowedServices has returned: [] after any error.
conclude(kesselServices) ==
    /\ decide(req.mode, computeAllowedServices(req.mode, req.permissions, kesselServices))
    /\ UNCHANGED <<req, said, calls>>

fail == conclude({})

EnforceIdentityType ==
    /\ pc = "identity"
    /\ \/ req.who.type = "" /\ reply(500, {})
       \/ req.who.type = "System" /\ reply(403, {})
       \/ /\ req.who.type \in {"User", "user", "ServiceAccount"}
          /\ pc' = "mode"
          /\ UNCHANGED answer
    /\ UNCHANGED <<process, req, said, calls>>

ChooseMode ==
    /\ pc = "mode"
    /\ req' = [req EXCEPT !.mode = GetKesselAuthModeWithContext]
    /\ pc' = IF req'.mode = "kessel-only" THEN "workspace" ELSE "rbac"
    /\ UNCHANGED <<process, said, calls, answer>>

\* What RBAC sends, and which body the client makes of it; 0 is no reply.
RbacReply == [status : {0, 200, 404, 500}, json : BOOLEAN, valid : BOOLEAN,
              links : {"missing", "last", "more"}, meta : BOOLEAN]

ParseGetPrincipalAccessResponse(rsp) ==
    IF rsp.status = 0 THEN "error"
    ELSE IF ~rsp.json THEN "nothing"
    ELSE IF ~rsp.valid THEN "error"
    ELSE IF rsp.status = 200 THEN "JSON200" ELSE "JSON4xx5xx"

\* A second page is an error; links and meta are pointers that are not checked.
GetPermissions(rsp) ==
    IF ParseGetPrincipalAccessResponse(rsp) # "JSON200" THEN "error"
    ELSE IF rsp.links = "missing" \/ (rsp.links = "more" /\ ~rsp.meta) THEN "panic"
    ELSE IF rsp.links = "more" THEN "error"
    ELSE "ok"

AskRbac ==
    /\ pc = "rbac"
    /\ \E rsp \in RbacReply, permissions \in Grants :
        IF GetPermissions(rsp) # "ok"
        THEN reply(IF GetPermissions(rsp) = "panic" THEN 500 ELSE 503, {}) /\ UNCHANGED req
        ELSE /\ req' = [req EXCEPT !.asked = TRUE, !.permissions = permissions]
             /\ IF ~granted(permissions) THEN reply(403, {})
                ELSE IF req.mode = "rbac-only"
                THEN decide(req.mode, computeAllowedServices(req.mode, permissions, {}))
                ELSE pc' = "workspace" /\ UNCHANGED answer
    /\ UNCHANGED <<process, said, calls>>

-----------------------------------------------------------------------------
(* The default workspace of the organization                               *)

goto(label) == pc' = label /\ UNCHANGED <<req, said, calls, answer>>

\* Faulty variant: it waits for a client manager.
GetWorkspaceID_Waits ==
    /\ pc = "workspace"
    /\ manager = "up"
    /\ req' = [req EXCEPT !.tokenTimeout = IsTokenTimeoutEnabled]
    /\ pc' = "attempt"
    /\ UNCHANGED <<process, said, calls, answer>>

GetWorkspaceID ==
    /\ pc = "workspace"
    /\ IF manager # "up" THEN fail
       ELSE /\ req' = [req EXCEPT !.tokenTimeout = IsTokenTimeoutEnabled]
            /\ pc' = "attempt"
            /\ UNCHANGED <<said, calls, answer>>
    /\ UNCHANGED process

askToken(try) ==
    /\ pc' = "token"
    /\ req' = [req EXCEPT !.tokenTry = try]
    /\ calls' = [calls EXCEPT !.token = @ + 1]
    /\ UNCHANGED <<said, answer>>

\* Without authentication the client holds a nil *TokenClient in an interface,
\* which is not nil: the method is called on it and dereferences it.
Attempt ==
    /\ pc = "attempt"
    /\ IF canceled THEN fail
       ELSE IF cfg.auth = "off" THEN panic
       ELSE askToken(0)
    /\ UNCHANGED process

\* Do with a canceled context sends nothing and the retry gives up.
TokenAcquired ==
    /\ pc = "token"
    /\ IF canceled THEN fail
       ELSE /\ pc' = "sent"
            /\ calls' = [calls EXCEPT !.sent = @ + 1]
            /\ UNCHANGED <<req, said, answer>>
    /\ UNCHANGED process

TokenFails ==
    /\ pc = "token"
    /\ IF ~req.tokenTimeout \/ canceled \/ req.tokenTry = tokenMaxRetries
       THEN fail
       ELSE goto("token_backoff")
    /\ UNCHANGED process

\* Faulty variant: a plain sleep.
TokenBackoff_Sleeps ==
    /\ pc = "token_backoff"
    /\ askToken(req.tokenTry + 1)
    /\ UNCHANGED process

TokenBackoff ==
    /\ pc = "token_backoff"
    /\ IF canceled THEN fail ELSE askToken(req.tokenTry + 1)
    /\ UNCHANGED process

\* Exactly one default workspace was found.
WorkspaceFound ==
    /\ pc = "sent"
    /\ goto("options")
    /\ UNCHANGED process

\* A client error, or a body that cannot be read, parsed or used.
WorkspaceRefused ==
    /\ pc = "sent"
    /\ fail
    /\ UNCHANGED process

\* Faulty variant: one attempt too many.
WorkspaceFails_OneMore ==
    /\ pc = "sent"
    /\ IF req.attempt > maxRetries \/ canceled THEN fail ELSE goto("backoff")
    /\ UNCHANGED process

\* A network error or timeout, 5xx or 429.
WorkspaceFails ==
    /\ pc = "sent"
    /\ IF req.attempt = maxRetries \/ canceled THEN fail ELSE goto("backoff")
    /\ UNCHANGED process

\* A plain sleep, which no cancellation ends.
Backoff ==
    /\ pc = "backoff"
    /\ pc' = "attempt"
    /\ req' = [req EXCEPT !.attempt = @ + 1]
    /\ UNCHANGED <<process, said, calls, answer>>

-----------------------------------------------------------------------------
(* Kessel                                                                  *)

extractUserID(who) == who.type \in {"User", "ServiceAccount"} /\ who.id

\* The identity is compared with its case here; the token option may fail.
StartChecks ==
    /\ pc = "options"
    /\ \/ fail /\ (manager # "up" \/ ~extractUserID(req.who) \/ cfg.auth = "ok")
       \/ manager = "up" /\ extractUserID(req.who) /\ goto("check")
    /\ UNCHANGED process

\* The services are asked for in any order; the manager is read anew each time.
Check ==
    /\ pc = "check"
    /\ manager = "up"
    /\ \E s \in Services \ (said.yes \cup said.no), allowed \in BOOLEAN :
        /\ said' = IF allowed THEN [said EXCEPT !.yes = @ \cup {s}]
                   ELSE [said EXCEPT !.no = @ \cup {s}]
        /\ IF said'.yes \cup said'.no = Services
           THEN decide(req.mode,
                       computeAllowedServices(req.mode, req.permissions, said'.yes))
           ELSE UNCHANGED <<pc, answer>>
    /\ UNCHANGED <<process, req, calls>>

CheckFails ==
    /\ pc = "check"
    /\ manager = "up"
    /\ fail
    /\ UNCHANGED process

CheckPanics ==
    /\ pc = "check"
    /\ manager # "up"
    /\ panic
    /\ UNCHANGED process

-----------------------------------------------------------------------------
(* The environment, until the request is answered                          *)

request == <<pc, req, said, calls, answer>>

Cancel ==
    /\ pc # "answered" /\ ~canceled
    /\ canceled' = TRUE
    /\ UNCHANGED <<cfg, manager, flags, polls, request>>

\* Unleash polls every 15 seconds; a disabled flag names no mode.
PollFlags ==
    /\ pc # "answered" /\ cfg.unleash
    /\ polls < MaxPolls
    /\ polls' = polls + 1
    /\ \E v \in Mode \cup {"disabled"}, t \in BOOLEAN :
        flags' = [variant |-> v, tokenTimeout |-> t]
    /\ UNCHANGED <<cfg, manager, canceled, request>>

\* The shutdown waits for requests, but not for ever.
Close ==
    /\ pc # "answered" /\ manager = "up"
    /\ manager' = "closed"
    /\ UNCHANGED <<cfg, flags, polls, canceled, request>>

Init ==
    /\ cfg \in Config
    /\ manager \in Initialize(cfg)
    /\ flags = [variant |-> "disabled", tokenTimeout |-> FALSE]
    /\ polls = 0
    /\ canceled = FALSE
    /\ pc = "identity"
    /\ \E who \in Identity :
        req = [who |-> who, mode |-> "", asked |-> FALSE, permissions |-> {},
               tokenTimeout |-> FALSE, attempt |-> 0, tokenTry |-> 0]
    /\ said = [yes |-> {}, no |-> {}]
    /\ calls = [token |-> 0, sent |-> 0]
    /\ answer = [code |-> 0, services |-> {}]

GetToken == TokenAcquired \/ TokenFails

Bounded ==
    \/ EnforceIdentityType \/ ChooseMode \/ AskRbac
    \/ GetWorkspaceID \/ Attempt \/ TokenBackoff
    \/ WorkspaceFound \/ WorkspaceRefused \/ WorkspaceFails \/ Backoff \/ CheckPanics

Next ==
    \/ Bounded \/ GetToken \/ StartChecks \/ Check \/ CheckFails
    \/ Cancel \/ PollFlags \/ Close

Spec == Init /\ [][Next]_vars

\* Steps of the process itself and calls with a timeout end.  A token is
\* only waited for with a timeout if the flag said so, a check by Kessel has no
\* deadline but ends with the context of its request, and the token of
\* StartChecks has neither.
Fairness ==
    /\ WF_vars(Bounded)
    /\ WF_vars(req.tokenTimeout /\ GetToken)
    /\ WF_vars(canceled /\ CheckFails)

FairSpec == Spec /\ Fairness

-----------------------------------------------------------------------------

TypeOK ==
    /\ manager \in {"up", "none", "closed"}
    /\ polls \in 0..MaxPolls
    /\ pc \in {"identity", "mode", "rbac", "workspace", "attempt", "token", "token_backoff",
               "sent", "backoff", "options", "check", "answered"}
    /\ req.mode \in Mode \cup {""}
    /\ req.attempt \in 0..maxRetries /\ req.tokenTry \in 0..MaxTokenMaxRetries
    /\ said.yes \subseteq Services /\ said.no \subseteq Services
    /\ answer.code \in {0, 200, 403, 500, 503}

\* What a handler shows for a list of services: getKesselAllowedServices and
\* GetPredicateValues use the empty list for opposite things, and the handlers
\* read it as "no restriction".
visible == IF answer.services = {} THEN Services ELSE answer.services

\* In a mode in which Kessel enforces, a request gets through only after Kessel
\* answered for every service, and sees exactly those it allowed, whatever
\* happened to flags, manager, tokens and context meanwhile.
KesselEnforced ==
    (kesselEnforces(req.mode) /\ answer.code = 200) =>
        /\ said.yes \cup said.no = Services
        /\ visible = said.yes

\* In a mode in which RBAC enforces, the workspace lookup, its retries and
\* Kessel's answers change nothing: the answer is the one RBAC's permissions
\* give, and only the missing token client of a process without authentication
\* or the closing of the manager at shutdown can turn it into an error.
KesselOnlyWatches ==
    (req.mode \in Mode /\ ~kesselEnforces(req.mode) /\ pc = "answered") =>
        IF ~req.asked THEN answer.code \in {500, 503}
        ELSE IF answer.code = 500 THEN cfg.auth = "off" \/ manager = "closed"
        ELSE answer = IF granted(req.permissions)
                      THEN [code |-> 200,
                            services |-> GetPredicateValues(req.permissions, "service")]
                      ELSE [code |-> 403, services |-> {}]

\* Nested retries are bounded for any configured number: a lookup sends at
\* most maxRetries + 1 requests, and asks for at most MaxTokenMaxRetries + 1
\* tokens for each; without the timeout flag a token is asked for once each.
RetriesBounded ==
    /\ calls.sent <= maxRetries + 1
    /\ calls.token <= (maxRetries + 1) *
           IF req.tokenTimeout THEN tokenMaxRetries + 1 ELSE 1
    /\ tokenMaxRetries \in 0..MaxTokenMaxRetries

\* Once its client is gone a request causes no further call to the token
\* service or to RBAC, though neither the sleep between requests nor a token
\* call without timeout notices the cancellation.
CancelStopsCalls == [][canceled => calls' = calls]_vars

\* Every request is answered, unless it waits for one of the calls that no
\* timeout bounds.
Answered ==
    <>[](\/ pc = "answered"
         \/ pc = "token" /\ ~req.tokenTimeout
         \/ pc = "options"
         \/ pc = "check" /\ ~canceled)

\* "Kessel init fails: rbac-only, graceful degradation" (docs/kessel): without
\* a Kessel client, a principal is refused only by what RBAC answered.
InitFailureDegrades ==
    (manager = "none" /\ req.mode # "" /\ answer.code = 403) => req.asked
=============================================================================
