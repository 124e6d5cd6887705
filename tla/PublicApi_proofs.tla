-------------------------- MODULE PublicApi_proofs --------------------------
(***************************************************************************)
(* Proofs about the public API: for every set of configurations,           *)
(* identities and grants, who decides about a request and how many calls   *)
(* it costs; and the lists of runs and run hosts, for any items, any       *)
(* walks, any limits and any changes of the tables during a walk.          *)
(***************************************************************************)
EXTENDS MCPublicApi, FiniteSetTheorems, TLAPS

-----------------------------------------------------------------------------
(* Authorization *)

\* The places of a request in getKesselAllowedServices, by how far it got:
\* before a client manager was seen, with one, and after the lookup.
Lookup == {"attempt", "token", "token_backoff", "sent", "backoff"}
WithManager == Lookup \cup {"options", "check"}
InKessel == {"workspace"} \cup WithManager
Places == {"identity", "mode", "rbac", "answered"} \cup InKessel

Requests == [who : Identity, mode : Mode \cup {""}, asked : BOOLEAN,
             permissions : Grants \cup {{}}, tokenTimeout : BOOLEAN,
             attempt : 0..maxRetries, tokenTry : 0..MaxTokenMaxRetries]

Shapes ==
    /\ cfg \in Config
    /\ manager \in {"up", "none", "closed"}
    /\ flags \in [variant : Mode \cup {"disabled"}, tokenTimeout : BOOLEAN]
    /\ polls \in 0..MaxPolls
    /\ canceled \in BOOLEAN
    /\ pc \in Places
    /\ req \in Requests
    /\ said \in [yes : SUBSET Services, no : SUBSET Services]
    /\ calls \in [token : Nat, sent : Nat]
    /\ answer.code \in {0, 200, 403, 500, 503}

\* What is known of a request by where it is: it has no answer until the end
\* and no mode until one is chosen, it is past RBAC with a permission unless Kessel alone decides, and it is
\* past the first look at the client manager only if there was one.
Stages ==
    /\ pc # "answered" => answer.code = 0
    /\ pc \in {"identity", "mode"} => req.mode = "" /\ ~req.asked
    /\ pc = "rbac" => req.mode \in Mode /\ ~req.asked
    /\ pc \in InKessel =>
           /\ req.mode \in Mode
           /\ ~kesselEnforces(req.mode) => req.asked /\ granted(req.permissions)
    /\ pc \in WithManager => manager # "none"

\* The tokens one request to the workspace service may cost, and the calls
\* made so far, by where the request is in its two nested loops.
TokensEach == IF req.tokenTimeout THEN tokenMaxRetries + 1 ELSE 1

Counts ==
    /\ pc \in {"identity", "mode", "rbac", "workspace"} =>
           calls.token = 0 /\ calls.sent = 0 /\ req.attempt = 0
    /\ pc = "attempt" =>
           calls.sent <= req.attempt /\ calls.token <= req.attempt * TokensEach
    /\ pc \in {"token", "token_backoff"} =>
           /\ calls.sent <= req.attempt
           /\ calls.token <= req.attempt * TokensEach + req.tokenTry + 1
           /\ req.tokenTry < TokensEach
    /\ pc = "token_backoff" => req.tokenTry + 1 < TokensEach
    /\ pc \in {"sent", "backoff"} =>
           /\ calls.sent <= req.attempt + 1
           /\ calls.token <= (req.attempt + 1) * TokensEach
    /\ pc = "backoff" => req.attempt < maxRetries
    /\ pc \in {"options", "check", "answered"} =>
           calls.sent <= maxRetries + 1 /\ calls.token <= (maxRetries + 1) * TokensEach

Inv == Shapes /\ Stages /\ Counts /\ KesselEnforced /\ KesselOnlyWatches

-----------------------------------------------------------------------------
(* The bounds of the loops                                                 *)

\* TokenMaxRetries clamps what is configured, so each request to the workspace
\* service costs between one and MaxTokenMaxRetries + 1 tokens.
LEMMA Limits ==
    ASSUME cfg \in Config, req \in Requests
    PROVE  /\ tokenMaxRetries \in 0..MaxTokenMaxRetries
           /\ TokensEach \in 1..(MaxTokenMaxRetries + 1)
           /\ req.tokenTry < TokensEach =>
                  (req.tokenTry = 0 \/ req.tokenTimeout)
  <1>1. cfg.retries \in Int
    BY ConfigAssumption DEF Settings
  <1>2. tokenMaxRetries \in 0..MaxTokenMaxRetries
    BY <1>1 DEF tokenMaxRetries, DefaultTokenMaxRetries, MaxTokenMaxRetries
  <1>3. req.tokenTimeout \in BOOLEAN /\ req.tokenTry \in 0..MaxTokenMaxRetries
    BY DEF Requests
  <1> QED
    BY <1>2, <1>3 DEF TokensEach, MaxTokenMaxRetries

\* The product the token count is bounded by, one attempt after the other.
LEMMA Products ==
    ASSUME NEW t \in Nat, NEW a \in 0..3
    PROVE  /\ a * t \in Nat
           /\ (a + 1) * t = a * t + t
           /\ a * t + t <= 4 * t
  <1>1. CASE a = 0  BY <1>1
  <1>2. CASE a = 1  BY <1>2
  <1>3. CASE a = 2  BY <1>3
  <1>4. CASE a = 3  BY <1>4
  <1> QED BY <1>1, <1>2, <1>3, <1>4

\* Wherever the request is, its calls are within the bound of the whole.
LEMMA WithinBounds ==
    ASSUME Shapes, Counts
    PROVE  calls.sent <= maxRetries + 1 /\ calls.token <= (maxRetries + 1) * TokensEach
  <1>0. req \in Requests /\ calls.token \in Nat /\ calls.sent \in Nat /\ pc \in Places
    BY DEF Shapes
  <1>a. req.attempt \in 0..maxRetries /\ req.tokenTry \in 0..MaxTokenMaxRetries
    BY <1>0 DEF Requests
  <1>1. /\ req \in Requests /\ req.attempt \in 0..3 /\ req.tokenTry \in Nat
        /\ calls.token \in Nat /\ calls.sent \in Nat /\ pc \in Places
    BY <1>0, <1>a DEF maxRetries, MaxTokenMaxRetries
  <1>2. TokensEach \in Nat /\ TokensEach >= 1
    BY <1>1, Limits DEF Shapes, MaxTokenMaxRetries
  <1>3. /\ req.attempt * TokensEach \in Nat
        /\ (req.attempt + 1) * TokensEach = req.attempt * TokensEach + TokensEach
        /\ req.attempt * TokensEach + TokensEach <= 4 * TokensEach
    BY <1>1, <1>2, Products
  <1>4. CASE pc \in {"identity", "mode", "rbac", "workspace"}
    BY <1>1, <1>2, <1>4 DEF Counts, maxRetries
  <1>5. CASE pc = "attempt"
    BY <1>1, <1>2, <1>3, <1>5 DEF Counts, maxRetries
  <1>6. CASE pc \in {"token", "token_backoff"}
    BY <1>1, <1>2, <1>3, <1>6 DEF Counts, maxRetries
  <1>7. CASE pc \in {"sent", "backoff"}
    BY <1>1, <1>2, <1>3, <1>7 DEF Counts, maxRetries
  <1>8. CASE pc \in {"options", "check", "answered"}
    BY <1>8 DEF Counts
  <1> QED
    BY <1>1, <1>4, <1>5, <1>6, <1>7, <1>8 DEF Places, InKessel, WithManager, Lookup

-----------------------------------------------------------------------------
(* The steps of a request                                                  *)

\* Any error on the way to Kessel's answer ends the request: with RBAC's answer
\* where RBAC enforces, with a refusal where Kessel does.
LEMMA FailStep ==
    ASSUME Inv, pc \in InKessel, fail, UNCHANGED process
    PROVE  Inv'
  <1> USE DEF Inv
  <1>0. /\ pc' = "answered" /\ UNCHANGED <<req, said, calls, process>>
        /\ decide(req.mode, computeAllowedServices(req.mode, req.permissions, {}))
    BY DEF fail, conclude, decide, reply
  <1>1. CASE kesselEnforces(req.mode)
    <2>1. answer' = [code |-> 403, services |-> {}]
      BY <1>0, <1>1 DEF decide, reply, computeAllowedServices
    <2>2. Shapes'
      BY <1>0, <2>1 DEF Shapes, process, Places
    <2>3. Stages'
      BY <1>0, <2>1 DEF Stages, InKessel, WithManager, Lookup
    <2>4. Counts'
      BY <1>0, WithinBounds DEF Counts, TokensEach, tokenMaxRetries, process
    <2>5. KesselEnforced' /\ KesselOnlyWatches'
      BY <1>0, <1>1, <2>1 DEF KesselEnforced, KesselOnlyWatches, kesselEnforces
    <2> QED BY <2>2, <2>3, <2>4, <2>5
  <1>2. CASE ~kesselEnforces(req.mode)
    <2>1. answer' = [code |-> 200, services |-> GetPredicateValues(req.permissions, "service")]
      BY <1>0, <1>2 DEF decide, reply, computeAllowedServices
    <2>2. Shapes'
      BY <1>0, <2>1 DEF Shapes, process, Places
    <2>3. Stages'
      BY <1>0, <2>1 DEF Stages, InKessel, WithManager, Lookup
    <2>4. Counts'
      BY <1>0, WithinBounds DEF Counts, TokensEach, tokenMaxRetries, process
    <2>5. KesselEnforced'
      BY <1>0, <1>2 DEF KesselEnforced, kesselEnforces
    <2>6. req.asked /\ granted(req.permissions)
      BY <1>2 DEF Stages
    <2>7. KesselOnlyWatches'
      BY <1>0, <1>2, <2>1, <2>6 DEF KesselOnlyWatches, kesselEnforces
    <2> QED BY <2>2, <2>3, <2>4, <2>5, <2>7
  <1> QED BY <1>1, <1>2

\* A nil dereference on the way to Kessel ends the request with an error; in a
\* mode in which RBAC enforces only two things can cause it.
LEMMA PanicStep ==
    ASSUME Inv, pc \in InKessel, panic, UNCHANGED process,
           cfg.auth = "off" \/ manager = "closed"
    PROVE  Inv'
  <1> USE DEF Inv
  <1>0. /\ pc' = "answered" /\ UNCHANGED <<req, said, calls, process>>
        /\ answer' = [code |-> 500, services |-> {}]
    BY DEF panic, reply
  <1>1. Shapes'
    BY <1>0 DEF Shapes, process, Places
  <1>2. Stages'
    BY <1>0 DEF Stages, InKessel, WithManager, Lookup
  <1>3. Counts'
    BY <1>0, WithinBounds DEF Counts, TokensEach, tokenMaxRetries, process
  <1>4. KesselEnforced'
    BY <1>0 DEF KesselEnforced
  <1>5. KesselOnlyWatches'
    BY <1>0 DEF KesselOnlyWatches, process
  <1> QED BY <1>1, <1>2, <1>3, <1>4, <1>5

\* An answer before Kessel is reached: the identity is refused, RBAC fails,
\* refuses, or decides alone.
LEMMA EarlyAnswer ==
    ASSUME Inv, pc \in {"identity", "rbac"}, pc' = "answered",
           UNCHANGED <<process, said, calls>>,
           req' \in Requests, req'.tokenTimeout = req.tokenTimeout, req'.mode = req.mode,
           answer'.code \in {200, 403, 500, 503},
           ~(kesselEnforces(req.mode) /\ answer'.code = 200), KesselOnlyWatches'
    PROVE  Inv'
  <1> USE DEF Inv
  <1>1. Shapes'
    BY DEF Shapes, process, Places
  <1>2. Stages'
    BY DEF Stages, InKessel, WithManager, Lookup
  <1>3. Counts'
    BY WithinBounds DEF Counts, TokensEach, tokenMaxRetries, process
  <1>4. KesselEnforced'
    BY DEF KesselEnforced, kesselEnforces
  <1> QED BY <1>1, <1>2, <1>3, <1>4

\* A step between two places leaves the request unanswered, which is all the
\* two properties of the answer ask for.
LEMMA Unanswered ==
    ASSUME Shapes, Stages, pc # "answered", pc' # "answered", UNCHANGED answer
    PROVE  KesselEnforced' /\ KesselOnlyWatches'
  <1>1. answer'.code = 0
    BY DEF Stages
  <1>2. KesselEnforced'
    BY <1>1 DEF KesselEnforced
  <1>3. KesselOnlyWatches'
    BY DEF KesselOnlyWatches
  <1> QED BY <1>2, <1>3

LEMMA IdentityStep ==
    ASSUME Inv, EnforceIdentityType
    PROVE  Inv'
  <1> USE DEF Inv
  <1>0. pc = "identity" /\ UNCHANGED <<process, req, said, calls>>
    BY DEF EnforceIdentityType
  <1>1. CASE pc' = "mode" /\ UNCHANGED answer
    <2>1. Shapes'
      BY <1>0, <1>1 DEF Shapes, process, Places
    <2>2. Stages'
      BY <1>0, <1>1 DEF Stages, InKessel, WithManager, Lookup
    <2>3. Counts'
      BY <1>0, <1>1 DEF Counts, TokensEach, tokenMaxRetries, process
    <2> QED BY <1>0, <1>1, <2>1, <2>2, <2>3, Unanswered
  <1>2. CASE /\ pc' = "answered"
             /\ answer' \in {[code |-> 403, services |-> {}], [code |-> 500, services |-> {}]}
    <2>1. req \in Requests /\ answer'.code \in {403, 500}
      BY <1>2 DEF Shapes
    <2>2. req.mode = ""
      BY <1>0 DEF Stages
    <2>3. KesselOnlyWatches'
      BY <1>0, <2>2 DEF KesselOnlyWatches, Mode
    <2> QED BY <1>0, <1>2, <2>1, <2>3, EarlyAnswer
  <1> QED
    BY <1>1, <1>2 DEF EnforceIdentityType, reply

LEMMA ChooseModeStep ==
    ASSUME Inv, ChooseMode
    PROVE  Inv'
  <1> USE DEF Inv
  <1> DEFINE m == GetKesselAuthModeWithContext
  <1>0. /\ pc = "mode" /\ UNCHANGED <<process, said, calls, answer>>
        /\ req' = [req EXCEPT !.mode = m]
        /\ pc' = IF m = "kessel-only" THEN "workspace" ELSE "rbac"
    <2>1. req \in Requests
      BY DEF Shapes
    <2> QED BY <2>1 DEF ChooseMode, Requests
  <1>1. m \in Mode
    BY DEF GetKesselAuthModeWithContext, mapVariantToMode, isValidMode, Mode
  <1> HIDE DEF m
  <1>2. /\ req' \in Requests /\ req'.mode = m /\ req'.asked = req.asked
        /\ req'.tokenTimeout = req.tokenTimeout /\ req'.attempt = req.attempt
    BY <1>0, <1>1, ZenonT(40) DEF Shapes, Requests
  <1>3. ~req.asked
    BY <1>0 DEF Stages
  <1>4. Shapes'
    BY <1>0, <1>2 DEF Shapes, process, Places, InKessel
  <1>5. Stages'
    BY <1>0, <1>1, <1>2, <1>3 DEF Stages, InKessel, WithManager, Lookup, kesselEnforces
  <1>6. Counts'
    BY <1>0, <1>2 DEF Counts, TokensEach, tokenMaxRetries, process
  <1> QED BY <1>0, <1>4, <1>5, <1>6, Unanswered

LEMMA AskRbacStep ==
    ASSUME Inv, AskRbac
    PROVE  Inv'
  <1> USE DEF Inv
  <1>0. pc = "rbac" /\ UNCHANGED <<process, said, calls>>
    BY DEF AskRbac
  <1>1. PICK rsp \in RbacReply, permissions \in Grants :
        IF GetPermissions(rsp) # "ok"
        THEN reply(IF GetPermissions(rsp) = "panic" THEN 500 ELSE 503, {}) /\ UNCHANGED req
        ELSE /\ req' = [req EXCEPT !.asked = TRUE, !.permissions = permissions]
             /\ IF ~granted(permissions) THEN reply(403, {})
                ELSE IF req.mode = "rbac-only"
                THEN decide(req.mode, computeAllowedServices(req.mode, permissions, {}))
                ELSE pc' = "workspace" /\ UNCHANGED answer
    BY Zenon DEF AskRbac
  <1>2. req \in Requests /\ req.mode \in Mode /\ ~req.asked
    BY <1>0 DEF Stages, Shapes
  <1>3. CASE GetPermissions(rsp) # "ok"
    <2>1. /\ pc' = "answered" /\ UNCHANGED req
          /\ answer'.code \in {500, 503}
      BY <1>1, <1>3 DEF reply
    <2>2. KesselOnlyWatches'
      BY <1>2, <2>1 DEF KesselOnlyWatches
    <2> QED BY <1>0, <1>2, <2>1, <2>2, EarlyAnswer
  <1>4. CASE GetPermissions(rsp) = "ok"
    <2>1. req' = [req EXCEPT !.asked = TRUE, !.permissions = permissions]
      BY <1>1, <1>4
    <2>2. /\ req' \in Requests /\ req'.mode = req.mode /\ req'.asked
          /\ req'.permissions = permissions
          /\ req'.tokenTimeout = req.tokenTimeout /\ req'.attempt = req.attempt
      BY <1>2, <2>1 DEF Requests
    <2>3. CASE ~granted(permissions)
      <3>1. pc' = "answered" /\ answer' = [code |-> 403, services |-> {}]
        BY <1>1, <1>4, <2>3 DEF reply
      <3>2. KesselOnlyWatches'
        BY <2>2, <2>3, <3>1 DEF KesselOnlyWatches
      <3> QED BY <1>0, <2>2, <3>1, <3>2, EarlyAnswer
    <2>4. CASE granted(permissions) /\ req.mode = "rbac-only"
      <3>1. ~kesselEnforces(req.mode)
        BY <2>4 DEF kesselEnforces
      <3>2. /\ pc' = "answered"
            /\ answer' = [code |-> 200, services |-> GetPredicateValues(permissions, "service")]
        BY <1>1, <1>4, <2>4, <3>1 DEF decide, reply, computeAllowedServices
      <3>3. KesselOnlyWatches'
        BY <2>2, <2>4, <3>2 DEF KesselOnlyWatches
      <3> QED BY <1>0, <2>2, <3>1, <3>2, <3>3, EarlyAnswer
    <2>5. CASE granted(permissions) /\ req.mode # "rbac-only"
      <3>1. pc' = "workspace" /\ UNCHANGED answer
        BY <1>1, <1>4, <2>5
      <3>2. Shapes'
        BY <1>0, <2>2, <3>1 DEF Shapes, process, Places, InKessel
      <3>3. Stages'
        BY <1>0, <1>2, <2>2, <2>5, <3>1 DEF Stages, InKessel, WithManager, Lookup
      <3>4. Counts'
        BY <1>0, <2>2, <3>1 DEF Counts, TokensEach, tokenMaxRetries, process
      <3> QED BY <1>0, <3>1, <3>2, <3>3, <3>4, Unanswered
    <2> QED BY <2>3, <2>4, <2>5
  <1> QED BY <1>3, <1>4

\* A step from place to place within getKesselAllowedServices that keeps the
\* request what it is and the calls within their bounds.
LEMMA MoveStep ==
    ASSUME Inv, pc \in InKessel, pc' \in InKessel, UNCHANGED <<process, said, answer>>,
           req' \in Requests, calls' \in [token : Nat, sent : Nat],
           req'.mode = req.mode, req'.asked = req.asked, req'.permissions = req.permissions,
           pc' \in WithManager => manager # "none", Counts'
    PROVE  Inv'
  <1> USE DEF Inv
  <1>1. Shapes'
    BY DEF Shapes, process, Places
  <1>2. pc # "answered" /\ pc' # "answered" /\ pc' \notin {"identity", "mode", "rbac"}
    BY DEF InKessel, WithManager, Lookup
  <1>3. Stages'
    BY <1>2 DEF Stages, process
  <1> QED BY <1>1, <1>2, <1>3, Unanswered

LEMMA GetWorkspaceIDStep ==
    ASSUME Inv, GetWorkspaceID
    PROVE  Inv'
  <1> USE DEF Inv
  <1>0. pc = "workspace" /\ pc \in InKessel /\ UNCHANGED process
    BY DEF GetWorkspaceID, InKessel
  <1>1. CASE manager # "up"
    BY <1>0, <1>1, FailStep DEF GetWorkspaceID
  <1>2. CASE manager = "up"
    <2>1. /\ req' = [req EXCEPT !.tokenTimeout = IsTokenTimeoutEnabled]
          /\ pc' = "attempt" /\ UNCHANGED <<said, calls, answer>>
      BY <1>2 DEF GetWorkspaceID
    <2>2. req \in Requests /\ calls \in [token : Nat, sent : Nat] /\ cfg \in Config
      BY DEF Shapes
    <2>3. IsTokenTimeoutEnabled \in BOOLEAN
      BY DEF IsTokenTimeoutEnabled
    <2>4. /\ req' \in Requests /\ req'.mode = req.mode /\ req'.asked = req.asked
          /\ req'.permissions = req.permissions /\ req'.attempt = req.attempt
      BY <2>1, <2>2, <2>3 DEF Requests
    <2>5. calls.token = 0 /\ calls.sent = 0 /\ req.attempt = 0
      BY <1>0 DEF Counts
    <2>6. TokensEach' \in Nat
      <3>1. TokensEach' = IF req'.tokenTimeout THEN tokenMaxRetries + 1 ELSE 1
        BY <1>0 DEF TokensEach, tokenMaxRetries, process
      <3>2. tokenMaxRetries \in Nat
        BY <2>2, Limits DEF MaxTokenMaxRetries
      <3> QED BY <3>1, <3>2
    <2>7. Counts'
      BY <2>1, <2>4, <2>5, <2>6 DEF Counts
    <2> QED BY <1>0, <1>2, <2>1, <2>2, <2>4, <2>7, MoveStep DEF InKessel, WithManager, Lookup
  <1> QED BY <1>1, <1>2

\* A further call to the token service, the first of an attempt or a retry.
LEMMA AskTokenStep ==
    ASSUME Inv, UNCHANGED process, NEW try \in Nat, askToken(try),
           \/ pc = "attempt" /\ try = 0
           \/ pc = "token_backoff" /\ try = req.tokenTry + 1
    PROVE  Inv'
  <1> USE DEF Inv
  <1>0. /\ req \in Requests /\ calls \in [token : Nat, sent : Nat] /\ cfg \in Config
        /\ calls.token \in Nat /\ calls.sent \in Nat
    BY DEF Shapes
  <1>1. /\ TokensEach \in 1..(MaxTokenMaxRetries + 1)
    BY <1>0, Limits
  <1>a. req.attempt \in 0..maxRetries /\ req.tokenTry \in 0..MaxTokenMaxRetries
    BY <1>0 DEF Requests
  <1>2. /\ pc' = "token" /\ req' = [req EXCEPT !.tokenTry = try]
        /\ calls' = [calls EXCEPT !.token = @ + 1] /\ UNCHANGED <<said, answer>>
    BY DEF askToken
  <1>3. try < TokensEach
    BY <1>1, <1>a DEF Counts, MaxTokenMaxRetries
  <1>4. try \in 0..MaxTokenMaxRetries
    BY <1>1, <1>3 DEF MaxTokenMaxRetries
  <1>5. /\ req' \in Requests /\ req'.mode = req.mode /\ req'.asked = req.asked
        /\ req'.permissions = req.permissions /\ req'.attempt = req.attempt
        /\ req'.tokenTimeout = req.tokenTimeout /\ req'.tokenTry = try
    BY <1>0, <1>2, <1>4 DEF Requests
  <1>6. calls' \in [token : Nat, sent : Nat] /\ calls'.token = calls.token + 1
        /\ calls'.sent = calls.sent
    BY <1>0, <1>2
  <1>7. TokensEach' = TokensEach
    BY <1>5 DEF TokensEach, tokenMaxRetries, process
  <1>8. calls.sent <= req.attempt /\ calls.token <= req.attempt * TokensEach + try
    <2>1. req.attempt * TokensEach \in Nat
      BY <1>1, <1>a, Products DEF maxRetries, MaxTokenMaxRetries
    <2> QED BY <2>1, <1>0, <1>a DEF Counts, MaxTokenMaxRetries
  <1>9. Counts'
    <2>1. req.attempt * TokensEach \in Nat
      BY <1>1, <1>a, Products DEF maxRetries, MaxTokenMaxRetries
    <2> HIDE DEF TokensEach
    <2> QED BY <2>1, <1>0, <1>2, <1>3, <1>5, <1>6, <1>7, <1>8 DEF Counts
  <1>10. manager # "none"
    BY DEF Stages, WithManager, Lookup
  <1> QED BY <1>2, <1>5, <1>6, <1>9, <1>10, MoveStep DEF InKessel, WithManager, Lookup

LEMMA AttemptStep ==
    ASSUME Inv, Attempt
    PROVE  Inv'
  <1>0. pc = "attempt" /\ pc \in InKessel /\ UNCHANGED process
    BY DEF Attempt, InKessel, WithManager, Lookup
  <1> QED BY <1>0, FailStep, PanicStep, AskTokenStep DEF Attempt

LEMMA TokenBackoffStep ==
    ASSUME Inv, TokenBackoff
    PROVE  Inv'
  <1>0. pc = "token_backoff" /\ pc \in InKessel /\ UNCHANGED process
    BY DEF TokenBackoff, InKessel, WithManager, Lookup
  <1>1. req.tokenTry \in 0..MaxTokenMaxRetries
    BY DEF Inv, Shapes, Requests
  <1>2. req.tokenTry + 1 \in Nat
    BY <1>1 DEF MaxTokenMaxRetries
  <1> QED BY <1>0, <1>2, FailStep, AskTokenStep DEF TokenBackoff

LEMMA GetTokenStep ==
    ASSUME Inv, GetToken
    PROVE  Inv'
  <1> USE DEF Inv
  <1>0. pc = "token" /\ pc \in InKessel /\ UNCHANGED process
    BY DEF GetToken, TokenAcquired, TokenFails, InKessel, WithManager, Lookup
  <1>1. /\ req \in Requests /\ calls \in [token : Nat, sent : Nat] /\ cfg \in Config
        /\ calls.token \in Nat /\ calls.sent \in Nat /\ manager # "none"
    BY <1>0 DEF Shapes, Stages, WithManager, Lookup
  <1>2. req.attempt \in 0..maxRetries /\ req.tokenTry \in 0..MaxTokenMaxRetries
    BY <1>1 DEF Requests
  <1>3. TokensEach \in 1..(MaxTokenMaxRetries + 1)
    BY <1>1, Limits
  <1>4. /\ calls.sent <= req.attempt
        /\ calls.token <= req.attempt * TokensEach + req.tokenTry + 1
        /\ req.tokenTry < TokensEach
    BY <1>0 DEF Counts
  <1>5. /\ req.attempt * TokensEach \in Nat
        /\ (req.attempt + 1) * TokensEach = req.attempt * TokensEach + TokensEach
    BY <1>2, <1>3, Products DEF maxRetries, MaxTokenMaxRetries
  <1>6. CASE fail
    BY <1>0, <1>6, FailStep
  <1>7. CASE TokenAcquired /\ ~canceled
    <2>1. /\ pc' = "sent" /\ calls' = [calls EXCEPT !.sent = @ + 1]
          /\ UNCHANGED <<req, said, answer>>
      BY <1>7 DEF TokenAcquired
    <2>2. /\ calls' \in [token : Nat, sent : Nat] /\ calls'.token = calls.token
          /\ calls'.sent = calls.sent + 1
      BY <1>1, <2>1
    <2>3. TokensEach' = TokensEach
      BY <1>0, <2>1 DEF TokensEach, tokenMaxRetries, process
    <2>4. calls.token <= (req.attempt + 1) * TokensEach
      BY <1>1, <1>2, <1>3, <1>4, <1>5 DEF MaxTokenMaxRetries
    <2>5. calls.sent + 1 <= req.attempt + 1
      BY <1>1, <1>2, <1>4 DEF maxRetries
    <2>6. Counts'
      BY <2>1, <2>2, <2>3, <2>4, <2>5 DEF Counts
    <2> QED BY <1>0, <1>1, <2>1, <2>2, <2>6, MoveStep DEF InKessel, WithManager, Lookup
  <1>8. CASE TokenFails /\ req.tokenTimeout /\ req.tokenTry # tokenMaxRetries /\ ~canceled
    <2>1. pc' = "token_backoff" /\ UNCHANGED <<req, said, calls, answer>>
      BY <1>8 DEF TokenFails, goto
    <2>2. TokensEach' = TokensEach
      BY <1>0, <2>1 DEF TokensEach, tokenMaxRetries, process
    <2>3. req.tokenTry + 1 < TokensEach
      <3>1. TokensEach = tokenMaxRetries + 1 /\ tokenMaxRetries \in 0..MaxTokenMaxRetries
        BY <1>1, <1>8, Limits DEF TokensEach
      <3> QED BY <3>1, <1>2, <1>4, <1>8 DEF MaxTokenMaxRetries
    <2>4. Counts'
      BY <1>4, <2>1, <2>2, <2>3 DEF Counts
    <2> QED BY <1>0, <1>1, <2>1, <2>4, MoveStep DEF InKessel, WithManager, Lookup
  <1>9. req.tokenTimeout \in BOOLEAN /\ canceled \in BOOLEAN
    BY <1>1 DEF Requests, Shapes
  <1> QED
    BY <1>6, <1>7, <1>8, <1>9 DEF GetToken, TokenAcquired, TokenFails

LEMMA WorkspaceStep ==
    ASSUME Inv, WorkspaceFound \/ WorkspaceRefused \/ WorkspaceFails
    PROVE  Inv'
  <1> USE DEF Inv
  <1>0. pc = "sent" /\ pc \in InKessel /\ UNCHANGED process
    BY DEF WorkspaceFound, WorkspaceRefused, WorkspaceFails, InKessel, WithManager, Lookup
  <1>1. /\ req \in Requests /\ calls \in [token : Nat, sent : Nat] /\ manager # "none"
    BY <1>0 DEF Shapes, Stages, WithManager, Lookup
  <1>2. req.attempt \in 0..maxRetries
    BY <1>1 DEF Requests
  <1>3. CASE fail
    BY <1>0, <1>3, FailStep
  <1>4. CASE goto("options")
    <2>1. pc' = "options" /\ UNCHANGED <<req, said, calls, answer>>
      BY <1>4 DEF goto
    <2>2. Counts'
      BY <1>0, <2>1, WithinBounds DEF Counts, TokensEach, tokenMaxRetries, process
    <2> QED BY <1>0, <1>1, <2>1, <2>2, MoveStep DEF InKessel, WithManager
  <1>5. CASE goto("backoff") /\ req.attempt # maxRetries
    <2>1. pc' = "backoff" /\ UNCHANGED <<req, said, calls, answer>>
      BY <1>5 DEF goto
    <2>2. req.attempt < maxRetries
      BY <1>2, <1>5 DEF maxRetries
    <2>3. TokensEach' = TokensEach
      BY <1>0, <2>1 DEF TokensEach, tokenMaxRetries, process
    <2>4. Counts'
      BY <1>0, <2>1, <2>2, <2>3 DEF Counts, maxRetries
    <2> QED BY <1>0, <1>1, <2>1, <2>4, MoveStep DEF InKessel, WithManager, Lookup
  <1> QED
    BY <1>3, <1>4, <1>5 DEF WorkspaceFound, WorkspaceRefused, WorkspaceFails

LEMMA BackoffStep ==
    ASSUME Inv, Backoff
    PROVE  Inv'
  <1> USE DEF Inv
  <1>0. /\ pc = "backoff" /\ pc' = "attempt" /\ pc \in InKessel
        /\ req' = [req EXCEPT !.attempt = @ + 1]
        /\ UNCHANGED <<process, said, calls, answer>>
    BY DEF Backoff, InKessel, WithManager, Lookup
  <1>1. /\ req \in Requests /\ calls \in [token : Nat, sent : Nat] /\ manager # "none"
    BY <1>0 DEF Shapes, Stages, WithManager, Lookup
  <1>2. req.attempt \in 0..maxRetries /\ req.attempt < maxRetries
    BY <1>0, <1>1 DEF Requests, Counts
  <1>3. req.attempt + 1 \in 0..maxRetries
    BY <1>2 DEF maxRetries
  <1>4. /\ req' \in Requests /\ req'.attempt = req.attempt + 1
        /\ req'.mode = req.mode /\ req'.asked = req.asked
        /\ req'.permissions = req.permissions /\ req'.tokenTimeout = req.tokenTimeout
    BY <1>0, <1>1, <1>3 DEF Requests
  <1>5. TokensEach' = TokensEach
    BY <1>0, <1>4 DEF TokensEach, tokenMaxRetries, process
  <1>6. Counts'
    BY <1>0, <1>4, <1>5 DEF Counts
  <1> QED BY <1>0, <1>1, <1>4, <1>6, MoveStep DEF InKessel, WithManager, Lookup

LEMMA StartChecksStep ==
    ASSUME Inv, StartChecks
    PROVE  Inv'
  <1> USE DEF Inv
  <1>0. pc = "options" /\ pc \in InKessel /\ UNCHANGED process
    BY DEF StartChecks, InKessel, WithManager
  <1>1. CASE fail
    BY <1>0, <1>1, FailStep
  <1>2. CASE goto("check")
    <2>1. pc' = "check" /\ UNCHANGED <<req, said, calls, answer>>
      BY <1>2 DEF goto
    <2>2. req \in Requests /\ calls \in [token : Nat, sent : Nat] /\ manager # "none"
      BY <1>0 DEF Shapes, Stages, WithManager
    <2>3. Counts'
      BY <1>0, <2>1, WithinBounds DEF Counts, TokensEach, tokenMaxRetries, process
    <2> QED BY <1>0, <2>1, <2>2, <2>3, MoveStep DEF InKessel, WithManager
  <1> QED BY <1>1, <1>2 DEF StartChecks

\* Kessel answers for one more service.  The last answer decides: only here
\* does a request get through in a mode in which Kessel enforces.
LEMMA CheckStep ==
    ASSUME Inv, Check
    PROVE  Inv'
  <1> USE DEF Inv
  <1>0. /\ pc = "check" /\ pc \in InKessel /\ manager = "up"
        /\ UNCHANGED <<process, req, calls>>
    BY DEF Check, InKessel, WithManager
  <1>1. PICK s \in Services \ (said.yes \cup said.no), allowed \in BOOLEAN :
        /\ said' = IF allowed THEN [said EXCEPT !.yes = @ \cup {s}]
                   ELSE [said EXCEPT !.no = @ \cup {s}]
        /\ IF said'.yes \cup said'.no = Services
           THEN decide(req.mode,
                       computeAllowedServices(req.mode, req.permissions, said'.yes))
           ELSE UNCHANGED <<pc, answer>>
    BY Zenon DEF Check
  <1>2. said' \in [yes : SUBSET Services, no : SUBSET Services]
    <2>1. said \in [yes : SUBSET Services, no : SUBSET Services]
      BY DEF Shapes
    <2> QED BY <2>1, <1>1
  <1>3. pc' \in {"answered", "check"} =>
            /\ Counts'
            /\ answer'.code \in {0, 200, 403} => Shapes'
    BY <1>0, <1>2, WithinBounds
    DEF Counts, TokensEach, tokenMaxRetries, process, Shapes, Places, InKessel, WithManager
  <1>4. CASE said'.yes \cup said'.no # Services
    <2>1. UNCHANGED <<pc, answer>>
      BY <1>1, <1>4
    <2>2. Stages'
      BY <1>0, <2>1 DEF Stages, process
    <2>3. answer.code = 0
      BY <1>0 DEF Stages
    <2> QED BY <1>0, <1>3, <2>1, <2>2, <2>3, Unanswered
  <1>5. CASE said'.yes \cup said'.no = Services
    <2>0. decide(req.mode, computeAllowedServices(req.mode, req.permissions, said'.yes))
      BY <1>1, <1>5
    <2>1. CASE kesselEnforces(req.mode)
      <3>1. /\ pc' = "answered"
            /\ IF said'.yes = {} THEN answer' = [code |-> 403, services |-> {}]
               ELSE answer' = [code |-> 200, services |-> said'.yes]
        BY <2>0, <2>1 DEF decide, reply, computeAllowedServices
      <3>2. KesselEnforced'
        BY <1>0, <1>5, <3>1 DEF KesselEnforced, visible
      <3>3. KesselOnlyWatches'
        BY <1>0, <2>1 DEF KesselOnlyWatches, kesselEnforces
      <3>4. answer'.code \in {200, 403}
        BY <3>1
      <3>5. Stages'
        BY <1>0, <3>1 DEF Stages, InKessel, WithManager, Lookup
      <3> QED BY <1>3, <3>1, <3>2, <3>3, <3>4, <3>5
    <2>2. CASE ~kesselEnforces(req.mode)
      <3>1. /\ pc' = "answered"
            /\ answer' = [code |-> 200,
                          services |-> GetPredicateValues(req.permissions, "service")]
        BY <2>0, <2>2 DEF decide, reply, computeAllowedServices
      <3>2. KesselEnforced'
        BY <1>0, <2>2 DEF KesselEnforced, kesselEnforces
      <3>3. req.asked /\ granted(req.permissions)
        BY <1>0, <2>2 DEF Stages
      <3>4. KesselOnlyWatches'
        BY <1>0, <3>1, <3>3 DEF KesselOnlyWatches
      <3>5. Stages'
        BY <1>0, <3>1 DEF Stages, InKessel, WithManager, Lookup
      <3> QED BY <1>3, <3>1, <3>2, <3>4, <3>5
    <2> QED BY <2>1, <2>2
  <1> QED BY <1>4, <1>5

LEMMA CheckEnds ==
    ASSUME Inv, CheckFails \/ CheckPanics
    PROVE  Inv'
  <1>0. pc = "check" /\ pc \in InKessel /\ UNCHANGED process
    BY DEF CheckFails, CheckPanics, InKessel, WithManager
  <1>1. CASE CheckFails
    BY <1>0, <1>1, FailStep DEF CheckFails
  <1>2. CASE CheckPanics
    <2>1. manager = "closed"
      BY <1>0, <1>2 DEF CheckPanics, Inv, Shapes, Stages, WithManager
    <2> QED BY <1>0, <1>2, <2>1, PanicStep DEF CheckPanics
  <1> QED BY <1>1, <1>2

\* Flags, manager and context may change at any place of the request.
LEMMA EnvironmentStep ==
    ASSUME Inv, Cancel \/ PollFlags \/ Close
    PROVE  Inv'
  <1> USE DEF Inv
  <1>0. pc # "answered" /\ UNCHANGED <<request, cfg>>
    BY DEF Cancel, PollFlags, Close
  <1>1. UNCHANGED <<pc, req, said, calls, answer, cfg>>
    BY <1>0 DEF request
  <1>2. Shapes'
    <2>1. CASE Cancel
      BY <1>1, <2>1 DEF Cancel, Shapes
    <2>2. CASE PollFlags
      <3>1. polls' \in 0..MaxPolls
        BY <2>2, MaxPollsAssumption DEF PollFlags, Shapes
      <3>2. flags' \in [variant : Mode \cup {"disabled"}, tokenTimeout : BOOLEAN]
        BY <2>2 DEF PollFlags
      <3> QED BY <1>1, <2>2, <3>1, <3>2 DEF PollFlags, Shapes
    <2>3. CASE Close
      BY <1>1, <2>3 DEF Close, Shapes
    <2> QED BY <2>1, <2>2, <2>3
  <1>3. manager' = manager \/ manager' = "closed"
    BY DEF Cancel, PollFlags, Close
  <1>4. Stages'
    BY <1>1, <1>3 DEF Stages
  <1>5. Counts'
    BY <1>1 DEF Counts, TokensEach, tokenMaxRetries
  <1> QED BY <1>0, <1>1, <1>2, <1>4, <1>5, Unanswered

-----------------------------------------------------------------------------
(* The theorems                                                            *)

LEMMA InvInit == Init => Inv
  <1> SUFFICES ASSUME Init PROVE Inv
    OBVIOUS
  <1>1. PICK who \in Identity :
            req = [who |-> who, mode |-> "", asked |-> FALSE, permissions |-> {},
                   tokenTimeout |-> FALSE, attempt |-> 0, tokenTry |-> 0]
    BY DEF Init
  <1>2. req \in Requests
    <2>1. 0 \in 0..maxRetries /\ 0 \in 0..MaxTokenMaxRetries
      BY DEF maxRetries, MaxTokenMaxRetries
    <2>2. {} \in Grants \cup {{}} /\ "" \in Mode \cup {""}
      OBVIOUS
    <2> QED BY <1>1, <2>1, <2>2 DEF Requests
  <1>3. Shapes
    <2>1. manager \in {"up", "none", "closed"}
      <3>1. manager \in Initialize(cfg)
        BY DEF Init
      <3>2. Initialize(cfg) \subseteq {"up", "none"}
        BY DEF Initialize
      <3> QED BY <3>1, <3>2
    <2>a. /\ flags = [variant |-> "disabled", tokenTimeout |-> FALSE] /\ polls = 0
          /\ said = [yes |-> {}, no |-> {}] /\ calls = [token |-> 0, sent |-> 0]
          /\ answer = [code |-> 0, services |-> {}]
      BY DEF Init
    <2>2. flags \in [variant : Mode \cup {"disabled"}, tokenTimeout : BOOLEAN]
      BY <2>a
    <2>3. polls \in 0..MaxPolls /\ calls \in [token : Nat, sent : Nat]
      BY <2>a, MaxPollsAssumption
    <2>4. said \in [yes : SUBSET Services, no : SUBSET Services]
      BY <2>a
    <2>5. answer.code = 0
      BY <2>a
    <2> QED BY <1>2, <2>1, <2>2, <2>3, <2>4, <2>5 DEF Init, Shapes, Places
  <1>4. Stages
    BY <1>1 DEF Init, Stages, InKessel, WithManager, Lookup
  <1>5. Counts
    BY <1>1 DEF Init, Counts
  <1>6. KesselEnforced
    <2>1. answer.code = 0
      BY DEF Init
    <2> QED BY <2>1 DEF KesselEnforced
  <1>7. KesselOnlyWatches
    BY DEF Init, KesselOnlyWatches
  <1> QED BY <1>3, <1>4, <1>5, <1>6, <1>7 DEF Inv

LEMMA InvNext == Inv /\ [Next]_vars => Inv'
  <1> SUFFICES ASSUME Inv, [Next]_vars PROVE Inv'
    OBVIOUS
  <1>1. CASE Bounded
    BY <1>1, IdentityStep, ChooseModeStep, AskRbacStep, GetWorkspaceIDStep, AttemptStep,
       TokenBackoffStep, WorkspaceStep, BackoffStep, CheckEnds
    DEF Bounded
  <1>2. CASE GetToken \/ StartChecks \/ Check \/ CheckFails
    BY <1>2, GetTokenStep, StartChecksStep, CheckStep, CheckEnds
  <1>3. CASE Cancel \/ PollFlags \/ Close
    BY <1>3, EnvironmentStep
  <1>4. CASE UNCHANGED vars
    <2>1. Shapes' = Shapes /\ Stages' = Stages
      BY <1>4 DEF vars, Shapes, Stages
    <2>2. Counts' = Counts
      BY <1>4 DEF vars, Counts, TokensEach, tokenMaxRetries
    <2>3. KesselEnforced' = KesselEnforced
      BY <1>4 DEF vars, KesselEnforced, visible
    <2>4. KesselOnlyWatches' = KesselOnlyWatches
      BY <1>4 DEF vars, KesselOnlyWatches
    <2> QED BY <2>1, <2>2, <2>3, <2>4 DEF Inv
  <1> QED BY <1>1, <1>2, <1>3, <1>4 DEF Next

\* Every request keeps the invariant above, in every configuration.
THEOREM Invariant == Spec => []Inv
  BY InvInit, InvNext, PTL DEF Spec

LEMMA InvTyped == Inv => TypeOK
  <1> SUFFICES ASSUME Shapes PROVE TypeOK
    BY DEF Inv
  <1>1. /\ req.mode \in Mode \cup {""}
        /\ req.attempt \in 0..maxRetries /\ req.tokenTry \in 0..MaxTokenMaxRetries
    BY DEF Shapes, Requests
  <1>2. said.yes \subseteq Services /\ said.no \subseteq Services
    BY DEF Shapes
  <1>3. pc \in Places
    BY DEF Shapes
  <1> QED
    BY <1>1, <1>2, <1>3 DEF TypeOK, Shapes, Places, InKessel, WithManager, Lookup

\* The variables of a request have their types; the attempts and the tries for
\* a token never leave their ranges.
THEOREM TypeCorrect == Spec => []TypeOK
  BY InvTyped, Invariant, PTL

\* Where Kessel enforces, nobody gets through without an answer of Kessel for
\* every service, and nobody sees more or less than it allowed.
THEOREM KesselDecides == Spec => []KesselEnforced
  <1>1. Inv => KesselEnforced
    BY DEF Inv
  <1> QED BY <1>1, Invariant, PTL

\* Where RBAC enforces, asking Kessel as well changes no answer.
THEOREM KesselWatches == Spec => []KesselOnlyWatches
  <1>1. Inv => KesselOnlyWatches
    BY DEF Inv
  <1> QED BY <1>1, Invariant, PTL

\* The nested retries of the workspace lookup and of its tokens make a bounded
\* number of calls, whatever number of retries is configured.
THEOREM CallsBounded == Spec => []RetriesBounded
  <1>1. Inv => RetriesBounded
    <2> SUFFICES ASSUME Inv PROVE RetriesBounded
      OBVIOUS
    <2>1. tokenMaxRetries \in 0..MaxTokenMaxRetries
      BY Limits DEF Inv, Shapes
    <2>2. calls.sent <= maxRetries + 1 /\ calls.token <= (maxRetries + 1) * TokensEach
      BY WithinBounds DEF Inv
    <2> QED BY <2>1, <2>2 DEF RetriesBounded, TokensEach
  <1> QED BY <1>1, Invariant, PTL

\* After the client has gone no step of the request makes another call.
THEOREM CancelQuiets == Spec => CancelStopsCalls
  <1>1. [Next]_vars => [canceled => calls' = calls]_vars
    <2> SUFFICES ASSUME Next, canceled PROVE calls' = calls
      OBVIOUS
    <2>1. CASE Bounded
      BY <2>1 DEF Bounded, EnforceIdentityType, ChooseMode, AskRbac, GetWorkspaceID,
                  Attempt, TokenBackoff, WorkspaceFound, WorkspaceRefused, WorkspaceFails,
                  Backoff, CheckPanics, fail, conclude, goto, panic
    <2>2. CASE GetToken \/ StartChecks \/ Check \/ CheckFails
      BY <2>2 DEF GetToken, TokenAcquired, TokenFails, StartChecks, Check, CheckFails,
                  fail, conclude, goto
    <2>3. CASE Cancel \/ PollFlags \/ Close
      BY <2>3 DEF Cancel, PollFlags, Close, request
    <2> QED BY <2>1, <2>2, <2>3 DEF Next
  <1> QED BY <1>1, PTL DEF Spec, CancelStopsCalls

-----------------------------------------------------------------------------
(* Items and requests                                                      *)

LEMMA ItemTypes ==
    ASSUME NEW x \in Run
    PROVE  /\ x.id \in Id /\ x.id \in Int
           /\ x.created \in 0..MaxTime /\ x.created \in Int
           /\ x.run \in RunStatuses /\ x.status \in RunStatuses
           /\ x.expired \in BOOLEAN
<1>1. /\ x.id \in Id /\ x.created \in 0..MaxTime
      /\ x.run \in RunStatuses /\ x.status \in RunStatuses /\ x.expired \in BOOLEAN
  BY DEF Run
<1>2. \A n \in 0..MaxTime : n \in Int
  OBVIOUS
<1>3. Id \subseteq Int
  BY ListingAssumption, Zenon
<1> QED
  BY <1>1, <1>2, <1>3, Zenon

LEMMA QueryTypes ==
    ASSUME NEW q \in ApiRunsListParams
    PROVE  /\ q.list \in Lists
           /\ q.status \in RunStatuses \cup {NoFilter}
           /\ q.given \in Nat
           /\ getLimit(q) \in Nat
           /\ getOffset(q) \in Nat
<1>1. /\ q.list \in Lists
      /\ q.status \in RunStatuses \cup {NoFilter}
      /\ q.given \in Nat
      /\ q.limit \in Nat \cup {None}
      /\ q.offset \in Nat \cup {None}
  BY DEF ApiRunsListParams
<1> QED
  BY <1>1, ListingAssumption DEF getLimit, getOffset

\* A link asks for the same list as the request it was made for, page apart.
LEMMA LinkTypes ==
    ASSUME NEW q \in ApiRunsListParams, NEW offset \in Nat
    PROVE  LET link == createLink(q, offset)
           IN  /\ link \in ApiRunsListParams
               /\ link.list = q.list /\ link.org = q.org /\ link.allowed = q.allowed
               /\ link.service = q.service /\ link.status = q.status
               /\ link.params = q.params /\ link.sort = q.sort
               /\ getLimit(link) = getLimit(q) /\ getOffset(link) = offset
               /\ q.list # "internal" => link.given = 1
<1> DEFINE g == IF q.list = "internal" THEN q.given + 1 ELSE 1
<1> DEFINE link == [q EXCEPT !.limit = getLimit(q), !.offset = offset, !.given = g]
<1>1. createLink(q, offset) = link
  BY DEF createLink, internalLink, publicLink
<1>2. getLimit(q) \in Nat /\ q.given \in Nat
  BY QueryTypes
<1>3. g \in Nat /\ (q.list # "internal" => g = 1)
  BY <1>2
<1> HIDE DEF g
<1>4. /\ link \in ApiRunsListParams
      /\ link.list = q.list /\ link.org = q.org /\ link.allowed = q.allowed
      /\ link.service = q.service /\ link.status = q.status
      /\ link.params = q.params /\ link.sort = q.sort
      /\ link.limit = getLimit(q) /\ link.offset = offset /\ link.given = g
  BY <1>2, <1>3 DEF ApiRunsListParams
<1> HIDE DEF link
<1>5. getLimit(link) = getLimit(q) /\ getOffset(link) = offset
  BY <1>2, <1>4 DEF getLimit, getOffset, None
<1> QED
  BY <1>1, <1>3, <1>4, <1>5

\* What the conditions of every list have in common.
LEMMA WhereGives ==
    ASSUME NEW q \in ApiRunsListParams, NEW item, where(q, item)
    PROVE  /\ item.kind.org = q.org
           /\ (q.list # "internal" /\ q.allowed # {}) => item.kind.service \in q.allowed
           /\ statusFilter(q.status, item)
<1>1. q.list \in {"runs", "hosts", "internal"}
  BY QueryTypes DEF Lists
<1>2. filters(q, item) /\ (q.list # "internal" => GetAllowedServices(q, item))
  BY <1>1 DEF where, ApiRunsList, ApiRunHostsList, ApiInternalV2RunHostsList
<1> QED
  BY <1>2 DEF filters, GetAllowedServices

\* The condition is the same for a request and its links ...
LEMMA WhereOfLink ==
    ASSUME NEW q, NEW r, q.list = r.list, q.org = r.org, q.allowed = r.allowed,
           q.service = r.service, q.status = r.status, q.params = r.params, NEW item
    PROVE  where(q, item) <=> where(r, item)
  BY DEF where, ApiRunsList, ApiRunHostsList, ApiInternalV2RunHostsList, filters,
         serviceFilter, GetAllowedServices

\* ... and, without a status filter, for an item before and after it changes.
LEMMA WhereOfKind ==
    ASSUME NEW q, q.status = NoFilter, NEW a, NEW b, a.kind = b.kind
    PROVE  where(q, a) <=> where(q, b)
<1>1. addLabelFilterToQueryAsWhereClause(a, parseDeepObject(q.params, "labels"))
        <=> addLabelFilterToQueryAsWhereClause(b, parseDeepObject(q.params, "labels"))
  BY DEF addLabelFilterToQueryAsWhereClause
<1>2. statusFilter(q.status, a) /\ statusFilter(q.status, b)
  BY DEF statusFilter, NoFilter
<1> QED
  BY <1>1, <1>2 DEF where, ApiRunsList, ApiRunHostsList, ApiInternalV2RunHostsList, filters,
         serviceFilter, GetAllowedServices

-----------------------------------------------------------------------------
(* Finite sets of items                                                    *)

\* Items are counted by their ids.
LEMMA CountedByIds ==
    ASSUME ListTypeOK, NEW S \in SUBSET table
    PROVE  /\ IsFiniteSet(S) /\ IsFiniteSet(ids(S))
           /\ Cardinality(S) \in Nat
           /\ Cardinality(ids(S)) = Cardinality(S)
           /\ Cardinality(S) <= Cardinality(Id)
<1> DEFINE f == [x \in S |-> x.id]
<1>1. \A x \in S : x \in Run
  BY DEF ListTypeOK
<1>2. \A x \in S : x.id \in Id
  BY <1>1, ItemTypes
<1>3. \A x, y \in S : x.id = y.id => x = y
  BY DEF ListTypeOK
<1>4. f \in Injection(S, Id)
  BY <1>2, <1>3 DEF Injection, IsInjective
<1>5. IsFiniteSet(S) /\ Cardinality(S) <= Cardinality(Id)
  BY <1>4, FS_Injection, ListingAssumption
<1>6. f \in Bijection(S, ids(S))
  BY <1>3 DEF Bijection, Injection, Surjection, IsInjective, ids
<1>7. ExistsBijection(S, ids(S))
  BY <1>6 DEF ExistsBijection
<1> QED
  BY <1>5, <1>7, FS_Bijection, FS_CardinalityType

LEMMA MinOfTwo ==
    ASSUME NEW a \in Int, NEW b \in Int
    PROVE  /\ Min({a, b}) \in Int
           /\ Min({a, b}) <= a /\ Min({a, b}) <= b
           /\ Min({a, b}) = a \/ Min({a, b}) = b
<1>1. \E x \in {a, b} : \A y \in {a, b} : x =< y
  OBVIOUS
<1>2. Min({a, b}) \in {a, b} /\ \A y \in {a, b} : Min({a, b}) =< y
  BY <1>1 DEF Min
<1> QED
  BY <1>2

\* An order in which the database may return the items has each of them once.
LEMMA OrderShape ==
    ASSUME ListTypeOK, NEW s \in orders(query)
    PROVE  /\ Len(s) = Cardinality(matching(query)) /\ Len(s) \in Nat
           /\ DOMAIN s = 1..Len(s)
           /\ s \in [1..Len(s) -> matching(query)]
           /\ \A i, j \in 1..Len(s) : i # j => s[i].id # s[j].id
           /\ \A item \in matching(query) : \E i \in 1..Len(s) : s[i] = item
           /\ \A i, j \in 1..Len(s) : i < j => mayPrecede(query, s[i], s[j])
<1> DEFINE M == matching(query)
           n == Cardinality(M)
<1>1. M \in SUBSET table
  BY DEF matching
<1>2. IsFiniteSet(M) /\ n \in Nat
  BY <1>1, CountedByIds
<1>3. s \in SetToSeqs(M) /\ \A i, j \in DOMAIN s : i < j => mayPrecede(query, s[i], s[j])
  BY DEF orders
<1> HIDE DEF M, n
<1>4. s \in [1..n -> M] /\ \A i, j \in 1..n : i # j => s[i] # s[j]
  BY <1>3 DEF SetToSeqs, n
<1>5. s \in Injection(1..n, M)
  BY <1>4 DEF Injection, IsInjective
<1>6. IsFiniteSet(1..n) /\ Cardinality(1..n) = n
  BY <1>2, FS_Interval
<1>7. s \in Surjection(1..n, M)
  BY <1>2, <1>5, <1>6, FS_Injection DEF n
<1>8. Len(s) = n /\ DOMAIN s = 1..n
  BY <1>2, <1>4
<1>9. \A i, j \in 1..n : i # j => s[i].id # s[j].id
  BY <1>1, <1>4 DEF ListTypeOK
<1> QED
  BY <1>2, <1>3, <1>4, <1>7, <1>8, <1>9 DEF Surjection, M, n

\* A page is a piece of such an order.
LEMMA PageShape ==
    ASSUME ListTypeOK, NEW items \in pages(query)
    PROVE  \E s \in orders(query) :
              /\ \A i \in DOMAIN items : i + getOffset(query) \in 1..Len(s)
                                          /\ items[i] = s[i + getOffset(query)]
              /\ \A k \in 1..Len(s) :
                    (k > getOffset(query) /\ k <= getOffset(query) + getLimit(query)) =>
                        \E i \in DOMAIN items : items[i] = s[k]
<1>1. PICK s \in orders(query) :
        items = SubSeq(s, getOffset(query) + 1, Min({Len(s), getOffset(query) + getLimit(query)}))
  BY DEF pages
<1> DEFINE o == getOffset(query)
           l == getLimit(query)
           m == Min({Len(s), o + l})
<1>2. query \in ApiRunsListParams
  BY DEF ListTypeOK
<1>3. o \in Nat /\ l \in Nat
  BY <1>2, QueryTypes
<1>4. Len(s) \in Nat /\ DOMAIN s = 1..Len(s)
  BY OrderShape
<1>6. items = SubSeq(s, o + 1, m)
  BY <1>1
<1> HIDE DEF o, l
<1>5. m \in Int /\ m <= Len(s) /\ m <= o + l /\ (m = Len(s) \/ m = o + l)
  <2>1. Len(s) \in Int /\ o + l \in Int
    BY <1>3, <1>4
  <2> QED
    BY <2>1, MinOfTwo
<1> HIDE DEF m
<1>7. items = [i \in 1..((m - (o + 1)) + 1) |-> s[(i + (o + 1)) - 1]]
  BY <1>6, <1>3, <1>5
<1> DEFINE n == Len(s)
<1>12. n \in Nat /\ n = Len(s)
  BY <1>4
<1> HIDE DEF n
<1>8. DOMAIN items = 1..(m - o) /\ \A i \in 1..(m - o) : items[i] = s[i + o]
  BY <1>3, <1>5, <1>7
<1>9. \A k \in 1..n : (k > o /\ k <= o + l) => (k - o) \in 1..(m - o)
  BY <1>3, <1>12, <1>5
<1>10. \A k \in 1..Len(s) : (k > o /\ k <= o + l) => \E i \in DOMAIN items : items[i] = s[k]
  <2> SUFFICES ASSUME NEW k \in 1..Len(s), k > o, k <= o + l
               PROVE  \E i \in DOMAIN items : items[i] = s[k]
    OBVIOUS
  <2>1. (k - o) \in DOMAIN items
    BY <1>12, <1>8, <1>9
  <2>2. (k - o) + o = k
    BY <1>3, <1>4
  <2> QED
    BY <1>8, <2>1, <2>2
<1>11. \A i \in DOMAIN items : i + o \in 1..Len(s) /\ items[i] = s[i + o]
  <2>1. \A i \in 1..(m - o) : i + o \in 1..n
    BY <1>3, <1>5, <1>12
  <2> QED
    BY <1>8, <1>12, <2>1
<1> QED
  BY <1>10, <1>11 DEF o, l

LEMMA PageItems ==
    ASSUME ListTypeOK, NEW items \in pages(query), NEW i \in DOMAIN items
    PROVE  items[i] \in table /\ where(query, items[i])
<1>1. PICK s \in orders(query) : \A k \in DOMAIN items : k + getOffset(query) \in 1..Len(s)
                                                       /\ items[k] = s[k + getOffset(query)]
  BY PageShape
<1>2. s \in [1..Len(s) -> matching(query)]
  BY OrderShape
<1>3. items[i] \in matching(query)
  BY <1>1, <1>2
<1> QED
  BY <1>3 DEF matching

-----------------------------------------------------------------------------
(* What is shown                                                           *)

\* A run is found under exactly the status it is shown with: the condition of
\* the filter and the expression of the column say the same of it.
LEMMA RunShown ==
    ASSUME NEW item, item.run \in {"running", "success", "timeout"}, item.status = item.run,
           NEW status \in RunStatuses
    PROVE  statusFilter(status, item) <=> mapFieldsToSql(item) = status
  BY DEF statusFilter, mapFieldsToSql, overdue, RunStatuses, NoFilter

\* A host is found by the filter "timeout" with its run, and under no status if it
\* is left over from a run that ended after its timeout.
LEMMA HostShown ==
    ASSUME NEW item \in Run, item.run \in {"running", "success", "timeout"},
           item.status \in {"running", "success", "timeout"},
           item.status = "timeout" => item.expired
    PROVE  /\ statusFilter("timeout", item) <=> mapFieldsToSql(runOf(item)) = "timeout"
           /\ (\E status \in RunStatuses : statusFilter(status, item)) <=>
                 ~ /\ item.run = "success"
                   /\ item.status = "timeout" \/ (item.status = "running" /\ item.expired)
<1> DEFINE lost == /\ item.run = "success"
                   /\ item.status = "timeout" \/ (item.status = "running" /\ item.expired)
<1>1. statusFilter("timeout", item) <=> mapFieldsToSql(runOf(item)) = "timeout"
  <2>1. /\ runOf(item).run = item.run /\ runOf(item).status = item.run
        /\ runOf(item).expired = item.expired
    BY DEF runOf, Run
  <2> QED
    BY <2>1 DEF statusFilter, NoFilter, mapFieldsToSql, overdue
<1>2. CASE item.run = "timeout" \/ overdue(item)
  <2>1. statusFilter("timeout", item)
    BY <1>2 DEF statusFilter, NoFilter
  <2>2. ~lost
    BY <1>2 DEF overdue
  <2> QED
    BY <1>1, <2>1, <2>2 DEF RunStatuses
<1>3. CASE item.status = "success"
  <2>1. statusFilter("success", item)
    BY <1>3 DEF statusFilter, NoFilter
  <2>2. ~lost
    BY <1>3
  <2> QED
    BY <1>1, <2>1, <2>2 DEF RunStatuses
<1>4. CASE item.status = "running" /\ ~item.expired
  <2>1. statusFilter("running", item)
    BY <1>4 DEF statusFilter, NoFilter
  <2>2. ~lost
    BY <1>4
  <2> QED
    BY <1>1, <2>1, <2>2 DEF RunStatuses
<1>5. CASE lost
  <2>1. \A status \in RunStatuses : ~statusFilter(status, item)
    BY <1>5 DEF statusFilter, NoFilter, RunStatuses, overdue
  <2> QED
    BY <1>1, <1>5, <2>1
<1>6. \/ item.run = "timeout" \/ overdue(item) \/ item.status = "success"
      \/ (item.status = "running" /\ ~item.expired) \/ lost
  <2>1. item.expired \in BOOLEAN
    BY ItemTypes
  <2> QED
    BY <2>1 DEF overdue
<1> QED
  BY <1>2, <1>3, <1>4, <1>5, <1>6

\* What an item keeps and becomes when it changes.
Becomes(item, new) ==
    /\ new \in Run
    /\ new.id = item.id /\ new.kind = item.kind /\ new.created = item.created
    /\ new.run \in {"running", "success", "timeout"}
    /\ new.status \in {"running", "success", "timeout"}
    /\ (new.run = "timeout" \/ new.status = "timeout") => new.expired
    /\ new.run = "timeout" => new.status # "running"
    /\ query.list = "runs" => new.status = new.run

Change == Respond \/ TimeOut \/ Expire

LEMMA ChangeFrame ==
    ASSUME ListInv, Change
    PROVE  /\ at # "end" /\ changes' \in 0..MaxChanges[query.list] /\ UNCHANGED <<raced, walk>>
           /\ \E item \in table : \E new : Becomes(item, new) /\ table' = (table \ {item}) \cup {new}
<1> USE DEF ListInv, ListTypeOK, Rows
<1>1. ASSUME NEW item \in table, NEW new, change(item, new), Becomes(item, new)
      PROVE  /\ at # "end" /\ changes' \in 0..MaxChanges[query.list] /\ UNCHANGED <<raced, walk>>
             /\ \E i \in table : \E n : Becomes(i, n) /\ table' = (table \ {i}) \cup {n}
  <2>1. /\ at # "end" /\ UNCHANGED <<raced, walk>>
        /\ table' = (table \ {item}) \cup {new}
    BY <1>1 DEF change
  <2>2. changes' \in 0..MaxChanges[query.list]
    <3>1. MaxChanges[query.list] \in Nat
      BY ListingAssumption, QueryTypes
    <3> QED
      BY <1>1, <3>1 DEF change
  <2> QED
    BY <1>1, <2>1, <2>2, Zenon
<1>2. CASE Respond
  <2>1. PICK item \in table :
          \E run \in IF item.run = "success" THEN {"success"} ELSE {"running", "success"},
             status \in {item.status, "running", "success"} :
              /\ query.list = "runs" => status = run
              /\ change(item, [item EXCEPT !.run = run, !.status = status])
    BY <1>2, Zenon DEF Respond
  <2>2. PICK run \in {"running", "success"}, status \in {item.status, "running", "success"} :
          /\ query.list = "runs" => status = run
          /\ change(item, [item EXCEPT !.run = run, !.status = status])
    <3>1. (IF item.run = "success" THEN {"success"} ELSE {"running", "success"})
            \subseteq {"running", "success"}
      OBVIOUS
    <3> QED
      BY <2>1, <3>1, Zenon
  <2> DEFINE new == [item EXCEPT !.run = run, !.status = status]
  <2>3. item \in Run /\ run \in RunStatuses /\ status \in RunStatuses
    BY <2>2 DEF RunStatuses
  <2>4. /\ new \in Run
        /\ new.id = item.id /\ new.kind = item.kind /\ new.created = item.created
        /\ new.run = run /\ new.status = status /\ new.expired = item.expired
    BY <2>3 DEF Run
  <2>5. change(item, new)
    BY <2>2
  <2> HIDE DEF new
  <2>6. Becomes(item, new)
    BY <2>2, <2>4 DEF Becomes
  <2> QED
    BY <1>1, <2>5, <2>6
<1>3. CASE TimeOut
  <2>1. PICK item \in table :
          /\ overdue(item)
          /\ change(item, [item EXCEPT !.run = "timeout",
                                       !.status = IF @ = "running" THEN "timeout" ELSE @])
    BY <1>3, Zenon DEF TimeOut
  <2> DEFINE status == IF item.status = "running" THEN "timeout" ELSE item.status
             new == [item EXCEPT !.run = "timeout", !.status = status]
  <2>2. change(item, new)
    BY <2>1
  <2>3. item \in Run /\ item.run = "running" /\ item.expired
    BY <2>1 DEF overdue
  <2>4. /\ status \in {"success", "timeout"}
        /\ query.list = "runs" => status = "timeout"
    BY <2>3
  <2>5. status \in RunStatuses /\ "timeout" \in RunStatuses
    BY <2>4 DEF RunStatuses
  <2> HIDE DEF status
  <2>6. /\ new \in Run
        /\ new.id = item.id /\ new.kind = item.kind /\ new.created = item.created
        /\ new.run = "timeout" /\ new.status = status /\ new.expired = item.expired
    BY <2>3, <2>5 DEF Run
  <2> HIDE DEF new
  <2>7. Becomes(item, new)
    BY <2>3, <2>4, <2>6 DEF Becomes
  <2> QED
    BY <1>1, <2>2, <2>7
<1>4. CASE Expire
  <2>1. PICK item \in table : change(item, [item EXCEPT !.expired = TRUE])
    BY <1>4 DEF Expire
  <2> DEFINE new == [item EXCEPT !.expired = TRUE]
  <2>2. item \in Run
    BY <2>1
  <2>3. /\ new \in Run
        /\ new.id = item.id /\ new.kind = item.kind /\ new.created = item.created
        /\ new.run = item.run /\ new.status = item.status /\ new.expired = TRUE
    BY <2>2 DEF Run
  <2>4. change(item, new)
    BY <2>1
  <2> HIDE DEF new
  <2>5. Becomes(item, new)
    BY <2>3 DEF Becomes
  <2> QED
    BY <1>1, <2>4, <2>5
<1> QED
  BY <1>2, <1>3, <1>4 DEF Change

LEMMA ChangeKeepsList ==
    ASSUME ListInv, Change
    PROVE  ListInv'
<1> USE DEF ListInv
<1>1. PICK item \in table : \E new : Becomes(item, new) /\ table' = (table \ {item}) \cup {new}
  BY ChangeFrame
<1>2. PICK new : Becomes(item, new) /\ table' = (table \ {item}) \cup {new}
  BY <1>1
<1>3. changes' \in 0..MaxChanges[query.list] /\ UNCHANGED <<raced, at, query, total, page, started, seen>>
  BY ChangeFrame DEF walk
<1>4. \A x \in table' : (x \in table /\ x # item) \/ x = new
  BY <1>2
<1>5. table' \subseteq Run
  BY <1>2 DEF ListTypeOK, Becomes
<1>6. \A a, b \in table' : a.id = b.id => a = b
  BY <1>2, <1>4 DEF ListTypeOK, Becomes
<1>7. ListTypeOK'
  BY <1>3, <1>5, <1>6 DEF ListTypeOK
<1>8. Rows'
  BY <1>2, <1>3, <1>4 DEF Rows, Becomes
<1>9. ids(table') = ids(table)
  BY <1>2 DEF ids, Becomes
<1>10. TenantIsolated'
  BY <1>2, <1>3, <1>4 DEF Shown, TenantIsolated, Becomes
<1>11. Paged'
  BY <1>3 DEF Paged
<1> QED
  BY <1>3, <1>7, <1>8, <1>9, <1>10, <1>11 DEF Shown, ids

LEMMA CreateFrame ==
    ASSUME ListInv, Create
    PROVE  /\ at # "end" /\ UNCHANGED <<changes, walk>>
           /\ raced' \in {raced, raced + 1} /\ (at = "find" => raced' = raced + 1)
           /\ \E new \in Run : /\ new.id \notin ids(table) /\ table' = table \cup {new}
                               /\ new.run = "running" /\ new.status = "running"
<1>1. PICK id \in Id \ ids(table), what \in Kind, created \in 0..MaxTime :
         table' = table \cup {newItem(id, what, created)}
  BY DEF Create
<1> DEFINE new == newItem(id, what, created)
<1>2. /\ new \in Run /\ new.id = id /\ new.run = "running" /\ new.status = "running"
  BY DEF newItem, Run, RunStatuses
<1> HIDE DEF new
<1> QED
  BY <1>1, <1>2 DEF Create, new

LEMMA CreateKeepsList ==
    ASSUME ListInv, Create
    PROVE  ListInv'
<1> USE DEF ListInv
<1>1. PICK new \in Run : /\ new.id \notin ids(table) /\ table' = table \cup {new}
                         /\ new.run = "running" /\ new.status = "running"
  BY CreateFrame
<1>2. raced' \in {raced, raced + 1} /\ UNCHANGED <<changes, at, query, total, page, started, seen>>
  BY CreateFrame DEF walk
<1>3. \A x \in table : x.id # new.id
  BY <1>1 DEF ids
<1>4. ListTypeOK'
  BY <1>1, <1>2, <1>3 DEF ListTypeOK
<1>5. Rows'
  BY <1>1, <1>2 DEF Rows
<1>6. ids(table) \subseteq ids(table')
  BY <1>1 DEF ids
<1>7. new.id \notin seen
  BY <1>1 DEF Shown
<1>8. TenantIsolated'
  BY <1>1, <1>2, <1>7 DEF Shown, TenantIsolated
<1>9. Paged'
  BY <1>2 DEF Paged
<1> QED
  BY <1>2, <1>4, <1>5, <1>6, <1>8, <1>9 DEF Shown, ids

\* What the page and the link of a step that finds items are.
LEMMA FindFrame ==
    ASSUME ListInv, Find
    PROVE  \E items \in pages(query) :
              /\ page' = [code |-> 200, offset |-> getOffset(query),
                          last |-> createLinks(query, total).last,
                          next |-> createLinks(query, total).next,
                          data |-> [i \in DOMAIN items |-> dbRuntoApiRun(query, items[i])]]
              /\ seen' = seen \cup {items[i].id : i \in DOMAIN items}
              /\ \/ createLinks(query, total).next = None /\ at' = "end" /\ query' = query
                 \/ /\ createLinks(query, total).next # None /\ at' = "count"
                    /\ query' = createLink(query, createLinks(query, total).next)
              /\ UNCHANGED <<table, changes, raced, total, started>>
  BY DEF Find

LEMMA NextLink ==
    ASSUME NEW q \in ApiRunsListParams, NEW count \in Nat
    PROVE  /\ createLinks(q, count).next \in Nat \cup {None}
           /\ createLinks(q, count).next # None =>
                 createLinks(q, count).next = getOffset(q) + getLimit(q)
           /\ createLinks(q, count).next = None <=> count <= getOffset(q) + getLimit(q)
<1>1. getLimit(q) \in Nat /\ getOffset(q) \in Nat
  BY QueryTypes
<1>2. createLinks(q, count).next =
        IF getOffset(q) + getLimit(q) < count THEN getOffset(q) + getLimit(q) ELSE None
  BY DEF createLinks
<1> QED
  BY <1>1, <1>2 DEF None

\* Following a link changes nothing of the request but the page.
LEMMA FollowsLink ==
    ASSUME ListInv, Find
    PROVE  /\ query' \in ApiRunsListParams
           /\ query'.list = query.list /\ query'.org = query.org
           /\ query'.allowed = query.allowed /\ query'.service = query.service
           /\ query'.status = query.status /\ query'.params = query.params
           /\ query'.sort = query.sort /\ getLimit(query') = getLimit(query)
           /\ at' = "count" => getOffset(query') = getOffset(query) + getLimit(query)
           /\ at' = "end" => total <= getOffset(query) + getLimit(query)
           /\ at' \in {"count", "end"}
           /\ (query.list # "internal" /\ query.given <= 1) => query'.given <= 1
<1>1. query \in ApiRunsListParams /\ total \in Nat
  <2>1. Cardinality(Id) \in Nat
    BY ListingAssumption, FS_CardinalityType
  <2> QED
    BY <2>1 DEF ListInv, ListTypeOK
<1> DEFINE next == createLinks(query, total).next
<1>2. /\ next \in Nat \cup {None}
      /\ next # None => next = getOffset(query) + getLimit(query)
      /\ next = None <=> total <= getOffset(query) + getLimit(query)
  BY <1>1, NextLink
<1>3. \/ next = None /\ at' = "end" /\ query' = query
      \/ next # None /\ at' = "count" /\ query' = createLink(query, next)
  BY FindFrame
<1> HIDE DEF next
<1>4. CASE next = None
  BY <1>1, <1>2, <1>3, <1>4
<1>5. CASE next # None
  <2>1. next \in Nat
    BY <1>2, <1>5
  <2>2. /\ query' = createLink(query, next) /\ at' = "count"
        /\ next = getOffset(query) + getLimit(query)
    BY <1>2, <1>3, <1>5
  <2> QED
    BY <1>1, <2>1, <2>2, LinkTypes
<1> QED
  BY <1>4, <1>5

LEMMA FindKeepsList ==
    ASSUME ListInv, Find
    PROVE  ListInv'
<1> USE DEF ListInv
<1>1. PICK items \in pages(query) :
         /\ page' = [code |-> 200, offset |-> getOffset(query),
                     last |-> createLinks(query, total).last,
                     next |-> createLinks(query, total).next,
                     data |-> [i \in DOMAIN items |-> dbRuntoApiRun(query, items[i])]]
         /\ seen' = seen \cup {items[i].id : i \in DOMAIN items}
         /\ UNCHANGED <<table, changes, raced, total, started>>
  BY FindFrame
<1>2. \A i \in DOMAIN items : items[i] \in table /\ where(query, items[i])
  BY PageItems
<1>3. \A i \in DOMAIN items : items[i].id \in Id
  BY <1>2, ItemTypes DEF ListTypeOK
<1>4. /\ page'.code = 200
      /\ page'.data = [i \in DOMAIN items |-> dbRuntoApiRun(query, items[i])]
  BY <1>1
<1>5. seen' \subseteq Id
  BY <1>1, <1>3 DEF ListTypeOK
<1>6. ListTypeOK'
  BY <1>1, <1>4, <1>5, FollowsLink DEF ListTypeOK
<1>7. Rows'
  BY <1>1, FollowsLink DEF Rows
<1>8. query \in ApiRunsListParams
  BY DEF ListTypeOK
<1>9. \A i \in DOMAIN items :
         /\ items[i].kind.org = query.org
         /\ (query.list # "internal" /\ query.allowed # {}) =>
               items[i].kind.service \in query.allowed
         /\ statusFilter(query.status, items[i])
  BY <1>2, <1>8, WhereGives
<1>10. \A item \in table : \A i \in DOMAIN items : item.id = items[i].id => item = items[i]
  BY <1>2 DEF ListTypeOK
<1>11. TenantIsolated'
  BY <1>1, <1>9, <1>10, FollowsLink DEF Shown, TenantIsolated
<1>12. seen' \subseteq ids(table)
  BY <1>1, <1>2 DEF Shown, ids
<1>13. Shown'
  BY <1>1, <1>11, <1>12 DEF Shown, ids
<1>14. ASSUME query.status # NoFilter, query.list # "runs" => query.status # "timeout",
              NEW i \in DOMAIN items
       PROVE  dbRuntoApiRun(query, items[i]) \in {query.status, NoFilter}
  <2>1. query.status \in RunStatuses
    BY <1>8, <1>14, QueryTypes
  <2>2. CASE query.list = "runs"
    <3>1. mapFieldsToSql(items[i]) = query.status
      BY <1>2, <1>9, <2>1, <2>2, RunShown DEF Rows
    <3> QED
      BY <2>2, <3>1 DEF dbRuntoApiRun
  <2>3. CASE query.list # "runs"
    <3>1. mapHostFieldsToSql(items[i]) = query.status
      BY <1>9, <1>14, <2>3 DEF statusFilter, mapHostFieldsToSql
    <3> QED
      BY <2>3, <3>1 DEF dbRuntoApiRun
  <2> QED
    BY <2>2, <2>3
<1>15. Paged'
  BY <1>4, <1>14, FollowsLink DEF Paged
<1> QED
  BY <1>6, <1>7, <1>13, <1>15

LEMMA RefusalCodes == \A q : refusal(q) \in {0, 400, 403}
  BY DEF refusal

LEMMA NextKeepsList == ListInv /\ [ListNext]_listVars => ListInv'
<1> SUFFICES ASSUME ListInv, [ListNext]_listVars PROVE ListInv'
  OBVIOUS
<1>1. ASSUME NEW c \in {400, 403, 500}, page' = emptyPage(c), at' = "end",
             UNCHANGED <<table, changes, raced, query, total, started, seen>>
      PROVE  ListInv'
  <2>1. page'.code = c /\ page'.data = <<>>
    BY <1>1 DEF emptyPage
  <2> QED
    BY <1>1, <2>1 DEF ListInv, ListTypeOK, Rows, Shown, TenantIsolated, ids, Paged
<1>2. CASE Refuse
  <2>1. refusal(query) \in {400, 403, 500}
    BY <1>2, RefusalCodes DEF Refuse
  <2> QED
    BY <1>1, <1>2, <2>1 DEF Refuse
<1>3. CASE FindPanics \/ ReadFails
  BY <1>1, <1>3 DEF FindPanics, ReadFails
<1>4. CASE Count
  <2>1. /\ refusal(query) = 0
        /\ at = "count" /\ at' = "find" /\ total' = Cardinality(matching(query)) /\ raced' = 0
        /\ started' = IF page.code = 0 THEN ids(matching(query)) ELSE started
        /\ UNCHANGED <<table, changes, query, page, seen>>
    BY <1>4 DEF Count
  <2>2. matching(query) \in SUBSET table
    BY DEF matching
  <2>3. total' \in 0..Cardinality(Id)
    <3>1. Cardinality(Id) \in Nat
      BY ListingAssumption, FS_CardinalityType
    <3>2. total' \in Nat /\ total' <= Cardinality(Id)
      BY <2>1, <2>2, CountedByIds DEF ListInv
    <3> QED
      BY <3>1, <3>2
  <2>4. ids(matching(query)) \subseteq Id
    BY <2>2, ItemTypes DEF ListInv, ListTypeOK, ids
  <2>5. ListTypeOK'
    BY <2>1, <2>3, <2>4 DEF ListInv, ListTypeOK
  <2>6. page.code \in {0, 200, 400, 403, 500}
    BY DEF ListInv, ListTypeOK
  <2> QED
    BY <2>1, <2>5, <2>6 DEF ListInv, Rows, Shown, TenantIsolated, ids, Paged
<1>5. CASE Find
  BY <1>5, FindKeepsList
<1>6. CASE Create
  BY <1>6, CreateKeepsList
<1>7. CASE Change
  BY <1>7, ChangeKeepsList
<1>8. CASE UNCHANGED listVars
  BY <1>8 DEF listVars, walk, ListInv, ListTypeOK, Rows, Shown, TenantIsolated, ids, Paged
<1> QED
  BY <1>2, <1>3, <1>4, <1>5, <1>6, <1>7, <1>8 DEF ListNext, Change

LEMMA InitList == ListInit => ListInv
<1> SUFFICES ASSUME ListInit PROVE ListInv
  OBVIOUS
<1>1. page.code = 0 /\ page.data = <<>>
  BY DEF ListInit, emptyPage
<1>2. query \in ApiRunsListParams
  BY ListingAssumption DEF ListInit
<1>3. 0 \in 0..Cardinality(Id)
  BY ListingAssumption, FS_CardinalityType
<1>4. 0 \in 0..MaxChanges[query.list]
  BY <1>2, ListingAssumption, QueryTypes
<1>5. ListTypeOK
  BY <1>1, <1>2, <1>3, <1>4 DEF ListInit, ListTypeOK
<1> QED
  BY <1>1, <1>5 DEF ListInit, ListInv, Rows, Shown, TenantIsolated, ids, Paged

\* The invariant of the lists holds whatever is asked, created, finished and
\* expired.
THEOREM ListInvariant == ListSpec => []ListInv
  BY InitList, NextKeepsList, PTL DEF ListSpec

\* A list shows nothing but items of the organization and of a service the
\* caller may see, from the first page to the last (the conditions that
\* ApiRunsList and ApiRunHostsList join by AND, the one on expired runs with its
\* OR included).
THEOREM ShowsOnlyAllowed == ListSpec => []TenantIsolated
<1>1. ListInv => TenantIsolated
  BY DEF ListInv, Shown
<1> QED
  BY <1>1, ListInvariant, PTL

\* Runs are found under exactly the status they are shown with; hosts under a
\* final status or "running" only if they are shown with it, under "timeout" with
\* their run, and under no status at all in the one case that HostsFound names
\* (the status conditions of runsList.go, runHostsList.go and runHostsListV2.go
\* against the columns they select).
THEOREM FiltersFind == ListSpec => []StatusFilters
<1>1. ListInv => StatusFilters
  <2> SUFFICES ASSUME ListInv PROVE RunsAsShown /\ HostsFound
    BY DEF StatusFilters
  <2>1. RunsAsShown
    <3> SUFFICES ASSUME query.list = "runs"
                 PROVE  /\ query.status # NoFilter =>
                              \A i \in DOMAIN page.data :
                                  page.data[i] \in {query.status, NoFilter}
                        /\ \A item \in table, status \in RunStatuses :
                              statusFilter(status, item) <=> mapFieldsToSql(item) = status
      BY DEF RunsAsShown
    <3>1. \A item \in table, status \in RunStatuses :
             statusFilter(status, item) <=> mapFieldsToSql(item) = status
      BY RunShown DEF ListInv, Rows
    <3> QED
      BY <3>1 DEF ListInv, Paged
  <2>2. HostsFound
    <3>1. ASSUME NEW item \in table
          PROVE  /\ statusFilter("timeout", item) <=> mapFieldsToSql(runOf(item)) = "timeout"
                 /\ (\E status \in RunStatuses : statusFilter(status, item)) <=>
                       ~ /\ item.run = "success"
                         /\ item.status = "timeout" \/ (item.status = "running" /\ item.expired)
      <4>1. /\ item \in Run /\ item.run \in {"running", "success", "timeout"}
            /\ item.status \in {"running", "success", "timeout"}
            /\ item.status = "timeout" => item.expired
        BY <3>1 DEF ListInv, ListTypeOK, Rows
      <4> QED
        BY <4>1, HostShown
    <3>2. (query.list # "runs" /\ query.status \notin {NoFilter, "timeout"}) =>
             \A i \in DOMAIN page.data : page.data[i] \in {query.status, NoFilter}
      BY DEF ListInv, Paged
    <3> QED
      BY <3>1, <3>2, Zenon DEF HostsFound
  <2> QED
    BY <2>1, <2>2
<1> QED
  BY <1>1, ListInvariant, PTL

-----------------------------------------------------------------------------
(* A walk from link to link                                                *)

\* The order of a list of runs is reflexive and antisymmetric on its items.
LEMMA PrecedeReflexive ==
    ASSUME NEW q, NEW a \in Run
    PROVE  mayPrecede(q, a, a)
  BY ItemTypes DEF mayPrecede

LEMMA PrecedeAntisymmetric ==
    ASSUME NEW q, q.list = "runs", NEW a \in Run, NEW b \in Run,
           mayPrecede(q, a, b), mayPrecede(q, b, a)
    PROVE  a.id = b.id
<1>1. a.id \in Int /\ b.id \in Int /\ a.created \in Int /\ b.created \in Int
  BY ItemTypes
<1> QED
  BY <1>1 DEF mayPrecede

\* The place of an item in the order is the number of items up to it.
LEMMA PlaceIsRank ==
    ASSUME ListTypeOK, query.list = "runs", NEW s \in orders(query), NEW i \in 1..Len(s)
    PROVE  Cardinality(upTo(s[i])) = i
<1>1. /\ Len(s) \in Nat /\ DOMAIN s = 1..Len(s)
      /\ s \in [1..Len(s) -> matching(query)]
      /\ \A j, k \in 1..Len(s) : j # k => s[j].id # s[k].id
      /\ \A item \in matching(query) : \E k \in 1..Len(s) : s[k] = item
      /\ \A j, k \in 1..Len(s) : j < k => mayPrecede(query, s[j], s[k])
  BY OrderShape
<1>2. \A k \in 1..Len(s) : s[k] \in Run
  BY <1>1 DEF matching, ListTypeOK
<1>3. \A k \in 1..Len(s) : k <= i => mayPrecede(query, s[k], s[i])
  BY <1>1, <1>2, PrecedeReflexive
<1>4. \A k \in 1..Len(s) : mayPrecede(query, s[k], s[i]) => k <= i
  <2> SUFFICES ASSUME NEW k \in 1..Len(s), mayPrecede(query, s[k], s[i]), k > i
               PROVE  FALSE
    BY <1>1
  <2>1. mayPrecede(query, s[i], s[k])
    BY <1>1
  <2>2. s[i].id = s[k].id
    BY <1>2, <2>1, PrecedeAntisymmetric
  <2> QED
    BY <1>1, <2>2
<1> DEFINE f == [k \in 1..i |-> s[k].id]
<1>5. i \in Nat /\ \A k \in 1..i : k \in 1..Len(s) /\ k <= i
  BY <1>1
<1>6. upTo(s[i]) = {s[k].id : k \in 1..i}
  <2>1. ASSUME NEW x \in upTo(s[i]) PROVE x \in {s[k].id : k \in 1..i}
    <3>1. PICK item \in matching(query) : mayPrecede(query, item, s[i]) /\ x = item.id
      BY <2>1 DEF upTo, ids
    <3>2. PICK k \in 1..Len(s) : s[k] = item
      BY <1>1
    <3>3. k <= i
      BY <1>4, <3>1, <3>2
    <3>4. k \in 1..i
      BY <1>1, <3>3
    <3> QED
      BY <3>1, <3>2, <3>4
  <2>2. ASSUME NEW k \in 1..i PROVE s[k].id \in upTo(s[i])
    <3>1. k \in 1..Len(s) /\ k <= i
      BY <1>5
    <3>2. s[k] \in matching(query) /\ mayPrecede(query, s[k], s[i])
      BY <1>1, <1>3, <3>1
    <3> QED
      BY <3>2 DEF upTo, ids
  <2> QED
    BY <2>1, <2>2
<1>7. f \in Bijection(1..i, upTo(s[i]))
  <2>1. f \in [1..i -> upTo(s[i])] /\ \A k \in 1..i : f[k] = s[k].id
    BY <1>6
  <2>2. \A j, k \in 1..i : f[j] = f[k] => j = k
    BY <1>1, <1>5, <2>1
  <2>3. \A x \in upTo(s[i]) : \E k \in 1..i : f[k] = x
    BY <1>6, <2>1
  <2> HIDE DEF f
  <2> QED
    BY <2>1, <2>2, <2>3 DEF Bijection, Injection, Surjection, IsInjective
<1>8. ExistsBijection(1..i, upTo(s[i]))
  BY <1>7 DEF ExistsBijection
<1> QED
  BY <1>5, <1>8, FS_CountingElements

\* Sets of ids of items are finite.
LEMMA UpToFinite ==
    ASSUME ListTypeOK, NEW item
    PROVE  IsFiniteSet(upTo(item)) /\ Cardinality(upTo(item)) \in Nat
<1> DEFINE S == {other \in matching(query) : mayPrecede(query, other, item)}
<1>1. S \in SUBSET table
  BY DEF matching
<1>2. IsFiniteSet(ids(S))
  BY <1>1, CountedByIds
<1>3. upTo(item) = ids(S)
  BY DEF upTo
<1> QED
  BY <1>2, <1>3, FS_CardinalityType

\* Multiples of a positive number are ordered as their factors.
LEMMA MultiplesOrdered ==
    ASSUME NEW l \in Nat, l > 0, NEW a \in Int, NEW b \in Int
    PROVE  /\ a < b => a * l + l <= b * l
           /\ a * l < b * l => a < b
<1>1. \A d \in Nat : d * l >= 0
  OBVIOUS
<1>2. a < b => a * l + l <= b * l
  <2> SUFFICES ASSUME a < b PROVE a * l + l <= b * l
    OBVIOUS
  <2>1. (b - a) - 1 \in Nat
    OBVIOUS
  <2>2. ((b - a) - 1) * l >= 0
    BY <1>1, <2>1
  <2>3. ((b - a) - 1) * l = (b * l - a * l) - l
    OBVIOUS
  <2> QED
    BY <2>2, <2>3
<1>3. a * l < b * l => a < b
  <2> SUFFICES ASSUME a * l < b * l, b <= a PROVE FALSE
    OBVIOUS
  <2>1. a - b \in Nat
    OBVIOUS
  <2>2. (a - b) * l >= 0
    BY <1>1, <2>1
  <2>3. (a - b) * l = a * l - b * l
    OBVIOUS
  <2> QED
    BY <2>2, <2>3
<1> QED
  BY <1>2, <1>3

LEMMA DivMod ==
    ASSUME NEW l \in Nat, l > 0, NEW d \in Nat
    PROVE  /\ d \div l \in Int /\ d % l \in Nat /\ d % l < l
           /\ d = (d \div l) * l + (d % l)
<1>1. d \div l \in Int
  OBVIOUS
<1>2. d % l \in 0..(l - 1)
  OBVIOUS
<1>3. d % l \in Nat /\ d % l < l
  BY <1>2
<1>4. d = (d \div l) * l + (d % l)
  OBVIOUS
<1> QED
  BY <1>1, <1>3, <1>4

\* The next link and the last link agree on whether there is a further page.
LEMMA LinksMeet ==
    ASSUME NEW l \in Nat, l > 0, NEW o \in Nat, NEW c \in Nat, o % l = 0
    PROVE  o + l < c <=> o < lastPage(l, c) * l
<1> DEFINE d == IF c > 0 THEN c - 1 ELSE 0
           p == d \div l
           k == o \div l
<1>1. d \in Nat /\ (c > 0 => d = c - 1) /\ (c = 0 => d = 0)
  OBVIOUS
<1>2. lastPage(l, c) = p
  BY DEF lastPage
<1> HIDE DEF d
<1>3. p \in Int /\ d % l \in Nat /\ d % l < l /\ d = p * l + (d % l)
  BY <1>1, DivMod
<1>4. k \in Int /\ o = k * l
  BY DivMod
<1> HIDE DEF p, k
<1> DEFINE pl == p * l
           kl == k * l
           r == d % l
<1>12. \A a \in Int : a * l \in Int
  OBVIOUS
<1>13. pl \in Int /\ kl \in Int
  BY <1>3, <1>4, <1>12, Zenon
<1>5. pl \in Int /\ kl \in Int /\ r \in Nat /\ r < l /\ d = pl + r /\ o = kl
  BY <1>3, <1>4, <1>13, Zenon
<1>6. k < p => kl + l <= pl
  BY <1>3, <1>4, MultiplesOrdered
<1>7. kl < pl => k < p
  BY <1>3, <1>4, MultiplesOrdered
<1>8. p <= k => pl <= kl
  BY <1>3, <1>4, <1>5, <1>7
<1> HIDE DEF pl, kl, r
<1>9. ASSUME o + l < c PROVE o < pl
  BY <1>1, <1>3, <1>4, <1>5, <1>6, <1>8, <1>9
<1>10. ASSUME o < pl PROVE o + l < c
  BY <1>1, <1>3, <1>4, <1>5, <1>6, <1>7, <1>10
<1>11. o < pl <=> o < lastPage(l, c) * l
  BY <1>2 DEF pl
<1> QED
  BY <1>9, <1>10, <1>11

LEMMA IdsFinite ==
    ASSUME NEW S \in SUBSET Id
    PROVE  IsFiniteSet(S) /\ Cardinality(S) \in Nat
  BY ListingAssumption, FS_Subset, FS_CardinalityType

\* What is due after a page comes after it in the order; at the end it is what
\* the count did not know of.
LEMMA FindKeepsWalk ==
    ASSUME ListInv, WalkInv, Find
    PROVE  WalkInv' /\ NoneMissed'
<1>1. PICK items \in pages(query) :
         /\ page' = [code |-> 200, offset |-> getOffset(query),
                     last |-> createLinks(query, total).last,
                     next |-> createLinks(query, total).next,
                     data |-> [i \in DOMAIN items |-> dbRuntoApiRun(query, items[i])]]
         /\ seen' = seen \cup {items[i].id : i \in DOMAIN items}
         /\ UNCHANGED <<table, changes, raced, total, started>>
  BY FindFrame
<1>2. ListTypeOK /\ Begun /\ Due /\ CountLag /\ LinksBind /\ at = "find" /\ page'.code = 200
  BY <1>1 DEF ListInv, WalkInv, Find
<1>3. query \in ApiRunsListParams /\ total \in Nat /\ raced \in Nat
  <2>1. Cardinality(Id) \in Nat
    BY ListingAssumption, FS_CardinalityType
  <2> QED
    BY <1>2, <2>1 DEF ListTypeOK
<1>4. getOffset(query) \in Nat /\ getLimit(query) \in Nat
  BY <1>3, QueryTypes
<1>5. PICK s \in orders(query) :
         \A k \in 1..Len(s) :
            (k > getOffset(query) /\ k <= getOffset(query) + getLimit(query)) =>
                \E i \in DOMAIN items : items[i] = s[k]
  BY <1>2, PageShape
<1>6. /\ Len(s) = Cardinality(matching(query)) /\ Len(s) \in Nat
      /\ \A item \in matching(query) : \E k \in 1..Len(s) : s[k] = item
  BY <1>2, OrderShape
<1> DEFINE last == getOffset(query) + getLimit(query)
<1>7. ASSUME wholeList, NEW item \in table, item.id \in started \ seen'
      PROVE  \E k \in 1..Len(s) : s[k] = item /\ k > last /\ Cardinality(upTo(item)) = k
  <2>1. item.id \in started \ seen
    BY <1>1, <1>7
  <2>2. item \in matching(query) /\ Cardinality(upTo(item)) > getOffset(query)
    BY <1>2, <1>7, <2>1 DEF Due
  <2>3. PICK k \in 1..Len(s) : s[k] = item
    BY <1>6, <2>2
  <2>4. Cardinality(upTo(item)) = k
    BY <1>2, <1>7, <2>3, PlaceIsRank DEF wholeList
  <2>5. k > getOffset(query)
    BY <2>2, <2>4
  <2>6. ~(k <= last)
    <3> SUFFICES ASSUME k <= last PROVE FALSE
      OBVIOUS
    <3>1. PICK i \in DOMAIN items : items[i] = item
      BY <1>5, <2>3, <2>5
    <3> QED
      BY <1>1, <1>7, <3>1
  <2>7. k > last
    BY <1>4, <1>6, <2>6
  <2> QED
    BY <2>3, <2>4, <2>7
<1>8. Begun'
  BY <1>1, <1>2 DEF Begun, ids
<1>9. LinksBind'
  BY <1>2, FollowsLink DEF LinksBind
<1>10. CountLag'
  BY FollowsLink DEF CountLag
<1>11. wholeList' <=> wholeList
  BY FollowsLink DEF wholeList
<1>12. Due'
  <2> SUFFICES ASSUME wholeList, at' # "end", NEW item \in table, item.id \in started \ seen'
               PROVE  item \in matching(query)' /\ Cardinality(upTo(item)') > getOffset(query')
    BY <1>1, <1>11 DEF Due
  <2>1. \A x : where(query', x) <=> where(query, x)
    BY FollowsLink, WhereOfLink
  <2>2. matching(query)' = matching(query)
    BY <1>1, <2>1 DEF matching
  <2>3. \A x : mayPrecede(query', x, item) <=> mayPrecede(query, x, item)
    BY FollowsLink DEF mayPrecede
  <2>4. upTo(item)' = upTo(item)
    BY <2>2, <2>3 DEF upTo, ids
  <2>5. PICK k \in 1..Len(s) : s[k] = item /\ k > last /\ Cardinality(upTo(item)) = k
    BY <1>7
  <2>6. getOffset(query') = last
    BY FollowsLink
  <2>7. item \in matching(query)
    BY <1>1, <1>2, <1>7 DEF Due
  <2> QED
    BY <2>2, <2>4, <2>5, <2>6, <2>7
<1>13. NoneMissed'
  <2> SUFFICES ASSUME wholeList, at' = "end"
               PROVE  Cardinality(started \ seen') <= raced
    BY <1>1, <1>11 DEF NoneMissed, wholeList
  <2>1. total <= last
    BY FollowsLink
  <2>2. Len(s) <= total + raced
    <3>1. matching(query) \in SUBSET table
      BY DEF matching
    <3> QED
      BY <1>2, <1>6, <3>1, CountedByIds DEF CountLag
  <2> DEFINE rest == (total + 1)..Len(s)
             late == {s[k].id : k \in rest}
             f == [k \in rest |-> s[k].id]
  <2>3. started \ seen' \subseteq late
    <3> SUFFICES ASSUME NEW x \in started \ seen' PROVE x \in late
      OBVIOUS
    <3>1. PICK item \in table : item.id = x
      BY <1>2 DEF Begun, ids
    <3>2. PICK k \in 1..Len(s) : s[k] = item /\ k > last
      BY <1>7, <3>1
    <3>3. k \in rest
      BY <1>3, <1>4, <1>6, <2>1, <3>2
    <3> QED
      BY <3>1, <3>2, <3>3
  <2>4. f \in Surjection(rest, late)
    BY DEF Surjection
  <2>5. IsFiniteSet(rest) /\ Cardinality(rest) <= raced
    <3>1. total + 1 \in Int /\ Len(s) \in Int
      BY <1>3, <1>6
    <3>2. /\ IsFiniteSet(rest)
          /\ Cardinality(rest) = IF total + 1 > Len(s) THEN 0 ELSE Len(s) - (total + 1) + 1
      BY <3>1, FS_Interval
    <3> HIDE DEF rest
    <3> QED
      BY <1>3, <1>6, <2>2, <3>2
  <2> HIDE DEF rest, f, late
  <2>6. IsFiniteSet(late) /\ Cardinality(late) <= Cardinality(rest)
    BY <2>4, <2>5, FS_Surjection
  <2>7. /\ Cardinality(late) \in Nat /\ Cardinality(rest) \in Nat
        /\ Cardinality(started \ seen') \in Nat
        /\ Cardinality(started \ seen') <= Cardinality(late)
    BY <2>3, <2>5, <2>6, FS_Subset, FS_CardinalityType
  <2> QED
    BY <1>3, <2>5, <2>6, <2>7
<1> QED
  BY <1>8, <1>9, <1>10, <1>12, <1>13 DEF WalkInv

\* New items push what is due further back, and the count falls behind by one.
LEMMA CreateKeepsWalk ==
    ASSUME ListInv, WalkInv, Create
    PROVE  WalkInv'
<1>1. PICK new \in Run : new.id \notin ids(table) /\ table' = table \cup {new}
  BY CreateFrame
<1>2. /\ at # "end" /\ UNCHANGED <<at, query, total, page, started, seen>>
      /\ raced' \in {raced, raced + 1} /\ (at = "find" => raced' = raced + 1)
  BY CreateFrame DEF walk
<1>3. ListTypeOK /\ Begun /\ Due /\ CountLag /\ LinksBind
  BY DEF ListInv, WalkInv
<1>4. \A x \in table : x \in Run
  BY <1>3 DEF ListTypeOK
<1>5. ids(table) \subseteq ids(table') /\ ids(table') \subseteq Id
  BY <1>1, <1>4, ItemTypes DEF ids
<1>6. Begun'
  BY <1>2, <1>3, <1>5 DEF Begun, wholeList, ids
<1>7. /\ matching(query) \subseteq matching(query)'
      /\ matching(query)' \subseteq matching(query) \cup {new}
      /\ matching(query)' \subseteq table'
  BY <1>1, <1>2 DEF matching
<1>8. Due'
  <2> SUFFICES ASSUME wholeList, NEW item \in table', item.id \in started \ seen
               PROVE  item \in matching(query)' /\ Cardinality(upTo(item)') > getOffset(query)
    BY <1>2 DEF Due, wholeList
  <2>1. item \in table
    BY <1>1, <1>3 DEF Begun
  <2>2. item \in matching(query) /\ Cardinality(upTo(item)) > getOffset(query)
    BY <1>2, <1>3, <2>1 DEF Due
  <2>3. upTo(item) \subseteq upTo(item)' /\ upTo(item)' \subseteq Id
    BY <1>2, <1>5, <1>7 DEF upTo, ids
  <2>4. upTo(item) \subseteq Id
    BY <2>3
  <2>5. /\ Cardinality(upTo(item)) \in Nat /\ Cardinality(upTo(item)') \in Nat
        /\ Cardinality(upTo(item)) <= Cardinality(upTo(item)')
    BY <2>3, <2>4, IdsFinite, FS_Subset
  <2>6. getOffset(query) \in Nat
    BY <1>3, QueryTypes DEF ListTypeOK
  <2> QED
    BY <1>7, <2>2, <2>5, <2>6
<1>9. CountLag'
  <2> SUFFICES ASSUME wholeList, at = "find"
               PROVE  Cardinality(ids(matching(query))') <= total + raced'
    BY <1>2 DEF CountLag, wholeList
  <2> DEFINE S == ids(matching(query))
  <2>1. S \subseteq Id /\ ids(matching(query))' \subseteq S \cup {new.id}
    BY <1>5, <1>7 DEF ids
  <2>2. S \cup {new.id} \subseteq Id
    BY <2>1, ItemTypes
  <2>3. IsFiniteSet(S) /\ Cardinality(S) \in Nat
    BY <2>1, IdsFinite
  <2>4. /\ IsFiniteSet(S \cup {new.id}) /\ Cardinality(S \cup {new.id}) \in Nat
        /\ Cardinality(S \cup {new.id}) <= Cardinality(S) + 1
    BY <2>2, <2>3, IdsFinite, FS_AddElement
  <2>5. Cardinality(S) <= total + raced
    BY <1>3 DEF CountLag
  <2>6. total \in Nat /\ raced \in Nat
    <3>1. Cardinality(Id) \in Nat
      BY ListingAssumption, FS_CardinalityType
    <3> QED
      BY <1>3, <3>1 DEF ListTypeOK
  <2>7. ids(matching(query))' \subseteq Id
    BY <2>1, <2>2
  <2> HIDE DEF S
  <2>8. /\ Cardinality(ids(matching(query))') \in Nat
        /\ Cardinality(ids(matching(query))') <= Cardinality(S \cup {new.id})
    BY <2>1, <2>4, <2>7, IdsFinite, FS_Subset
  <2> QED
    BY <1>2, <2>3, <2>4, <2>5, <2>6, <2>8
<1>10. LinksBind'
  BY <1>2, <1>3 DEF LinksBind
<1> QED
  BY <1>6, <1>8, <1>9, <1>10 DEF WalkInv

\* Runs that end or expire keep their place in a list that is not filtered by
\* status.
LEMMA ChangeKeepsWalk ==
    ASSUME ListInv, WalkInv, Change
    PROVE  WalkInv'
<1>1. PICK item \in table : \E new : Becomes(item, new) /\ table' = (table \ {item}) \cup {new}
  BY ChangeFrame
<1>2. PICK new : Becomes(item, new) /\ table' = (table \ {item}) \cup {new}
  BY <1>1
<1>3. UNCHANGED <<raced, at, query, total, page, started, seen>>
  BY ChangeFrame DEF walk
<1>4. ListTypeOK /\ Begun /\ Due /\ CountLag /\ LinksBind
  BY DEF ListInv, WalkInv
<1>5. new.id = item.id /\ new.kind = item.kind /\ new.created = item.created
  BY <1>2 DEF Becomes
<1>6. \A x \in table' : \E y \in table : /\ x.id = y.id /\ x.kind = y.kind
                                         /\ x.created = y.created
  BY <1>2, <1>5
<1>7. \A y \in table : \E x \in table' : /\ x.id = y.id /\ x.kind = y.kind
                                         /\ x.created = y.created
  BY <1>2, <1>5
<1>8. ids(table') = ids(table)
  BY <1>6, <1>7 DEF ids
<1>9. Begun'
  BY <1>3, <1>4, <1>8 DEF Begun, wholeList, ids
<1>10. \A a, b, x, y : (a.id = b.id /\ a.created = b.created /\ x.id = y.id /\ x.created = y.created)
          => (mayPrecede(query, a, x) <=> mayPrecede(query, b, y))
  BY DEF mayPrecede
<1>11. ASSUME wholeList PROVE \A a, b : a.kind = b.kind => (where(query, a) <=> where(query, b))
  BY <1>11, WhereOfKind DEF wholeList
<1>12. ASSUME wholeList PROVE ids(matching(query))' = ids(matching(query))
  <2>1. ids(matching(query))' = {x.id : x \in {z \in table' : where(query, z)}}
    BY <1>3 DEF ids, matching
  <2>2. ids(matching(query)) = {x.id : x \in {z \in table : where(query, z)}}
    BY DEF ids, matching
  <2> QED
    BY <1>6, <1>7, <1>11, <1>12, <2>1, <2>2
<1>13. ASSUME wholeList, NEW x, NEW y, x.id = y.id, x.created = y.created
       PROVE  upTo(x)' = upTo(y)
  <2>1. upTo(x)' = {o.id : o \in {z \in table' : where(query, z) /\ mayPrecede(query, z, x)}}
    BY <1>3 DEF upTo, ids, matching
  <2>2. upTo(y) = {o.id : o \in {z \in table : where(query, z) /\ mayPrecede(query, z, y)}}
    BY DEF upTo, ids, matching
  <2>3. ASSUME NEW u \in upTo(x)' PROVE u \in upTo(y)
    <3>1. PICK z \in table' : where(query, z) /\ mayPrecede(query, z, x) /\ u = z.id
      BY <2>1, <2>3
    <3>2. PICK v \in table : z.id = v.id /\ z.kind = v.kind /\ z.created = v.created
      BY <1>6
    <3>3. where(query, v) /\ mayPrecede(query, v, y)
      BY <1>10, <1>11, <1>13, <3>1, <3>2
    <3> QED
      BY <2>2, <3>1, <3>2, <3>3
  <2>4. ASSUME NEW u \in upTo(y) PROVE u \in upTo(x)'
    <3>1. PICK z \in table : where(query, z) /\ mayPrecede(query, z, y) /\ u = z.id
      BY <2>2, <2>4
    <3>2. PICK v \in table' : v.id = z.id /\ v.kind = z.kind /\ v.created = z.created
      BY <1>7
    <3>3. where(query, v) /\ mayPrecede(query, v, x)
      BY <1>10, <1>11, <1>13, <3>1, <3>2
    <3> QED
      BY <2>1, <3>1, <3>2, <3>3
  <2> QED
    BY <2>3, <2>4
<1>14. Due'
  <2> SUFFICES ASSUME wholeList, at # "end", NEW x \in table', x.id \in started \ seen
               PROVE  x \in matching(query)' /\ Cardinality(upTo(x)') > getOffset(query)
    BY <1>3 DEF Due, wholeList
  <2>1. PICK y \in table : x.id = y.id /\ x.kind = y.kind /\ x.created = y.created
    BY <1>6
  <2>2. y \in matching(query) /\ Cardinality(upTo(y)) > getOffset(query)
    BY <1>4, <2>1 DEF Due
  <2>3. where(query, x)
    BY <1>11, <2>1, <2>2 DEF matching
  <2>4. x \in matching(query)'
    BY <1>3, <2>3 DEF matching
  <2>5. upTo(x)' = upTo(y)
    BY <1>13, <2>1
  <2> QED
    BY <2>2, <2>4, <2>5
<1>15. CountLag'
  BY <1>3, <1>4, <1>12 DEF CountLag, wholeList
<1>16. LinksBind'
  BY <1>3, <1>4 DEF LinksBind
<1> QED
  BY <1>9, <1>14, <1>15, <1>16 DEF WalkInv

\* With the first count everything that matches is due, from the first page on.
LEMMA CountKeepsWalk ==
    ASSUME ListInv, WalkInv, Count
    PROVE  WalkInv'
<1>1. /\ at = "count" /\ at' = "find" /\ total' = Cardinality(matching(query)) /\ raced' = 0
      /\ started' = IF page.code = 0 THEN ids(matching(query)) ELSE started
      /\ UNCHANGED <<table, changes, query, page, seen>>
  BY DEF Count
<1>2. ListTypeOK /\ Begun /\ Due /\ CountLag /\ LinksBind
  BY DEF ListInv, WalkInv
<1>3. matching(query) \in SUBSET table /\ matching(query)' = matching(query)
  BY <1>1 DEF matching
<1>4. ids(matching(query)) \subseteq ids(table)
  BY <1>3 DEF ids
<1>5. Begun'
  BY <1>1, <1>2, <1>4 DEF Begun, wholeList, ids
<1>6. CountLag'
  <2>1. Cardinality(ids(matching(query))) = Cardinality(matching(query))
        /\ Cardinality(matching(query)) \in Nat
    BY <1>2, <1>3, CountedByIds
  <2>2. ids(matching(query))' = ids(matching(query))
    BY <1>1, <1>3 DEF ids
  <2> QED
    BY <1>1, <2>1, <2>2 DEF CountLag
<1>7. Due'
  <2> SUFFICES ASSUME wholeList, NEW item \in table, item.id \in started' \ seen
               PROVE  item \in matching(query) /\ Cardinality(upTo(item)) > getOffset(query)
    <3>1. \A item : upTo(item)' = upTo(item)
      BY <1>1, <1>3 DEF upTo, ids
    <3> QED
      BY <1>1, <1>3, <3>1 DEF Due, wholeList
  <2>1. CASE page.code # 0
    BY <1>1, <1>2, <2>1 DEF Due
  <2>2. CASE page.code = 0
    <3>1. getOffset(query) = 0
      BY <1>2, <2>2 DEF Begun
    <3>2. PICK other \in matching(query) : other.id = item.id
      BY <1>1, <2>2 DEF ids
    <3>3. item \in matching(query)
      BY <1>2, <1>3, <3>2 DEF ListTypeOK
    <3>4. item \in Run
      BY <1>2 DEF ListTypeOK
    <3>5. item.id \in upTo(item)
      BY <3>3, <3>4, PrecedeReflexive DEF upTo, ids
    <3>6. IsFiniteSet(upTo(item)) /\ Cardinality(upTo(item)) \in Nat
      BY <1>2, UpToFinite
    <3>7. Cardinality(upTo(item)) # 0
      BY <3>5, <3>6, FS_EmptySet
    <3> QED
      BY <3>1, <3>3, <3>6, <3>7
  <2> QED
    BY <2>1, <2>2
<1>8. LinksBind'
  BY <1>1, <1>2 DEF LinksBind
<1> QED
  BY <1>5, <1>6, <1>7, <1>8 DEF WalkInv

\* What is read has been validated, and a link has the limit and the parameters of
\* its request.
LEMMA FindKeepsLimits ==
    ASSUME ListInv, Find
    PROVE  LimitsChecked'
<1>1. query \in ApiRunsListParams /\ refusal(query) = 0 /\ ~linksPanic(query)
  BY DEF ListInv, ListTypeOK, Paged, Find
<1>2. ~schemaFails(query)
  BY <1>1 DEF refusal
<1>3. /\ query'.list = query.list /\ query'.service = query.service
      /\ query'.params = query.params /\ getLimit(query') = getLimit(query)
      /\ query' = query \/ query'.limit = getLimit(query)
  <2>1. \A o : createLink(query, o).limit = getLimit(query)
    BY <1>1 DEF createLink, internalLink, publicLink, ApiRunsListParams
  <2> QED
    BY <2>1, FollowsLink, FindFrame
<1>4. ~linksPanic(query') /\ (hidden(query') <=> hidden(query))
  BY <1>1, <1>3 DEF linksPanic, hidden
<1>5. badLimit(query') => badLimit(query)
  <2>1. DefaultLimit \in 1..MaxLimit /\ None \notin 1..MaxLimit
    BY ListingAssumption DEF None
  <2> QED
    BY <1>3, <2>1 DEF badLimit, getLimit
<1> QED
  BY <1>2, <1>4, <1>5 DEF LimitsChecked, schemaFails

\* Every step keeps the walk complete.
LEMMA NextKeepsWalk ==
    ASSUME ListInv, WalkInv, WalkComplete, [ListNext]_listVars
    PROVE  WalkInv' /\ WalkComplete'
<1> USE DEF WalkComplete
<1>1. ASSUME NEW c \in {400, 403, 500}, page' = emptyPage(c), at' = "end",
             UNCHANGED <<table, changes, raced, query, total, started, seen>>,
             (query.list # "internal" /\ c = 400) => parseFails(query) \/ badLimit(query)
      PROVE  WalkInv' /\ WalkComplete'
  <2>1. page'.code = c
    BY <1>1 DEF emptyPage
  <2>2. WalkInv'
    BY <1>1, <2>1 DEF WalkInv, Begun, Due, CountLag, LinksBind, ids, wholeList
  <2>3. NoneMissed' /\ LinksAgree' /\ LimitsChecked'
    BY <1>1, <2>1 DEF NoneMissed, LinksAgree, LimitsChecked
  <2>4. LinksValid'
    BY <1>1, <2>1 DEF LinksValid
  <2> QED
    BY <2>2, <2>3, <2>4
<1>2. CASE Refuse
  <2>1. refusal(query) \in {400, 403, 500}
    BY <1>2, RefusalCodes DEF Refuse
  <2>2. ASSUME query.list # "internal", refusal(query) = 400
        PROVE  parseFails(query) \/ badLimit(query)
    <3>1. query.given \in Nat /\ query.given <= 1
      BY <2>2, QueryTypes DEF ListInv, ListTypeOK, WalkInv, LinksBind
    <3> QED
      BY <2>2, <3>1 DEF refusal, bindFails, schemaFails
  <2> QED
    BY <1>1, <1>2, <2>1, <2>2 DEF Refuse
<1>3. CASE FindPanics \/ ReadFails
  BY <1>1, <1>3 DEF FindPanics, ReadFails
<1>4. CASE Count
  <2>1. WalkInv'
    BY <1>4, CountKeepsWalk
  <2>2. at' = "find" /\ UNCHANGED <<query, page>>
    BY <1>4 DEF Count
  <2> QED
    BY <2>1, <2>2 DEF NoneMissed, LinksAgree, LinksValid, LimitsChecked
<1>5. CASE Find
  <2>1. WalkInv' /\ NoneMissed'
    BY <1>5, FindKeepsWalk
  <2>2. /\ page'.code = 200 /\ page'.offset = getOffset(query)
        /\ page'.last = createLinks(query, total).last
        /\ page'.next = createLinks(query, total).next
    BY <1>5, FindFrame
  <2>3. query \in ApiRunsListParams /\ total \in Nat
    <3>1. Cardinality(Id) \in Nat
      BY ListingAssumption, FS_CardinalityType
    <3> QED
      BY <3>1 DEF ListInv, ListTypeOK
  <2>4. getLimit(query) \in Nat /\ getOffset(query) \in Nat
    BY <2>3, QueryTypes
  <2>5. createLinks(query, total).last = lastPage(getLimit(query), total) * getLimit(query)
    BY DEF createLinks
  <2>6. createLinks(query, total).next # None <=> getOffset(query) + getLimit(query) < total
    BY <2>3, <2>4, NextLink
  <2>7. (getLimit(query) > 0 /\ getOffset(query) % getLimit(query) = 0) =>
           (getOffset(query) + getLimit(query) < total <=>
              getOffset(query) < lastPage(getLimit(query), total) * getLimit(query))
    BY <2>3, <2>4, LinksMeet
  <2>8. getLimit(query') = getLimit(query)
    BY <1>5, FollowsLink
  <2>9. LinksAgree'
    BY <2>2, <2>5, <2>6, <2>7, <2>8 DEF LinksAgree
  <2>10. LinksValid'
    BY <2>2 DEF LinksValid
  <2>11. LimitsChecked'
    BY <1>5, FindKeepsLimits
  <2> QED
    BY <2>1, <2>9, <2>10, <2>11
<1>6. CASE Create
  <2>1. at' # "end" /\ UNCHANGED <<query, page>>
    BY <1>6, CreateFrame DEF walk
  <2> QED
    BY <1>6, <2>1, CreateKeepsWalk DEF NoneMissed, LinksAgree, LinksValid, LimitsChecked
<1>7. CASE Change
  <2>1. at' # "end" /\ UNCHANGED <<query, page>>
    BY <1>7, ChangeFrame DEF walk
  <2> QED
    BY <1>7, <2>1, ChangeKeepsWalk DEF NoneMissed, LinksAgree, LinksValid, LimitsChecked
<1>8. CASE UNCHANGED listVars
  <2>1. UNCHANGED <<table, raced, at, query, total, page, started, seen>>
    BY <1>8 DEF listVars, walk
  <2>2. UNCHANGED <<matching(query), ids(matching(query)), ids(table)>>
    BY <2>1 DEF matching, ids
  <2>3. \A item : upTo(item)' = upTo(item)
    BY <2>1, <2>2 DEF upTo, ids
  <2>4. WalkInv'
    BY <2>1, <2>2, <2>3 DEF WalkInv, Begun, Due, CountLag, LinksBind, wholeList
  <2> QED
    BY <2>1, <2>4 DEF NoneMissed, LinksAgree, LinksValid, LimitsChecked
<1> QED
  BY <1>2, <1>3, <1>4, <1>5, <1>6, <1>7, <1>8 DEF ListNext, Change

\* A client that walks a list of runs from its beginning sees every run that was
\* there when it began, except for at most as many as were created between the
\* last count and its page; the next and last links agree, and no link of the
\* public lists is refused as a bad request unless the client's own limit, field or
\* id was wrong (createLinks, publicLink and the sort by creation time and id); a
\* limit that the validator saw and does not allow gets no page.
THEOREM WalkSeesAll ==
    ASSUME FromBeginning
    PROVE  ListSpec => []WalkComplete
<1>1. ListInit => WalkInv /\ WalkComplete
  <2> SUFFICES ASSUME ListInit PROVE WalkInv /\ WalkComplete
    OBVIOUS
  <2>1. /\ table = {} /\ at = "count" /\ query \in Walks /\ started = {} /\ seen = {}
        /\ page = emptyPage(0)
    BY DEF ListInit
  <2>2. page.code = 0
    BY <2>1 DEF emptyPage
  <2>3. LinksBind /\ (wholeList => getOffset(query) = 0)
    BY <2>1, FromBeginning DEF FromBeginning, LinksBind, wholeList
  <2>4. WalkInv
    BY <2>1, <2>2, <2>3 DEF WalkInv, Begun, Due, CountLag
  <2> QED
    BY <2>1, <2>2, <2>4 DEF WalkComplete, NoneMissed, LinksAgree, LinksValid,
                          LimitsChecked
<1>2. ListInv /\ WalkInv /\ WalkComplete /\ [ListNext]_listVars => WalkInv' /\ WalkComplete'
  BY NextKeepsWalk
<1> QED
  BY <1>1, <1>2, ListInvariant, PTL DEF ListSpec

-----------------------------------------------------------------------------
(* The API as a whole: a request or a walk is followed, the other is at rest *)

LEMMA RequestStays == AuthorizationAtRest /\ [Next]_vars => AuthorizationAtRest'
<1> SUFFICES ASSUME AuthorizationAtRest, [Next]_vars PROVE AuthorizationAtRest'
  OBVIOUS
<1>1. pc = "answered"
  BY DEF AuthorizationAtRest
<1>2. ~Next
  <2>1. ~EnforceIdentityType /\ ~ChooseMode
    BY <1>1, Zenon DEF EnforceIdentityType, ChooseMode
  <2>2. ~AskRbac /\ ~GetWorkspaceID
    BY <1>1, Zenon DEF AskRbac, GetWorkspaceID
  <2>3. ~Attempt /\ ~TokenBackoff /\ ~Backoff
    BY <1>1, Zenon DEF Attempt, TokenBackoff, Backoff
  <2>4. ~WorkspaceFound /\ ~WorkspaceRefused /\ ~WorkspaceFails
    BY <1>1, Zenon DEF WorkspaceFound, WorkspaceRefused, WorkspaceFails
  <2>5. ~CheckPanics /\ ~Check /\ ~CheckFails
    BY <1>1, Zenon DEF CheckPanics, Check, CheckFails
  <2>6. ~GetToken /\ ~StartChecks
    BY <1>1, Zenon DEF GetToken, TokenAcquired, TokenFails, StartChecks
  <2>7. ~Cancel /\ ~PollFlags /\ ~Close
    BY <1>1, Zenon DEF Cancel, PollFlags, Close
  <2> QED
    BY <2>1, <2>2, <2>3, <2>4, <2>5, <2>6, <2>7, Zenon DEF Next, Bounded
<1>3. UNCHANGED vars
  BY <1>2
<1> QED BY <1>3 DEF vars, AuthorizationAtRest

LEMMA RequestRestTyped == AuthorizationAtRest => TypeOK
<1> SUFFICES ASSUME AuthorizationAtRest PROVE TypeOK
  OBVIOUS
<1>1. polls \in 0..MaxPolls
  <2>1. polls = 0
    BY Zenon DEF AuthorizationAtRest
  <2> QED BY <2>1, MaxPollsAssumption
<1>2. req.mode = "" /\ req.attempt = 0 /\ req.tokenTry = 0
  <2>1. req = [who |-> [type |-> "User", id |-> TRUE], mode |-> "", asked |-> FALSE,
               permissions |-> {}, tokenTimeout |-> FALSE, attempt |-> 0, tokenTry |-> 0]
    BY Zenon DEF AuthorizationAtRest
  <2> QED BY <2>1
<1>3. said.yes = {} /\ said.no = {} /\ answer.code = 0
  <2>1. said = [yes |-> {}, no |-> {}] /\ answer = [code |-> 0, services |-> {}]
    BY Zenon DEF AuthorizationAtRest
  <2> QED BY <2>1
<1>4. manager = "none" /\ pc = "answered"
  BY Zenon DEF AuthorizationAtRest
<1>5. 0 \in 0..maxRetries /\ 0 \in 0..MaxTokenMaxRetries
  BY DEF maxRetries, MaxTokenMaxRetries
<1> QED BY <1>1, <1>2, <1>3, <1>4, <1>5 DEF TypeOK

LEMMA WalkStays == ListsAtRest /\ [ListNext]_listVars => ListsAtRest'
<1> SUFFICES ASSUME ListsAtRest, [ListNext]_listVars PROVE ListsAtRest'
  OBVIOUS
<1>1. at = "end"
  BY DEF ListsAtRest
<1>2. ~ListNext
  BY <1>1 DEF ListNext, Refuse, Count, Find, FindPanics, ReadFails, Create, Respond, TimeOut, Expire,
                change
<1>3. UNCHANGED listVars
  BY <1>2
<1> QED BY <1>3 DEF listVars, walk, ListsAtRest, emptyPage

LEMMA WalkRestTyped == ListsAtRest => ListTypeOK
<1> SUFFICES ASSUME ListsAtRest PROVE ListTypeOK
  OBVIOUS
<1>1. query \in ApiRunsListParams
  BY WalksAssumption, ListingAssumption DEF ListsAtRest
<1>2. 0 \in 0..MaxChanges[query.list] /\ 0 \in 0..Cardinality(Id)
  <2>1. Cardinality(Id) \in Nat
    BY ListingAssumption, FS_CardinalityType
  <2>2. MaxChanges[query.list] \in Nat
    BY <1>1, ListingAssumption, QueryTypes
  <2> QED BY <2>1, <2>2
<1>3. page.code = 0
  BY DEF ListsAtRest, emptyPage
<1> HIDE DEF Newest
<1> QED BY <1>1, <1>2, <1>3 DEF ListsAtRest, ListTypeOK

ApiInv == (Inv \/ AuthorizationAtRest) /\ (ListInv \/ ListsAtRest)

\* The variables of a request on its way through authorization and of a walk
\* over a list keep their types: the counters of retries stay within their
\* bounds, a table has no two items with one id, and the count and the links of
\* a page are numbers of items (Authorization, Listing).
THEOREM ApiTypesCorrect == ApiSpec => []TypesOK
<1>1. ApiInit => ApiInv
  BY InvInit, InitList, Zenon DEF ApiInit, ApiInv
<1>2. ApiInv /\ [ApiNext]_<<vars, listVars>> => ApiInv'
  <2> SUFFICES ASSUME ApiInv, [ApiNext]_<<vars, listVars>> PROVE ApiInv'
    OBVIOUS
  <2>1. [Next]_vars /\ [ListNext]_listVars
    BY DEF ApiNext
  <2>2. (Inv \/ AuthorizationAtRest)'
    BY <2>1, InvNext, RequestStays DEF ApiInv
  <2>3. (ListInv \/ ListsAtRest)'
    BY <2>1, NextKeepsList, WalkStays DEF ApiInv
  <2> QED BY <2>2, <2>3 DEF ApiInv
<1>3. ApiInv => TypesOK
  <2>1. ListInv => ListTypeOK
    BY DEF ListInv
  <2> QED BY <2>1, InvTyped, RequestRestTyped, WalkRestTyped DEF ApiInv, TypesOK
<1> QED BY <1>1, <1>2, <1>3, PTL DEF ApiSpec
=============================================================================
