------------------------------ MODULE MCServices ------------------------------
(*****************************************************************************)
(* The services around the agent and what they store for their users or pass *)
(* on to them, one part at a time: `part` names the component a behaviour    *)
(* exercises, and the variables of the others keep their initial values.     *)
(*****************************************************************************)
EXTENDS Listing, Middleware, WorkingMemory, ProxyGate, GeneratedCode,
        Accounts, Hub, Messaging, HotReload, TLC

CONSTANTS u1, u2, h1, h2, m1, m2, m3, c1, c2, c3, x1, x2, i1, i2, i3, k1, k2

VARIABLE part

MCOwner == m1 :> h1 @@ m2 :> h2 @@ m3 :> SystemUser
MCTexts == { <<"fence", "code", "fence", "prose">>, <<"half1", "half2", "code", "fence">> }
MCRiskyTexts == { t \in MCTexts : t[1] = "fence" }
MCBackendAnswers == { <<>>, << Finding("injection", "low") >> }
MCLLMFindings == { Finding(c, s) : c \in { "injection", "logic" }, s \in { "critical", "low" } }
MCLLMAnswers == { <<>> } \cup { <<f>> : f \in MCLLMFindings }
    \cup { <<f, g>> : f \in MCLLMFindings, g \in MCLLMFindings }
MCPlaces == { [snippet |-> s, nosec |-> FALSE] : s \in { "literal", "declaration" } }
    \cup { [snippet |-> "other", nosec |-> TRUE] }
MCDeepAnswers == { <<>>, << Finding("logic", "critical"), Finding("logic", "low") >> }
MCPromptOf == c1 :> x1 @@ c2 :> x1 @@ c3 :> x2
MCKeyOf == i1 :> k1 @@ i2 :> k1 @@ i3 :> k2
MCLockoutDurations == <<1, 2>>
MCSymmetry == Permutations({ u1, u2 })

servicesVars == <<listingVars, cacheVars, memoryVars, proxyVars, gatewayVars,
                  checked, pipelineVars, loginVars, sessionVars, keyVars, hubVars,
                  hookVars, queueVars, idemVars, rateVars, reloadVars, flagVars,
                  part>>

\* A part that is not exercised starts in one state.
ServicesInit ==
    /\ part \in { "listing", "cache", "memory", "proxy", "engines", "scans", "pipeline",
                 "login", "sessions", "keys", "hub", "webhooks", "queue", "idempotency", "limits", "reload", "flags" }
    /\ ResponseCacheInit /\ WorkingMemoryInit /\ ProxyGateInit /\ DualEngineInit
    /\ RequestPipelineInit /\ SessionsInit /\ APIKeysInit /\ HubInit /\ WebhooksInit
    /\ TaskQueueInit /\ IdempotencyInit /\ RateLimitsInit /\ HotReloadInit
    /\ ListingInit /\ (part # "listing" => matching = {} /\ walk.mode = "page")
    /\ LoginGuardInit /\ (part # "login" => store = "memory")

\* The parts other than p stand still.
Others(p) ==
    /\ UNCHANGED part
    /\ IF p = "listing" THEN TRUE ELSE UNCHANGED listingVars
    /\ IF p = "cache" THEN TRUE ELSE UNCHANGED cacheVars
    /\ IF p = "memory" THEN TRUE ELSE UNCHANGED memoryVars
    /\ IF p = "proxy" THEN TRUE ELSE UNCHANGED proxyVars
    /\ IF p = "engines" THEN TRUE ELSE UNCHANGED gatewayVars
    /\ IF p = "scans" THEN TRUE ELSE UNCHANGED checked
    /\ IF p = "pipeline" THEN TRUE ELSE UNCHANGED pipelineVars
    /\ IF p = "login" THEN TRUE ELSE UNCHANGED loginVars
    /\ IF p = "sessions" THEN TRUE ELSE UNCHANGED sessionVars
    /\ IF p = "keys" THEN TRUE ELSE UNCHANGED keyVars
    /\ IF p = "hub" THEN TRUE ELSE UNCHANGED hubVars
    /\ IF p = "webhooks" THEN TRUE ELSE UNCHANGED hookVars
    /\ IF p = "queue" THEN TRUE ELSE UNCHANGED queueVars
    /\ IF p = "idempotency" THEN TRUE ELSE UNCHANGED idemVars
    /\ IF p = "limits" THEN TRUE ELSE UNCHANGED rateVars
    /\ IF p = "reload" THEN TRUE ELSE UNCHANGED reloadVars
    /\ IF p = "flags" THEN TRUE ELSE UNCHANGED flagVars

ServicesNext ==
    \/ part = "listing" /\ ListingNext /\ Others("listing")
    \/ part = "cache" /\ ResponseCacheNext /\ Others("cache")
    \/ part = "memory" /\ WorkingMemoryNext /\ Others("memory")
    \/ part = "proxy" /\ ProxyGateNext /\ Others("proxy")
    \/ part = "engines" /\ GatewayNext /\ Others("engines")
    \/ part = "scans" /\ EndpointsNext /\ Others("scans")
    \/ part = "pipeline" /\ RequestPipelineNext /\ Others("pipeline")
    \/ part = "login" /\ LoginGuardNext /\ Others("login")
    \/ part = "sessions" /\ SessionsNext /\ Others("sessions")
    \/ part = "keys" /\ APIKeysNext /\ Others("keys")
    \/ part = "hub" /\ HubNext /\ Others("hub")
    \/ part = "webhooks" /\ WebhooksNext /\ Others("webhooks")
    \/ part = "queue" /\ TaskQueueNext /\ Others("queue")
    \/ part = "idempotency" /\ IdempotencyNext /\ Others("idempotency")
    \/ part = "limits" /\ RateLimitsNext /\ Others("limits")
    \/ part = "reload" /\ HotReloadNext /\ Others("reload")
    \/ part = "flags" /\ FlagsNext /\ Others("flags")

ServicesSpec == ServicesInit /\ [][ServicesNext]_servicesVars
================================================================================
