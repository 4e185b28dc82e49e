------------------------------ MODULE Startup ------------------------------
(***************************************************************************)
(* From the configuration file to a gateway that serves (main.rs,          *)
(* app_state.rs).  AppState::new compiles one policy per tenant into a     *)
(* map; the session code later finds the policy of a tenant in this map    *)
(* and the limits of the tenant in the list of the configuration.          *)
(***************************************************************************)
EXTENDS Config, Integers, FiniteSetsExt

CONSTANTS
    Documents,   \* what the configuration file may hold
    Examples     \* those that the documentation and the tests give as valid

ASSUME DocumentsAssumption ==
    /\ Examples \subseteq Documents
    /\ \A doc \in Documents :
         LET tenants == Written(doc, "tenants", <<>>)
         IN  Len(tenants) \in Nat /\ DOMAIN tenants = 1 .. Len(tenants)

VARIABLES
    document,       \* what wsprism.yaml holds
    stage,          \* "load", "compile", "serving" or "exited"
    cfg,            \* AppStateInner::cfg, Nothing until the file is loaded
    tenant_policy   \* AppStateInner::tenant_policy

startupVars == <<document, stage, cfg, tenant_policy>>

\* TenantPolicyRuntime::new.
PolicyCompiles(t) ==
    ExtCompiles(t.policy.ext_allowlist) /\ HotCompiles(t.policy.hot_allowlist)
Runtime(t) ==
    [tenant_id |-> t.id, max_frame_bytes |-> t.limits.max_frame_bytes,
     ext_rules |-> {ExtRule(raw) : raw \in t.policy.ext_allowlist},
     hot_rules |-> {HotRule(raw) : raw \in t.policy.hot_allowlist},
     rps |-> t.policy.rate_limit_rps, burst |-> t.policy.rate_limit_burst,
     tenant_limited |-> t.policy.rate_limit_scope \in {"tenant", "both"},
     conn_limited |-> t.policy.rate_limit_scope \in {"connection", "both"},
     sessions |-> t.policy.sessions, hot_error_mode |-> t.policy.hot_error_mode,
     hot_requires_active_room |-> t.policy.hot_requires_active_room]

\* app.cfg().tenants.iter().find(|t| t.id == id): its index, or 0.
Named(tenants, id) == {i \in DOMAIN tenants : tenants[i].id = id}
FindTenant(tenants, id) ==
    IF Named(tenants, id) = {} THEN 0 ELSE Min(Named(tenants, id))

-----------------------------------------------------------------------------
StartupInit ==
    /\ document \in Documents
    /\ stage = "load"
    /\ cfg = Nothing
    /\ tenant_policy = Nothing

\* load_from_file and the address of the listener: expect() ends the process.
Load ==
    /\ stage = "load"
    /\ LET parsed == Parsed(document)
       IN  IF /\ Parses(document) /\ Accepts(parsed)
              /\ parsed.gateway.listen \in SocketAddrs
           THEN stage' = "compile" /\ cfg' = parsed
           ELSE stage' = "exited" /\ UNCHANGED cfg
    /\ UNCHANGED <<document, tenant_policy>>

\* AppState::new.  Inserting under an id replaces what was there, so that the
\* last tenant with an id counts; an allowlist that names a service that is
\* not registered is only logged.
Build ==
    /\ stage = "compile"
    /\ IF \A i \in DOMAIN cfg.tenants : PolicyCompiles(cfg.tenants[i])
       THEN /\ stage' = "serving"
            /\ tenant_policy' =
                 [id \in {cfg.tenants[i].id : i \in DOMAIN cfg.tenants} |->
                    Runtime(cfg.tenants[Max(Named(cfg.tenants, id))])]
       ELSE stage' = "exited" /\ UNCHANGED tenant_policy
    /\ UNCHANGED <<document, cfg>>

StartupNext == Load \/ Build

StartupSpec == StartupInit /\ [][StartupNext]_startupVars

-----------------------------------------------------------------------------
(* Properties.                                                             *)

\* The two places where a session looks up its tenant agree: ws_upgrade and
\* run_session search the list of tenants, run_session also asks the map of
\* policies.  Whatever file was accepted, a tenant is in both or in neither,
\* so the unwrap() in run_session cannot fail, and the policy that is applied
\* was made from the very entry whose limits are applied.
TenantsResolve ==
    stage = "serving" =>
        /\ \A i \in DOMAIN cfg.tenants : cfg.tenants[i].id \in DOMAIN tenant_policy
        /\ \A id \in DOMAIN tenant_policy :
             /\ FindTenant(cfg.tenants, id) # 0
             /\ tenant_policy[id] = Runtime(cfg.tenants[FindTenant(cfg.tenants, id)])

\* The gateway starts with each file that the documentation and the tests
\* present as a valid one, with the defaults that it leaves to the gateway.
ExamplesServe == document \in Examples => stage # "exited"
=============================================================================
