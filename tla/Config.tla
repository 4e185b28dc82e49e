------------------------------- MODULE Config -------------------------------
(***************************************************************************)
(* The configuration file (config/schema.rs, config/mod.rs).  A document   *)
(* is what the file holds: a function from the keys that are written to    *)
(* their values, and the same for each of its sections.  Parsed gives      *)
(* every key that is left out its default, Accepts is the validation of    *)
(* the result.  An allowlist entry is split as in module Allowlist.        *)
(***************************************************************************)
EXTENDS Allowlist

CONSTANTS
    BlankIds,     \* tenant ids of which trim() leaves nothing
    SocketAddrs   \* values of gateway.listen that parse as a SocketAddr

-----------------------------------------------------------------------------
(* Parsing.                                                                *)

DefaultHandshake ==
    [enabled |-> FALSE, global_burst |-> 200, global_rps |-> 100,
     per_ip_burst |-> 50, per_ip_rps |-> 10, max_ip_entries |-> 50000]

\* Mutant: by default a connection may be idle for one ping interval.
DefaultGatewayShort ==
    [listen |-> "0.0.0.0:8080", ping_interval_ms |-> 20000, idle_timeout_ms |-> 20000,
     writer_send_timeout_ms |-> 1500, drain_grace_ms |-> 2000,
     handshake_limit |-> DefaultHandshake]

DefaultGateway ==
    [listen |-> "0.0.0.0:8080", ping_interval_ms |-> 20000, idle_timeout_ms |-> 60000,
     writer_send_timeout_ms |-> 1500, drain_grace_ms |-> 2000,
     handshake_limit |-> DefaultHandshake]

DefaultLimits ==
    [max_frame_bytes |-> 4096, max_sessions_total |-> 0, max_rooms_total |-> 0,
     max_users_per_room |-> 0, max_rooms_per_user |-> 0]

DefaultSessions ==
    [mode |-> "multi", max_sessions_per_user |-> 4, on_exceed |-> "deny"]

DefaultPolicy ==
    [rate_limit_rps |-> 200, rate_limit_burst |-> 400, rate_limit_scope |-> "connection",
     ext_allowlist |-> {<<"room", "join">>, <<"room", "leave">>}, hot_allowlist |-> {},
     sessions |-> DefaultSessions, hot_error_mode |-> "sys_error",
     hot_requires_active_room |-> TRUE]

\* #[serde(default)]: what is written under a key, or else the default.
Written(section, key, default) ==
    IF key \in DOMAIN section THEN section[key] ELSE default
Filled(section, defaults) ==
    [key \in DOMAIN defaults |-> Written(section, key, defaults[key])]

\* #[serde(deny_unknown_fields)].
Known(section, keys) == DOMAIN section \subseteq keys
Nothing == <<>>

TenantParses(t) ==
    LET policy == Written(t, "policy", Nothing)
    IN  /\ Known(t, {"id", "limits", "policy"}) /\ "id" \in DOMAIN t
        /\ Known(Written(t, "limits", Nothing), DOMAIN DefaultLimits)
        /\ Known(policy, DOMAIN DefaultPolicy)
        /\ Known(Written(policy, "sessions", Nothing), DOMAIN DefaultSessions)

Parses(doc) ==
    LET gateway == Written(doc, "gateway", Nothing)
        tenants == Written(doc, "tenants", <<>>)
    IN  /\ Known(doc, {"version", "gateway", "tenants"}) /\ "version" \in DOMAIN doc
        /\ Known(gateway, DOMAIN DefaultGateway)
        /\ Known(Written(gateway, "handshake_limit", Nothing), DOMAIN DefaultHandshake)
        /\ \A i \in DOMAIN tenants : TenantParses(tenants[i])

ParsedTenant(t) ==
    [id |-> t.id,
     limits |-> Filled(Written(t, "limits", Nothing), DefaultLimits),
     policy |-> [Filled(Written(t, "policy", Nothing), DefaultPolicy)
                   EXCEPT !.sessions = Filled(@, DefaultSessions)]]

Parsed(doc) ==
    LET tenants == Written(doc, "tenants", <<>>)
    IN  [version |-> doc.version,
         gateway |-> [Filled(Written(doc, "gateway", Nothing), DefaultGateway)
                        EXCEPT !.handshake_limit = Filled(@, DefaultHandshake)],
         tenants |-> [i \in DOMAIN tenants |-> ParsedTenant(tenants[i])]]

-----------------------------------------------------------------------------
(* Validation.                                                             *)

\* (low..=high).contains(&n)
Between(low, n, high) == n \in low .. high

\* GatewaySection::validate.
GatewayValid(g) ==
    /\ Between(5000, g.ping_interval_ms, 120000)
    /\ Between(10000, g.idle_timeout_ms, 600000)
    /\ g.idle_timeout_ms > g.ping_interval_ms
    /\ Between(50, g.writer_send_timeout_ms, 60000)
    /\ g.drain_grace_ms <= 600000

\* TenantPolicy::validate.
PolicyValid(p) ==
    /\ p.rate_limit_rps > 0 /\ p.rate_limit_burst > 0
    /\ IF p.sessions.mode = "single" THEN p.sessions.max_sessions_per_user = 1
       ELSE p.sessions.max_sessions_per_user > 0

\* TenantConfig::validate.
TenantValid(t) == t.limits.max_frame_bytes > 0 /\ PolicyValid(t.policy)

\* Mutant: two tenants may have one id.
AcceptsDuplicates(cfg) ==
    /\ cfg.version = 1
    /\ cfg.tenants # <<>>
    /\ \A i \in DOMAIN cfg.tenants :
         cfg.tenants[i].id \notin BlankIds /\ TenantValid(cfg.tenants[i])
    /\ GatewayValid(cfg.gateway)

\* GatewayConfig::validate: blank is judged after trim(), sameness without it.
Accepts(cfg) ==
    /\ cfg.version = 1
    /\ cfg.tenants # <<>>
    /\ \A i \in DOMAIN cfg.tenants :
         /\ cfg.tenants[i].id \notin BlankIds
         /\ \A j \in 1 .. (i - 1) : cfg.tenants[j].id # cfg.tenants[i].id
         /\ TenantValid(cfg.tenants[i])
    /\ GatewayValid(cfg.gateway)
=============================================================================
