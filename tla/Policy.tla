------------------------------- MODULE Policy -------------------------------
(***************************************************************************)
(* The policy of one tenant (policy/engine.rs, policy/allowlist.rs) as     *)
(* the session loops apply it: the shared limiter of the tenant, the       *)
(* limiter of each connection, the limit on the size of a frame and the    *)
(* allowlists of the two lanes.                                            *)
(***************************************************************************)
EXTENDS TokenBucket, Allowlist

CONSTANTS
    Conns,         \* connections that may be open at the same time
    Scope,         \* policy.rate_limit_scope: "connection", "tenant" or "both"
    ExtAllowlist,  \* policy.ext_allowlist: entries split at their first colon
    HotAllowlist,  \* policy.hot_allowlist, the same
    MaxFrameBytes,
    TextFrames,    \* frames that clients send: [lane, len, svc, type]
    HotFrames,
    Pauses,        \* times between two events
    MaxTime,       \* bound: the time at which the clock stops
    MaxTotal       \* bound on the frames that are passed

ASSUME PolicyAssumption ==
    /\ Scope \in {"connection", "tenant", "both"}
    /\ Pauses \subseteq Nat \ {0} /\ {MaxTime, MaxTotal} \subseteq Nat
    /\ \A f \in TextFrames : f.lane = "text"
    /\ \A f \in HotFrames : f.lane = "hot"
    /\ None \notin Bucket

VARIABLES
    tenant,   \* the bucket of the tenant limiter, None if there is no limiter
    open,     \* connections whose session loop runs
    conn,     \* bucket of the limiter of each connection, None if it has none
    now,
    since,    \* when each connection was opened
    passed,   \* frames of each connection that policy has passed, by lane
    total     \* frames of all connections that policy has passed

vars == <<tenant, open, conn, now, since, passed, total>>

Lanes == {"text", "hot"}

-----------------------------------------------------------------------------
(* The compiled allowlists.                                                *)

Compiles == ExtCompiles(ExtAllowlist) /\ HotCompiles(HotAllowlist)

Rules(lane) ==
    IF lane = "text" THEN {ExtRule(raw) : raw \in ExtAllowlist}
    ELSE {HotRule(raw) : raw \in HotAllowlist}

-----------------------------------------------------------------------------
(* Decisions.                                                              *)

TenantLimited == Scope \in {"tenant", "both"}
ConnLimited == Scope \in {"connection", "both"}

\* check_len.
TooLong(f) == f.len > MaxFrameBytes

\* A limiter that is absent always allows and stays absent.
Admits(b) == b = None \/ Allows(b, now)
After(b) == IF b = None THEN None ELSE Take(b, now)

\* Mutant: the limiter of the tenant is asked, but not obeyed.
CheckUnlimited(f) ==
    IF TooLong(f) THEN "close"
    ELSE IF ~IsAllowed(Rules(f.lane), f.svc, f.type)
         THEN IF f.lane = "text" THEN "reject" ELSE "drop"
    ELSE "pass"

\* check_text, check_hot.
Check(f) ==
    IF TooLong(f) THEN "close"
    ELSE IF ~Admits(tenant) THEN "drop"
    ELSE IF ~IsAllowed(Rules(f.lane), f.svc, f.type)
         THEN IF f.lane = "text" THEN "reject" ELSE "drop"
    ELSE "pass"

-----------------------------------------------------------------------------
(* TenantPolicyRuntime::new, and the part of the session loop that asks    *)
(* for a decision.                                                         *)

Init ==
    /\ tenant = IF TenantLimited THEN New(0) ELSE None
    /\ open = {} /\ conn = [c \in Conns |-> None]
    /\ now = 0 /\ since = [c \in Conns |-> 0]
    /\ passed = [c \in Conns |-> [lane \in Lanes |-> 0]] /\ total = 0

\* Mutant: no limiter is made for a connection.
ConnectUnlimited(c) ==
    /\ Compiles /\ c \notin open
    /\ open' = open \cup {c}
    /\ since' = [since EXCEPT ![c] = now]
    /\ passed' = [passed EXCEPT ![c] = [lane \in Lanes |-> 0]]
    /\ UNCHANGED <<tenant, conn, now, total>>

\* new_connection_limiter, before the loop.
Connect(c) ==
    /\ Compiles /\ c \notin open
    /\ open' = open \cup {c}
    /\ conn' = [conn EXCEPT ![c] = IF ConnLimited THEN New(now) ELSE None]
    /\ since' = [since EXCEPT ![c] = now]
    /\ passed' = [passed EXCEPT ![c] = [lane \in Lanes |-> 0]]
    /\ UNCHANGED <<tenant, now, total>>

Disconnect(c) ==
    /\ c \in open
    /\ open' = open \ {c}
    /\ conn' = [conn EXCEPT ![c] = None]
    /\ UNCHANGED <<tenant, now, since, passed, total>>

\* The frame goes to TenantPolicyRuntime; a limiter of the tenant is asked
\* unless the frame is too long.
Decide(c, f) ==
    /\ tenant' = IF TooLong(f) THEN tenant ELSE After(tenant)
    /\ open' = IF Check(f) = "close" THEN open \ {c} ELSE open
    /\ LET n == IF Check(f) = "pass" THEN 1 ELSE 0 IN
       /\ passed' = [passed EXCEPT ![c][f.lane] = @ + n]
       /\ total' = total + n
    /\ UNCHANGED <<now, since>>

\* Mutant: the limiter of the connection is asked, but not obeyed.
TextUnlimited(c, f) ==
    /\ c \in open /\ total < MaxTotal
    /\ Decide(c, f)
    /\ conn' = [conn EXCEPT ![c] = IF Check(f) = "close" THEN None ELSE After(@)]

\* Inbound::Text: a frame that the limiter of the connection refuses is dropped.
Text(c, f) ==
    /\ c \in open /\ total < MaxTotal
    /\ IF Admits(conn[c])
       THEN /\ Decide(c, f)
            /\ conn' = [conn EXCEPT ![c] =
                          IF Check(f) = "close" THEN None ELSE After(@)]
       ELSE /\ conn' = [conn EXCEPT ![c] = After(@)]
            /\ UNCHANGED <<tenant, open, now, since, passed, total>>

\* Inbound::Hot.
Hot(c, f) ==
    /\ c \in open /\ total < MaxTotal
    /\ Decide(c, f)
    /\ conn' = [conn EXCEPT ![c] = IF Check(f) = "close" THEN None ELSE @]

Wait(d) ==
    /\ now + d <= MaxTime
    /\ now' = now + d
    /\ UNCHANGED <<tenant, open, conn, since, passed, total>>

Next ==
    \/ \E c \in Conns : Connect(c) \/ Disconnect(c)
    \/ \E c \in Conns : \/ \E f \in TextFrames : Text(c, f)
                       \/ \E f \in HotFrames : Hot(c, f)
    \/ \E d \in Pauses : Wait(d)

Spec == Init /\ [][Next]_vars

-----------------------------------------------------------------------------
\* Every variable has its type: a limiter is there exactly where the scope asks
\* for it (TenantPolicyRuntime::new, new_connection_limiter) and never lost.
TypeOK ==
    /\ tenant \in IF TenantLimited THEN Bucket ELSE {None}
    /\ open \subseteq Conns
    /\ conn \in [Conns -> Bucket \cup {None}]
    /\ \A c \in Conns :
          conn[c] \in IF c \in open /\ ConnLimited THEN Bucket ELSE {None}
    /\ now \in Nat /\ since \in [Conns -> 0 .. now]
    /\ passed \in [Conns -> [Lanes -> Nat]] /\ total \in Nat

\* TenantPolicyRuntime: with a limiter for the tenant, the frames of both lanes
\* of all connections together stay within the burst and the rate.
TenantBound ==
    TenantLimited => 1000 * total <= 1000 * capacity + rps * now

\* run_session: with a limiter for each connection, the text frames of one
\* connection stay within the burst and the rate since it was opened.
ConnTextBound ==
    ConnLimited => \A c \in Conns :
        1000 * passed[c]["text"] <= 1000 * capacity + rps * (now - since[c])

\* The same for the frames of both lanes of a connection.
ConnBound ==
    ConnLimited => \A c \in Conns :
        1000 * (passed[c]["text"] + passed[c]["hot"])
            <= 1000 * capacity + rps * (now - since[c])
=============================================================================
