----------------------------- MODULE Handshake -----------------------------
(***************************************************************************)
(* The handshake defender (transport/handshake.rs): checks of several      *)
(* upgrade requests, which share a bucket and the map per_ip.              *)
(*                                                                         *)
(* The buckets hold whole tokens and are refilled as time passes, at any   *)
(* rate: a refill adds in proportion to the time and stops at the          *)
(* capacity, so it does not matter when it is computed.                    *)
(***************************************************************************)
EXTENDS Naturals, FiniteSets

CONSTANTS
    Requests,                 \* upgrade requests
    Ips, IpOf,                \* addresses, and the address of each request
    Shards, ShardOf,          \* shards of per_ip, and the shard of each address
    GlobalBurst, PerIpBurst,  \* cfg.global_burst, cfg.per_ip_burst
    MaxIpEntries,             \* cfg.max_ip_entries
    None

VARIABLES
    pc,      \* where each check is
    global,  \* tokens of the global bucket
    per_ip,  \* tokens of the bucket of each address, None if it has no entry
    ret      \* what each check returned

vars == <<pc, global, per_ip, ret>>

\* LeakyBucket::new.
Capacity(burst) == IF burst = 0 THEN 1 ELSE burst

Init ==
    /\ pc = [r \in Requests |-> "start"] /\ ret = [r \in Requests |-> None]
    /\ global = Capacity(GlobalBurst) /\ per_ip = [i \in Ips |-> None]

Goto(r, step) == pc' = [pc EXCEPT ![r] = step]
Return(r, value) == Goto(r, "done") /\ ret' = [ret EXCEPT ![r] = value]

\* The guard that entry() returns lives to the end of check: it locks the shard
\* of the address for writing.
WriteLocked(shard) ==
    \E r \in Requests : ShardOf[IpOf[r]] = shard /\ pc[r] \in {"len", "retain"}

\* DashMap::len and DashMap::retain lock one shard after the other.
CanVisitAll == \A shard \in Shards : ~WriteLocked(shard)

\* LeakyBucket::try_take(1) on the global bucket.
Global(r) ==
    /\ pc[r] = "start"
    /\ IF global > 0
       THEN global' = global - 1 /\ Goto(r, "entry") /\ UNCHANGED ret
       ELSE Return(r, "retry_after") /\ UNCHANGED global
    /\ UNCHANGED per_ip

\* entry().or_insert_with() and try_take(1) on the bucket of the address.  The
\* guard excludes every other check from the bucket, whose lock is thus free.
PerIp(r) ==
    LET ip == IpOf[r]
        tokens == IF per_ip[ip] = None THEN Capacity(PerIpBurst) ELSE per_ip[ip]
    IN  /\ pc[r] = "entry" /\ ~WriteLocked(ShardOf[ip])
        /\ IF tokens > 0
           THEN /\ per_ip' = [per_ip EXCEPT ![ip] = tokens - 1]
                /\ Goto(r, "len") /\ UNCHANGED ret
           ELSE per_ip' = [per_ip EXCEPT ![ip] = tokens] /\ Return(r, "retry_after")
        /\ UNCHANGED global

\* per_ip.len(), and the draw that decides on a cleanup.
Length(r) ==
    /\ pc[r] = "len" /\ CanVisitAll
    /\ \/ Return(r, "ok")
       \/ /\ Cardinality({i \in Ips : per_ip[i] # None}) > MaxIpEntries
          /\ Goto(r, "retain") /\ UNCHANGED ret
    /\ UNCHANGED <<global, per_ip>>

\* per_ip.retain() drops some of the entries.
Retain(r) ==
    /\ pc[r] = "retain" /\ CanVisitAll
    /\ \E kept \in SUBSET Ips :
          per_ip' = [i \in Ips |-> IF i \in kept THEN per_ip[i] ELSE None]
    /\ Return(r, "ok")
    /\ UNCHANGED global

\* Time for one more token in a bucket.
GlobalRefills ==
    /\ global < Capacity(GlobalBurst)
    /\ global' = global + 1
    /\ UNCHANGED <<pc, per_ip, ret>>
PerIpRefills(ip) ==
    /\ per_ip[ip] # None /\ per_ip[ip] < Capacity(PerIpBurst)
    /\ per_ip' = [per_ip EXCEPT ![ip] = @ + 1]
    /\ UNCHANGED <<pc, global, ret>>

Step(r) == Global(r) \/ PerIp(r) \/ Length(r) \/ Retain(r)

Next ==
    \/ \E r \in Requests : Step(r)
    \/ GlobalRefills
    \/ \E ip \in Ips : PerIpRefills(ip)

\* The runtime runs every task that is not blocked.
Spec == Init /\ [][Next]_vars /\ \A r \in Requests : SF_vars(Step(r))

-----------------------------------------------------------------------------
\* HandshakeDefender::check returns: Ok, or the seconds after which to retry.
CheckReturns == \A r \in Requests : <>(pc[r] = "done")
=============================================================================
