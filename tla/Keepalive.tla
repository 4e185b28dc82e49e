----------------------------- MODULE Keepalive -----------------------------
(***************************************************************************)
(* Heartbeats and the idle timeout of one session, with time (run_session  *)
(* in transport/ws.rs), after the gateway has started from a configuration *)
(* file.  Times are in milliseconds and pass in equal steps.  Every clock  *)
(* is relative (how long until a tick is due, how long since the client    *)
(* was heard), so runs are unbounded and the states are finitely many.     *)
(*                                                                         *)
(* The session has no other traffic than the greeting, the pings and what  *)
(* the client sends of its own; nothing that it sends needs a reply.  The  *)
(* loop is scheduled at once: time passes only while it waits.             *)
(***************************************************************************)
EXTENDS Startup

CONSTANTS
    Step,        \* the granularity of time
    Latencies,   \* bounds on the time from a ping to its pong
    Watched,     \* bound: the documents under which a session is followed
    MaxBuffered  \* bound on the unread frames up to which the client sends more

ASSUME TimeAssumption ==
    /\ Step \in Nat \ {0} /\ Latencies \subseteq Nat /\ MaxBuffered \in Nat
    /\ Watched \subseteq Documents

\* The periods of the two ticks, the writer timeout and the latencies are whole
\* numbers of steps.
IdleTickPeriod == 1000
OnGrid(duration) == duration % Step = 0
ASSUME GridAssumption ==
    /\ \A duration \in Latencies \cup {IdleTickPeriod} : OnGrid(duration)
    /\ \A doc \in Watched : LET gateway == Parsed(doc).gateway
                             IN  /\ OnGrid(gateway.ping_interval_ms)
                                 /\ OnGrid(gateway.writer_send_timeout_ms)

VARIABLES
    pc,         \* "none", "select", "writing" or "closed"
    why,        \* what ended the loop: "idle", "writer" or "peer"; "open" before
    out,        \* messages in out_rx; while writing, the first is being written
    stalled,    \* for how long the write has been waiting
    ping_due,   \* time to the next tick of ping_tick, not above 0 when it is due
    idle_due,   \* the same of idle_tick
    elapsed,    \* sess.last_activity.elapsed()
    latency,    \* how long a pong of this client takes at most
    silent,     \* the client no longer sends anything
    inflight,   \* ages of the pongs that are under way
    buffered    \* frames of the client that ws_rx has ready

loopVars == <<pc, why, out, stalled>>
clocks == <<ping_due, idle_due, elapsed>>
clientVars == <<latency, silent, inflight, buffered>>
vars == <<startupVars, loopVars, clocks, clientVars>>

Ping == cfg.gateway.ping_interval_ms
Idle == cfg.gateway.idle_timeout_ms
WriterTimeout == cfg.gateway.writer_send_timeout_ms

Init ==
    /\ StartupInit
    /\ pc = "none" /\ why = "open" /\ out = <<>> /\ stalled = 0
    /\ ping_due = 0 /\ idle_due = 0 /\ elapsed = 0
    /\ latency = 0 /\ silent = FALSE /\ inflight = <<>> /\ buffered = 0

-----------------------------------------------------------------------------
(* The loop.  In "select" any branch that is ready may be taken.           *)

\* run_session up to its loop: the greeting is queued, and the first tick of
\* an interval is due at once.
Open(bound) ==
    /\ stage = "serving" /\ pc = "none" /\ document \in Watched
    /\ pc' = "select" /\ out' = <<"authed">>
    /\ latency' = bound
    /\ UNCHANGED <<startupVars, why, stalled, clocks, silent, inflight, buffered>>

Ends(reason) == pc' = "closed" /\ why' = reason

\* Mutant: a ping is sent whenever the loop comes round.
PingTickAlways ==
    /\ pc = "select"
    /\ out' = Append(out, "ping")
    /\ ping_due' = Ping
    /\ UNCHANGED <<startupVars, pc, why, stalled, idle_due, elapsed, clientVars>>

\* Intervals catch up: the next tick is due one period after this one was.
PingTick ==
    /\ pc = "select" /\ ping_due <= 0
    /\ out' = Append(out, "ping")
    /\ ping_due' = ping_due + Ping
    /\ UNCHANGED <<startupVars, pc, why, stalled, idle_due, elapsed, clientVars>>

\* Mutant: the idle timeout is looked at once per ping interval.
IdleTickSeldom ==
    /\ pc = "select" /\ idle_due <= 0
    /\ idle_due' = idle_due + Ping
    /\ IF elapsed >= Idle THEN Ends("idle") ELSE UNCHANGED <<pc, why>>
    /\ UNCHANGED <<startupVars, out, stalled, ping_due, elapsed, clientVars>>

IdleTick ==
    /\ pc = "select" /\ idle_due <= 0
    /\ idle_due' = idle_due + IdleTickPeriod
    /\ IF elapsed >= Idle THEN Ends("idle") ELSE UNCHANGED <<pc, why>>
    /\ UNCHANGED <<startupVars, out, stalled, ping_due, elapsed, clientVars>>

\* Mutant: a pong is no activity.
ReadIgnored ==
    /\ pc = "select" /\ buffered > 0
    /\ buffered' = buffered - 1
    /\ UNCHANGED <<startupVars, loopVars, clocks, latency, silent, inflight>>

\* ws_rx.next().
Read ==
    /\ pc = "select" /\ buffered > 0
    /\ buffered' = buffered - 1
    /\ elapsed' = 0
    /\ UNCHANGED <<startupVars, loopVars, ping_due, idle_due, latency, silent, inflight>>

\* ws_rx.next() finds the end of the stream or an error.
HangUp ==
    /\ pc = "select"
    /\ Ends("peer")
    /\ UNCHANGED <<startupVars, out, stalled, clocks, clientVars>>

\* timeout(writer_timeout, ws_tx.send(m)): until the write is over, the loop
\* takes no other branch.
BeginWrite ==
    /\ pc = "select" /\ out # <<>>
    /\ pc' = "writing" /\ stalled' = 0
    /\ UNCHANGED <<startupVars, why, out, clocks, clientVars>>

\* Mutant: what is written counts as activity.
EndWriteActive ==
    /\ pc = "writing"
    /\ pc' = "select" /\ stalled' = 0 /\ out' = Tail(out)
    /\ elapsed' = 0
    /\ inflight' = IF Head(out) = "ping" /\ ~silent THEN Append(inflight, 0) ELSE inflight
    /\ UNCHANGED <<startupVars, why, ping_due, idle_due, latency, silent, buffered>>

\* The client answers each ping that it is sent.
EndWrite ==
    /\ pc = "writing"
    /\ pc' = "select" /\ stalled' = 0 /\ out' = Tail(out)
    /\ inflight' = IF Head(out) = "ping" /\ ~silent THEN Append(inflight, 0) ELSE inflight
    /\ UNCHANGED <<startupVars, why, clocks, latency, silent, buffered>>

WriteTimesOut ==
    /\ pc = "writing" /\ stalled >= WriterTimeout
    /\ Ends("writer")
    /\ UNCHANGED <<startupVars, out, stalled, clocks, clientVars>>

-----------------------------------------------------------------------------
(* The client and the network (external).                                  *)

Arrive ==
    /\ pc \in {"select", "writing"} /\ inflight # <<>>
    /\ inflight' = Tail(inflight) /\ buffered' = buffered + 1
    /\ UNCHANGED <<startupVars, loopVars, clocks, latency, silent>>

ClientSends ==
    /\ pc \in {"select", "writing"} /\ ~silent /\ buffered < MaxBuffered
    /\ buffered' = buffered + 1
    /\ UNCHANGED <<startupVars, loopVars, clocks, latency, silent, inflight>>

GoSilent ==
    /\ pc \in {"select", "writing"} /\ ~silent
    /\ silent' = TRUE
    /\ UNCHANGED <<startupVars, loopVars, clocks, latency, inflight, buffered>>

\* The loop has a branch to take at once.
Ready ==
    pc = "select" /\ (out # <<>> \/ buffered > 0 \/ ping_due <= 0 \/ idle_due <= 0)

\* Time passes.
Advance ==
    /\ pc \in {"select", "writing"} /\ ~Ready
    /\ pc = "writing" => stalled < WriterTimeout
    /\ \A i \in DOMAIN inflight : inflight[i] < latency
    /\ ping_due' = ping_due - Step /\ idle_due' = idle_due - Step
    /\ elapsed' = elapsed + Step
    /\ stalled' = IF pc = "writing" THEN stalled + Step ELSE stalled
    /\ inflight' = [i \in DOMAIN inflight |-> inflight[i] + Step]
    /\ UNCHANGED <<startupVars, pc, why, out, latency, silent, buffered>>

\* The process has exited, or the session is over or not followed.
Finished ==
    /\ stage = "exited" \/ pc = "closed" \/ (stage = "serving" /\ document \notin Watched)
    /\ UNCHANGED vars

Start == StartupNext /\ UNCHANGED <<loopVars, clocks, clientVars>>

Next ==
    \/ Start
    \/ \E bound \in Latencies : Open(bound)
    \/ PingTick \/ IdleTick \/ Read \/ HangUp
    \/ BeginWrite \/ EndWrite \/ WriteTimesOut
    \/ Arrive \/ ClientSends \/ GoSilent \/ Advance
    \/ Finished

\* A step is taken as long as one can be: the runtime polls a task that is
\* ready, and time passes when there is nothing to poll.
Spec == Init /\ [][Next]_vars /\ WF_vars(Next)

-----------------------------------------------------------------------------
(* Properties.                                                             *)

\* The pings do not get in each other's way: two writes that stall as long as
\* they may are over before the next ping.
Unhurried == 2 * WriterTimeout < Ping

TypeOK ==
    /\ document \in Documents /\ stage \in {"load", "compile", "serving", "exited"}
    /\ pc \in {"none", "select", "writing", "closed"}
    /\ why \in {"open", "idle", "writer", "peer"}
    /\ out \in Seq({"authed", "ping"})
    /\ pc # "none" /\ Unhurried => Len(out) <= 2
    /\ stalled \in Nat /\ elapsed \in Nat
    /\ ping_due \in Int /\ idle_due \in Int
    /\ latency \in Latencies \cup {0} /\ silent \in BOOLEAN
    /\ inflight \in Seq(Nat) /\ buffered \in Nat

\* A client that answers pings is not closed as idle, provided the idle
\* timeout leaves room for a ping interval, the way of the ping and its pong,
\* and two writes that stall as long as they may: that of the ping and, when
\* the pong comes in just as the next ping is being written, that one too.
\* Validation asks only for more than the ping interval.
KeptAlive ==
    why = "idle" /\ Unhurried /\ Ping + 2 * WriterTimeout + latency < Idle => silent

\* A session that has not heard its client is closed soon after the idle
\* timeout: at the next tick of idle_tick, or after the write that is then
\* under way and, at most, one more.
ClosedInTime ==
    pc \in {"select", "writing"} /\ Unhurried =>
        elapsed <= Idle + IdleTickPeriod + 2 * WriterTimeout

\* A client that falls silent is in the end closed: no order in which the
\* loop takes its branches, and no stalling of its writes, keeps the session.
SilentIsClosed == silent ~> pc = "closed"
=============================================================================
