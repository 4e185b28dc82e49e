---------------------------- MODULE MCKeepalive ----------------------------
(* An instance of Keepalive for model checking.                            *)
EXTENDS Keepalive, SequencesExt

Texts == [t \in {"1", "01"} |-> 1]
Blank == {" "}
Addresses == {"0.0.0.0:8080"}

\* docs/CONFIG.md, docs/src/intro/getting_started.md and the test
\* ok_minimal_config.
Minimal ==
    [version |-> 1, gateway |-> [listen |-> "0.0.0.0:8080"],
     tenants |-> <<[id |-> "acme", limits |-> [max_frame_bytes |-> 4096]]>>]
GettingStarted ==
    [version |-> 1,
     gateway |-> [listen |-> "0.0.0.0:8080", ping_interval_ms |-> 5000,
                  idle_timeout_ms |-> 10000],
     tenants |-> <<[id |-> "acme", limits |-> [max_frame_bytes |-> 65536],
                    policy |-> [ext_allowlist |-> {<<"room", "join">>, <<"room", "leave">>,
                                                   <<"chat", "*">>},
                                hot_allowlist |-> {<<"1", "*">>}]]>>]
Tested == [version |-> 1, tenants |-> <<[id |-> "acme"]>>]
MCExamples == {Minimal, GettingStarted, Tested}

\* Tenants that differ in what validation and compilation look at.
Tenants ==
    {[id |-> id] : id \in {"acme", "other", " "}}
      \cup {[id |-> "acme", limits |-> [max_frame_bytes |-> n]] : n \in {0, 1}}
      \cup {[id |-> "acme", limitz |-> Nothing]}
      \cup {[id |-> "other", policy |-> p] :
              p \in {[rate_limit_burst |-> 0], [sessions |-> [mode |-> "single"]],
                     [sessions |-> [mode |-> "single", max_sessions_per_user |-> 1]],
                     [hot_allowlist |-> {<<"one", "*">>}], [ext_allowlist |-> {<<"chat">>}]}}

\* The gateway sections that are valid and those next to them that are not.
\* With the longer idle timeout a pong may come in while the next ping is being
\* written.
Gateways ==
    {[ping_interval_ms |-> p, idle_timeout_ms |-> i, writer_send_timeout_ms |-> w] :
       p \in {4500, 5000, 10000}, i \in {10000}, w \in {500, 2000}}
      \cup {[ping_interval_ms |-> 5000, idle_timeout_ms |-> 11000, writer_send_timeout_ms |-> 500]}
      \cup {[listen |-> "localhost"], [drain_grace_ms |-> 600001],
            [handshake_limit |-> [burst |-> 1]]}

Timed ==
    {GettingStarted}
      \cup {[version |-> 1, gateway |-> g, tenants |-> <<[id |-> "acme"]>>] : g \in Gateways}

MCDocuments ==
    MCExamples \cup Timed
      \cup {[version |-> v, tenants |-> ts] :
              v \in {1, 2}, ts \in BoundedSeq(Tenants, 2)}
=============================================================================
