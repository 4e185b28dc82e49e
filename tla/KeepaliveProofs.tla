-------------------------- MODULE KeepaliveProofs --------------------------
(***************************************************************************)
(* Proofs about Startup, for every set of configuration files, and about   *)
(* Keepalive, for every granularity of time and every bound on the time    *)
(* that a pong takes.                                                      *)
(***************************************************************************)
EXTENDS Keepalive, TLAPS

-----------------------------------------------------------------------------
(* Startup.                                                                *)

(* While a configuration is used it has been accepted, and its tenants     *)
(* form a list.                                                            *)
Loaded ==
    /\ document \in Documents
    /\ stage \in {"compile", "serving"} =>
         /\ Accepts(cfg)
         /\ Len(cfg.tenants) \in Nat /\ DOMAIN cfg.tenants = 1 .. Len(cfg.tenants)

SInv == Loaded /\ TenantsResolve

LEMMA ParsedIsList ==
    ASSUME NEW doc \in Documents
    PROVE  LET tenants == Parsed(doc).tenants
           IN  Len(tenants) \in Nat /\ DOMAIN tenants = 1 .. Len(tenants)
  <1> DEFINE written == Written(doc, "tenants", <<>>)
  <1>1. Len(written) \in Nat /\ DOMAIN written = 1 .. Len(written)
    BY DocumentsAssumption
  <1>2. Parsed(doc).tenants = [i \in DOMAIN written |-> ParsedTenant(written[i])]
    BY DEF Parsed
  <1> HIDE DEF written
  <1>3. Parsed(doc).tenants = [i \in 1 .. Len(written) |-> ParsedTenant(written[i])]
    BY <1>1, <1>2
  <1>4. Len(Parsed(doc).tenants) = Len(written)
    BY <1>1, <1>3
  <1> QED BY <1>1, <1>3, <1>4

(* In a list without two entries of one id, the first entry with an id and *)
(* the last one are the same.                                              *)
LEMMA FirstIsLast ==
    ASSUME NEW list, Len(list) \in Nat, DOMAIN list = 1 .. Len(list),
           \A i \in DOMAIN list : \A j \in 1 .. (i - 1) : list[j].id # list[i].id,
           NEW k \in DOMAIN list
    PROVE  FindTenant(list, list[k].id) = k /\ Max(Named(list, list[k].id)) = k
  <1>1. k \in 1 .. Len(list) /\ k \in Nat
    OBVIOUS
  <1>2. \A i \in Named(list, list[k].id) : i = k
    <2> SUFFICES ASSUME NEW i \in 1 .. Len(list), list[i].id = list[k].id, i # k
                 PROVE  FALSE
      BY DEF Named
    <2>1. CASE i < k
      BY <2>1, <1>1
    <2>2. CASE k < i
      BY <2>2, <1>1
    <2> QED BY <2>1, <2>2, <1>1
  <1>3. Named(list, list[k].id) = {k}
    BY <1>1, <1>2 DEF Named
  <1>4. Min({k}) = k /\ Max({k}) = k
    BY <1>1 DEF Min, Max
  <1> QED BY <1>3, <1>4 DEF FindTenant

LEMMA SInvLoad == ASSUME SInv, Load PROVE SInv'
  <1>1. document' = document /\ document \in Documents
    BY DEF SInv, Loaded, Load
  <1>2. stage' # "serving"
    BY DEF Load
  <1>3. stage' = "compile" => cfg' = Parsed(document) /\ Accepts(Parsed(document))
    BY DEF Load
  <1>4. Loaded'
    BY <1>1, <1>2, <1>3, ParsedIsList DEF Loaded
  <1> QED BY <1>2, <1>4 DEF SInv, TenantsResolve

LEMMA SInvBuild == ASSUME SInv, Build PROVE SInv'
  <1> DEFINE ids == {cfg.tenants[i].id : i \in DOMAIN cfg.tenants}
  <1>1. /\ document' = document /\ cfg' = cfg /\ document \in Documents
        /\ Accepts(cfg) /\ Len(cfg.tenants) \in Nat
        /\ DOMAIN cfg.tenants = 1 .. Len(cfg.tenants)
    BY DEF SInv, Loaded, Build
  <1>2. Loaded'
    BY <1>1 DEF Loaded
  <1>3. \A i \in DOMAIN cfg.tenants :
           \A j \in 1 .. (i - 1) : cfg.tenants[j].id # cfg.tenants[i].id
    BY <1>1 DEF Accepts
  <1>4. ASSUME stage' = "serving"
        PROVE  TenantsResolve'
    <2>1. tenant_policy' =
            [id \in ids |->
               Runtime(cfg.tenants[Max(Named(cfg.tenants, id))])]
      BY Zenon, <1>4 DEF Build
    <2>2. ASSUME NEW k \in DOMAIN cfg.tenants
          PROVE  /\ FindTenant(cfg.tenants, cfg.tenants[k].id) = k /\ k # 0
                 /\ tenant_policy'[cfg.tenants[k].id] = Runtime(cfg.tenants[k])
      <3>1. /\ FindTenant(cfg.tenants, cfg.tenants[k].id) = k
            /\ Max(Named(cfg.tenants, cfg.tenants[k].id)) = k
        BY Zenon, <1>1, <1>3, FirstIsLast
      <3>3. cfg.tenants[k].id \in ids
        OBVIOUS
      <3>4. tenant_policy'[cfg.tenants[k].id] = Runtime(cfg.tenants[k])
        BY Zenon, <2>1, <3>1, <3>3
      <3>5. k # 0
        BY <1>1
      <3> QED BY <3>1, <3>4, <3>5
    <2>3. DOMAIN tenant_policy' = ids
      BY <2>1
    <2>4. \A i \in DOMAIN cfg'.tenants : cfg'.tenants[i].id \in DOMAIN tenant_policy'
      BY <1>1, <2>3
    <2>5. ASSUME NEW id \in DOMAIN tenant_policy'
          PROVE  /\ FindTenant(cfg.tenants, id) # 0
                 /\ tenant_policy'[id] = Runtime(cfg.tenants[FindTenant(cfg.tenants, id)])
      <3>1. PICK k \in DOMAIN cfg.tenants : id = cfg.tenants[k].id
        BY <2>3
      <3> QED BY <2>2, <3>1
    <2> QED BY <1>1, <2>4, <2>5 DEF TenantsResolve
  <1>5. stage' # "serving" => TenantsResolve'
    BY DEF TenantsResolve
  <1> QED BY <1>2, <1>4, <1>5 DEF SInv

(* Whatever configuration file the gateway has accepted, the list of       *)
(* tenants and the map of policies that AppState::new has built agree, so  *)
(* run_session finds a tenant in both or in neither.                       *)
THEOREM LookupsAgree == StartupSpec => []TenantsResolve
  <1>1. StartupInit => SInv
    BY DEF StartupInit, SInv, Loaded, TenantsResolve
  <1>2. SInv /\ [StartupNext]_startupVars => SInv'
    <2>1. SInv /\ UNCHANGED startupVars => SInv'
      BY DEF startupVars, SInv, Loaded, TenantsResolve
    <2> QED BY <2>1, SInvLoad, SInvBuild DEF StartupNext
  <1>3. SInv => TenantsResolve
    BY DEF SInv
  <1> QED BY <1>1, <1>2, <1>3, PTL DEF StartupSpec

-----------------------------------------------------------------------------
(* Keepalive: the session and the configuration that it runs under.        *)

(* A gateway that serves has the configuration that its file holds, and a  *)
(* session is one of such a gateway.                                       *)
Session ==
    /\ stage \in {"compile", "serving"} => cfg = Parsed(document)
    /\ pc \in {"none", "select", "writing", "closed"}
    /\ pc = "none" =>
         /\ why = "open" /\ out = <<>> /\ stalled = 0
         /\ ping_due = 0 /\ idle_due = 0 /\ elapsed = 0
         /\ latency = 0 /\ silent = FALSE /\ inflight = <<>> /\ buffered = 0
    /\ pc # "none" => stage = "serving" /\ document \in Watched /\ latency \in Latencies
    /\ pc \in {"select", "writing"} => why = "open"

Types ==
    /\ stage \in {"load", "compile", "serving", "exited"}
    /\ why \in {"open", "idle", "writer", "peer"}
    /\ out \in Seq({"authed", "ping"})
    /\ pc = "writing" => out # <<>>
    /\ stalled \in Nat /\ elapsed \in Nat
    /\ ping_due \in Int /\ idle_due \in Int
    /\ silent \in BOOLEAN
    /\ inflight \in Seq(Nat) /\ buffered \in Nat

KInv == SInv /\ Session /\ Types

(* What a clock at or before a point of the grid does in one step.         *)
LEMMA Grid ==
    ASSUME NEW x \in Int, NEW y \in Int, OnGrid(x), OnGrid(y)
    PROVE  /\ OnGrid(x + y) /\ OnGrid(x + Step) /\ OnGrid(x - Step)
           /\ x < y => x + Step <= y
  <1>1. Step \in Nat /\ Step > 0
    BY TimeAssumption
  <1> DEFINE j == x \div Step  k == y \div Step
  <1>2. x = Step * j /\ y = Step * k /\ j \in Int /\ k \in Int
    BY <1>1 DEF OnGrid
  <1> HIDE DEF j, k
  <1>3. \A q \in Int : OnGrid(Step * q)
    <2> SUFFICES ASSUME NEW q \in Int PROVE (Step * q) % Step = 0
      BY DEF OnGrid
    <2> QED BY <1>1
  <1>4. x + y = Step * (j + k) /\ x + Step = Step * (j + 1) /\ x - Step = Step * (j - 1)
    BY <1>1, <1>2
  <1>5. OnGrid(x + y) /\ OnGrid(x + Step) /\ OnGrid(x - Step)
    BY <1>2, <1>3, <1>4
  <1>6. ASSUME x < y PROVE x + Step <= y
    <2>1. j < k
      BY <1>1, <1>2, <1>6
    <2>2. Step * (j + 1) <= Step * k
      BY <1>1, <1>2, <2>1
    <2> QED BY <1>2, <1>4, <2>2
  <1> QED BY <1>5, <1>6

-----------------------------------------------------------------------------
(* The clocks, where two writes fit in a ping interval.                    *)

(* The queue holds the greeting, one ping, or both.                        *)
NoMessage == <<>>
Greeting == <<"authed">>
GreetingAndPing == <<"authed", "ping">>
OnePing == <<"ping">>

(* How long the writes of what is queued can still take, and that of the   *)
(* ping which is due.                                                      *)
Left ==
    IF out = NoMessage THEN 0
    ELSE IF out = GreetingAndPing THEN 2 * WriterTimeout - stalled
    ELSE WriterTimeout - stalled
Due == IF ping_due <= 0 THEN WriterTimeout ELSE 0

(* The writes are over before the next ping: no ping is due while one is   *)
(* queued, and one that is due is so for a write at most.                  *)
Writes ==
    /\ out \in {NoMessage, Greeting, GreetingAndPing, OnePing}
    /\ pc = "select" => stalled = 0
    /\ stalled <= WriterTimeout
    /\ out \in {GreetingAndPing, OnePing} =>
         ping_due > 0 /\ (Ping - ping_due) + Left <= 2 * WriterTimeout
    /\ out = Greeting => ping_due <= 0
    /\ ping_due <= 0 => Left - ping_due <= WriterTimeout
    /\ ping_due <= Ping

(* An idle tick waits for the writes that are under way or due, and the    *)
(* one before it found the session less than idle.                         *)
IdleTicks ==
    /\ idle_due <= IdleTickPeriod
    /\ idle_due <= 0 => Left + Due - idle_due <= 2 * WriterTimeout
    /\ elapsed + idle_due < Idle + IdleTickPeriod

OnSteps ==
    /\ OnGrid(stalled) /\ OnGrid(ping_due) /\ OnGrid(idle_due)
    /\ \A i \in DOMAIN inflight : OnGrid(inflight[i]) /\ inflight[i] <= latency

(* How long the client has not been heard: before the first ping, since    *)
(* the session was opened at most; then by what of its answers is still to *)
(* come.  That is nothing, as its last one was read after the last ping;   *)
(* or the answer to a ping that is queued; a pong that is under way; a     *)
(* frame that the loop has not read yet.                                   *)
First ==
    /\ ping_due < 0 \/ out = Greeting => elapsed + ping_due <= 0
    /\ out \in {Greeting, GreetingAndPing} => inflight = <<>>
Answered ==
    buffered = 0 /\ inflight = <<>> /\ out \in {NoMessage, Greeting} =>
        elapsed + ping_due <= Ping
Asked ==
    buffered = 0 /\ inflight = <<>> /\ out \in {GreetingAndPing, OnePing} =>
        elapsed + Left <= Ping + WriterTimeout
Answering ==
    buffered = 0 /\ inflight # <<>> => elapsed <= Ping + WriterTimeout + inflight[1]
Unread ==
    buffered > 0 => elapsed + Left + Due <= Ping + latency + 2 * WriterTimeout

Heard == First /\ Answered /\ Asked /\ Answering /\ Unread

Running == Writes /\ IdleTicks /\ OnSteps /\ (~silent => Heard)

Timely ==
    /\ pc \in {"select", "writing"} /\ Unhurried => Running
    /\ pc # "none" /\ Unhurried => Len(out) <= 2

TInv == KInv /\ Timely /\ KeptAlive

-----------------------------------------------------------------------------
LEMMA Queues ==
    /\ NoMessage # Greeting /\ NoMessage # GreetingAndPing /\ NoMessage # OnePing
    /\ Greeting # GreetingAndPing /\ Greeting # OnePing /\ GreetingAndPing # OnePing
    /\ Len(NoMessage) = 0 /\ Len(Greeting) = 1 /\ Len(OnePing) = 1
    /\ Len(GreetingAndPing) = 2
    /\ Append(NoMessage, "ping") = OnePing
    /\ Append(Greeting, "ping") = GreetingAndPing
    /\ Tail(Greeting) = NoMessage /\ Tail(OnePing) = NoMessage
    /\ Tail(GreetingAndPing) = OnePing
    /\ Head(Greeting) = "authed" /\ Head(GreetingAndPing) = "authed"
    /\ Head(OnePing) = "ping"
    /\ NoMessage = <<>>
  <1> DEFINE S == {"authed", "ping"}
  <1>1. /\ Greeting \in Seq(S) /\ GreetingAndPing \in Seq(S) /\ OnePing \in Seq(S)
        /\ NoMessage \in Seq(S)
        /\ Len(NoMessage) = 0 /\ Len(Greeting) = 1 /\ Len(OnePing) = 1
        /\ Len(GreetingAndPing) = 2
    BY DEF NoMessage, Greeting, GreetingAndPing, OnePing
  <1>2. /\ Greeting[1] = "authed" /\ OnePing[1] = "ping"
        /\ GreetingAndPing[1] = "authed" /\ GreetingAndPing[2] = "ping"
    BY DEF Greeting, GreetingAndPing, OnePing
  <1>3. /\ NoMessage # Greeting /\ NoMessage # GreetingAndPing /\ NoMessage # OnePing
        /\ Greeting # GreetingAndPing /\ Greeting # OnePing /\ GreetingAndPing # OnePing
    BY <1>1, <1>2
  <1>4. Append(NoMessage, "ping") = OnePing
    BY DEF NoMessage, OnePing
  <1>40. Append(Greeting, "ping") = GreetingAndPing
    <2> DEFINE both == Append(Greeting, "ping")
    <2>0. "ping" \in S
      OBVIOUS
    <2>1. both \in Seq(S) /\ Len(both) = 2 /\ both[1] = "authed" /\ both[2] = "ping"
      <3> HIDE DEF S
      <3>0. both \in Seq(S)
        BY <1>1, <2>0
      <3>1. Len(both) = 2
        <4>1. \A q \in Seq(S) : Len(Append(q, "ping")) = Len(q) + 1
          BY <2>0
        <4>2. Len(both) = Len(Greeting) + 1
          BY Zenon, <1>1, <4>1
        <4> QED BY <1>1, <4>2
      <3>2. both[1] = "authed"
        BY <1>1, <1>2, <2>0
      <3>3. both[2] = "ping"
        BY <1>1, <1>2, <2>0
      <3> QED BY <3>0, <3>1, <3>2, <3>3
    <2> HIDE DEF both
    <2>2. both = [i \in 1 .. 2 |-> both[i]]
      BY <2>1
    <2>3. GreetingAndPing = [i \in 1 .. 2 |-> GreetingAndPing[i]]
      BY <1>1
    <2>4. \A i \in 1 .. 2 : both[i] = GreetingAndPing[i]
      BY <1>2, <2>1
    <2>5. both = GreetingAndPing
      BY Zenon, <2>2, <2>3, <2>4
    <2> QED BY <2>5 DEF both
  <1>5. Tail(Greeting) = NoMessage
    BY DEF NoMessage, Greeting
  <1>6. Tail(OnePing) = NoMessage
    BY DEF NoMessage, OnePing
  <1>7. Tail(GreetingAndPing) = OnePing
    BY DEF GreetingAndPing, OnePing
  <1>8. /\ Head(Greeting) = "authed" /\ Head(GreetingAndPing) = "authed"
        /\ Head(OnePing) = "ping"
    BY <1>1, <1>2
  <1> QED
    BY Zenon, <1>1, <1>3, <1>4, <1>40, <1>5, <1>6, <1>7, <1>8 DEF NoMessage

LEMMA Bounded ==
    ASSUME NEW low \in Nat, NEW high \in Nat, NEW n, Between(low, n, high)
    PROVE  n \in Nat /\ n >= low
  BY DEF Between

(* The durations that a session runs under are what validation asks for,   *)
(* and on the grid.                                                        *)
LEMMA GatewayDurations ==
    ASSUME KInv, stage = "serving", document \in Watched
    PROVE  /\ Ping \in Nat /\ Idle \in Nat /\ WriterTimeout \in Nat /\ Idle > Ping
           /\ OnGrid(Ping) /\ OnGrid(WriterTimeout) /\ OnGrid(IdleTickPeriod)
  <1>1. cfg = Parsed(document) /\ Accepts(cfg)
    BY DEF KInv, SInv, Loaded, Session
  <1>2. GatewayValid(cfg.gateway)
    BY <1>1 DEF Accepts
  <1>3. Ping \in Nat /\ Idle \in Nat /\ WriterTimeout \in Nat /\ Idle > Ping
    BY SMT, <1>2, Bounded DEF GatewayValid, Ping, Idle, WriterTimeout
  <1>4. OnGrid(Ping) /\ OnGrid(WriterTimeout) /\ OnGrid(IdleTickPeriod)
    BY Zenon, <1>1, GridAssumption DEF Ping, WriterTimeout
  <1> QED BY <1>3, <1>4

LEMMA Durations ==
    ASSUME KInv, pc # "none"
    PROVE  /\ Ping \in Nat /\ Idle \in Nat /\ WriterTimeout \in Nat /\ Idle > Ping
           /\ OnGrid(Ping) /\ OnGrid(WriterTimeout) /\ OnGrid(IdleTickPeriod)
           /\ latency \in Nat /\ OnGrid(latency)
  <1>1. stage = "serving" /\ document \in Watched /\ latency \in Latencies
    BY DEF KInv, Session
  <1>2. OnGrid(latency) /\ latency \in Nat
    BY Zenon, <1>1, GridAssumption, TimeAssumption
  <1> QED BY <1>1, <1>2, GatewayDurations

(* Once there is a session, the gateway and the durations stay as they are.*)
LEMMA Stays ==
    ASSUME KInv, [Next]_vars, pc # "none"
    PROVE  /\ UNCHANGED startupVars /\ latency' = latency /\ pc' # "none"
           /\ Ping' = Ping /\ Idle' = Idle /\ WriterTimeout' = WriterTimeout
           /\ Unhurried' = Unhurried
  <1>1. stage = "serving"
    BY DEF KInv, Session
  <1>2. ~Start /\ ~(\E bound \in Latencies : Open(bound))
    BY <1>1 DEF Start, StartupNext, Load, Build, Open
  <1>3. UNCHANGED startupVars /\ latency' = latency /\ pc' # "none"
    <2>1. CASE PingTick BY Zenon, <2>1 DEF PingTick, clientVars
    <2>2. CASE IdleTick BY <2>2 DEF IdleTick, clientVars, Ends
    <2>3. CASE Read BY Zenon, <2>3 DEF Read, loopVars
    <2>4. CASE HangUp BY <2>4 DEF HangUp, clientVars, Ends
    <2>5. CASE BeginWrite BY <2>5 DEF BeginWrite, clientVars
    <2>6. CASE EndWrite BY <2>6 DEF EndWrite
    <2>7. CASE WriteTimesOut BY <2>7 DEF WriteTimesOut, clientVars, Ends
    <2>8. CASE Arrive BY Zenon, <2>8 DEF Arrive, loopVars
    <2>9. CASE ClientSends BY Zenon, <2>9 DEF ClientSends, loopVars
    <2>10. CASE GoSilent BY Zenon, <2>10 DEF GoSilent, loopVars
    <2>11. CASE Advance BY <2>11 DEF Advance
    <2>12. CASE UNCHANGED vars BY Zenon, <2>12 DEF vars, loopVars, clientVars
    <2> QED
      BY Zenon, <1>2, <2>1, <2>2, <2>3, <2>4, <2>5, <2>6, <2>7, <2>8, <2>9, <2>10,
         <2>11, <2>12 DEF Next, Finished
  <1> QED BY <1>3 DEF startupVars, Ping, Idle, WriterTimeout, Unhurried

LEMMA KInvInit == Init => KInv
  <1> SUFFICES ASSUME Init PROVE KInv
    OBVIOUS
  <1>1. SInv
    BY DEF Init, StartupInit, SInv, Loaded, TenantsResolve
  <1>2. Session
    BY DEF Init, StartupInit, Session
  <1>3. Types
    <2>1. <<>> \in Seq(Nat) /\ <<>> \in Seq({"authed", "ping"})
      OBVIOUS
    <2>2. stalled \in Nat /\ elapsed \in Nat /\ ping_due \in Int /\ idle_due \in Int
          /\ buffered \in Nat /\ pc # "writing"
      BY DEF Init
    <2>3. out \in Seq({"authed", "ping"}) /\ inflight \in Seq(Nat) /\ silent \in BOOLEAN
          /\ why = "open" /\ stage = "load"
      BY Zenon, <2>1 DEF Init, StartupInit
    <2> QED BY Zenon, <2>2, <2>3 DEF Types
  <1> QED BY <1>1, <1>2, <1>3 DEF KInv

LEMMA TypesNext == ASSUME KInv, [Next]_vars, pc # "none" PROVE Types' /\ Session'
  <1>1. /\ UNCHANGED startupVars /\ latency' = latency /\ pc' # "none"
        /\ Ping \in Nat /\ Types /\ Session /\ Step \in Nat
    BY Stays, Durations, TimeAssumption DEF KInv
  <1>2. ~Start /\ ~(\E bound \in Latencies : Open(bound))
    BY <1>1 DEF Session, Start, StartupNext, Load, Build, Open
  <1>3. CASE PingTick
    BY <1>1, <1>3 DEF Types, Session, PingTick, startupVars, clientVars
  <1>4. CASE IdleTick
    BY <1>1, <1>4 DEF Types, Session, IdleTick, Ends, IdleTickPeriod, startupVars, clientVars
  <1>5. CASE Read
    BY <1>1, <1>5 DEF Types, Session, Read, startupVars, loopVars
  <1>6. CASE HangUp
    BY <1>1, <1>6 DEF Types, Session, HangUp, Ends, startupVars, clocks, clientVars
  <1>7. CASE BeginWrite
    BY <1>1, <1>7 DEF Types, Session, BeginWrite, startupVars, clocks, clientVars
  <1>8. CASE EndWrite
    BY <1>1, <1>8 DEF Types, Session, EndWrite, startupVars, clocks
  <1>9. CASE WriteTimesOut
    BY <1>1, <1>9 DEF Types, Session, WriteTimesOut, Ends, startupVars, clocks, clientVars
  <1>10. CASE Arrive
    BY <1>1, <1>10 DEF Types, Session, Arrive, startupVars, loopVars, clocks
  <1>11. CASE ClientSends
    BY <1>1, <1>11 DEF Types, Session, ClientSends, startupVars, loopVars, clocks
  <1>12. CASE GoSilent
    BY <1>1, <1>12 DEF Types, Session, GoSilent, startupVars, loopVars, clocks
  <1>13. CASE Advance
    <2>1. inflight' \in Seq(Nat)
      <3>1. inflight \in Seq(Nat)
        BY <1>1 DEF Types
      <3>2. inflight' = [i \in 1 .. Len(inflight) |-> inflight[i] + Step]
        BY <1>13, <3>1 DEF Advance
      <3>3. \A i \in 1 .. Len(inflight) : inflight[i] + Step \in Nat
        BY <1>1, <3>1
      <3> QED BY <3>1, <3>2, <3>3
    <2> QED
      BY <1>1, <1>13, <2>1 DEF Types, Session, Advance, startupVars
  <1>14. CASE UNCHANGED vars
    BY <1>1, <1>14 DEF Types, Session, vars, startupVars, loopVars, clocks, clientVars
  <1> QED
    BY Zenon, <1>2, <1>3, <1>4, <1>5, <1>6, <1>7, <1>8, <1>9, <1>10, <1>11, <1>12,
       <1>13, <1>14 DEF Next, Finished

LEMMA KInvNext == ASSUME KInv, [Next]_vars PROVE KInv'
  <1>1. CASE pc # "none"
    <2>1. Types' /\ Session' /\ UNCHANGED startupVars
      BY <1>1, TypesNext, Stays
    <2>2. SInv'
      BY Zenon, <2>1 DEF KInv, SInv, Loaded, TenantsResolve, startupVars
    <2> QED BY <2>1, <2>2 DEF KInv
  <1>2. CASE pc = "none" /\ Start
    <2>1. SInv'
      BY SMTT(60), <1>2, SInvLoad, SInvBuild DEF KInv, Start, StartupNext
    <2>2. Session'
      BY SMTT(60), <1>2 DEF KInv, Session, Start, StartupNext, Load, Build, loopVars, clocks, clientVars
    <2>3. Types'
      BY <1>2 DEF KInv, Types, Start, StartupNext, Load, Build, loopVars, clocks, clientVars
    <2> QED BY <2>1, <2>2, <2>3 DEF KInv
  <1>3. CASE pc = "none" /\ \E bound \in Latencies : Open(bound)
    <2>1. PICK bound \in Latencies : Open(bound)
      BY <1>3
    <2>2. SInv'
      BY Zenon, <2>1 DEF KInv, SInv, Loaded, TenantsResolve, Open, startupVars
    <2>3. Session'
      BY <1>3, <2>1 DEF KInv, Session, Open, startupVars, clocks
    <2>4. Types'
      BY <1>3, <2>1 DEF KInv, Types, Open, startupVars, clocks
    <2> QED BY <2>2, <2>3, <2>4 DEF KInv
  <1>4. CASE UNCHANGED vars
    BY Zenon, <1>4
    DEF KInv, SInv, Loaded, TenantsResolve, Session, Types, vars, startupVars, loopVars, clocks,
        clientVars
  <1> QED
    BY <1>1, <1>2, <1>3, <1>4
    DEF Next, PingTick, IdleTick, Read, HangUp, BeginWrite, EndWrite, WriteTimesOut, Arrive,
        ClientSends, GoSilent, Advance, Finished

-----------------------------------------------------------------------------
(* Each step of a session keeps its clocks in time.                        *)

Numbers ==
    /\ Ping \in Nat /\ Idle \in Nat /\ WriterTimeout \in Nat /\ latency \in Nat
    /\ Idle > Ping /\ 2 * WriterTimeout < Ping
    /\ stalled \in Nat /\ elapsed \in Nat /\ ping_due \in Int /\ idle_due \in Int
    /\ inflight \in Seq(Nat) /\ buffered \in Nat
    /\ Step \in Nat /\ Step > 0
    /\ pc = "writing" => out # NoMessage

OnGridAll ==
    OnGrid(Ping) /\ OnGrid(WriterTimeout) /\ OnGrid(IdleTickPeriod) /\ OnGrid(latency)

LEMMA Situation ==
    ASSUME TInv, Unhurried, pc \in {"select", "writing"}
    PROVE  /\ Numbers /\ OnGridAll
           /\ Writes /\ IdleTicks /\ OnSteps /\ (~silent => Heard) /\ silent \in BOOLEAN
  <1>1. KInv /\ pc # "none"
    BY DEF TInv
  <1>2. Types
    BY <1>1 DEF KInv
  <1>3. Running
    BY DEF TInv, Timely
  <1>4. Numbers
    BY <1>1, <1>2, TimeAssumption, Durations DEF Numbers, Types, NoMessage, Unhurried
  <1>5. OnGridAll
    BY <1>1, Durations DEF OnGridAll
  <1>6. silent \in BOOLEAN
    BY Zenon, <1>2 DEF Types
  <1> QED BY Zenon, <1>3, <1>4, <1>5, <1>6 DEF Running

LEMMA Fixed ==
    ASSUME TInv, pc \in {"select", "writing"}, Next
    PROVE  /\ Ping' = Ping /\ Idle' = Idle /\ WriterTimeout' = WriterTimeout
           /\ latency' = latency
  <1>1. KInv /\ pc # "none"
    BY DEF TInv
  <1> QED BY Zenon, <1>1, Stays

(* What is queued and due takes two writes at most, and one once the        *)
(* greeting has been written.                                              *)
LEMMA Spans ==
    ASSUME Numbers, Writes
    PROVE  /\ Left \in Nat /\ Due \in Nat /\ Left + Due <= 2 * WriterTimeout
           /\ out \in {NoMessage, OnePing} => Left + Due <= WriterTimeout
           /\ out = NoMessage => Left = 0
  BY Queues DEF Numbers, Writes, Left, Due

(* The pongs that are under way grow older by a step.                      *)
LEMMA Ages ==
    ASSUME Numbers, OnGridAll, OnSteps, Advance, latency' = latency
    PROVE  /\ \A i \in DOMAIN inflight' : OnGrid(inflight'[i]) /\ inflight'[i] <= latency
           /\ inflight' = <<>> <=> inflight = <<>>
           /\ inflight # <<>> => inflight[1] \in Nat /\ inflight'[1] = inflight[1] + Step
  <1>1. inflight \in Seq(Nat) /\ latency \in Nat /\ OnGrid(latency) /\ Step \in Nat
    BY DEF Numbers, OnGridAll
  <1>2. /\ \A i \in DOMAIN inflight : inflight[i] < latency /\ OnGrid(inflight[i])
        /\ inflight' = [i \in DOMAIN inflight |-> inflight[i] + Step]
    BY Zenon DEF Advance, OnSteps
  <1>3. \A i \in DOMAIN inflight : /\ inflight[i] \in Nat
                                   /\ inflight[i] + Step <= latency
                                   /\ OnGrid(inflight[i] + Step)
    <2> SUFFICES ASSUME NEW i \in DOMAIN inflight
                 PROVE  /\ inflight[i] \in Nat /\ inflight[i] + Step <= latency
                        /\ OnGrid(inflight[i] + Step)
      BY Zenon
    <2>1. inflight[i] \in Int /\ inflight[i] \in Nat /\ latency \in Int
      BY <1>1
    <2>2. inflight[i] < latency /\ OnGrid(inflight[i])
      BY Zenon, <1>2
    <2> QED BY Zenon, <1>1, <2>1, <2>2, Grid
  <1>4. DOMAIN inflight' = DOMAIN inflight
        /\ \A i \in DOMAIN inflight : inflight'[i] = inflight[i] + Step
    BY Zenon, <1>2
  <1>5. inflight # <<>> <=> 1 \in DOMAIN inflight
    BY <1>1
  <1>6. inflight' # <<>> <=> 1 \in DOMAIN inflight'
    <2>1. inflight' = [i \in 1 .. Len(inflight) |-> inflight[i] + Step]
      BY <1>1, <1>2
    <2>2. inflight' \in Seq(Nat)
      BY <1>1, <1>3, <2>1
    <2> QED BY <2>2
  <1> QED BY Zenon, <1>3, <1>4, <1>5, <1>6

LEMMA RunningPingTick ==
    ASSUME TInv, Unhurried, PingTick PROVE Running'
  <1>1. pc \in {"select", "writing"} /\ Next /\ pc = "select"
    BY Zenon DEF PingTick, Next
  <1>2. /\ Numbers /\ OnGridAll /\ Writes /\ IdleTicks /\ OnSteps /\ (~silent => Heard)
    BY Zenon, <1>1, Situation
  <1>3. /\ ping_due <= 0 /\ out' = Append(out, "ping") /\ ping_due' = ping_due + Ping
        /\ pc' = pc /\ stalled' = stalled /\ idle_due' = idle_due /\ elapsed' = elapsed
        /\ silent' = silent /\ inflight' = inflight /\ buffered' = buffered
    BY Zenon DEF PingTick, clientVars
  <1>4. /\ Ping' = Ping /\ Idle' = Idle /\ WriterTimeout' = WriterTimeout
        /\ latency' = latency
    BY Zenon, <1>1, Fixed
  <1>5. \/ out = NoMessage /\ out' = OnePing
        \/ out = Greeting /\ out' = GreetingAndPing
    <2>1. out \notin {GreetingAndPing, OnePing}
      BY <1>2, <1>3 DEF Writes, Numbers
    <2> QED BY Zenon, <1>2, <1>3, <2>1, Queues DEF Writes
  <1>6. /\ Left' = Left + WriterTimeout /\ Due = WriterTimeout /\ Due' = 0 /\ ping_due' > 0
        /\ Left \in Int /\ Left - ping_due <= WriterTimeout
        /\ out = NoMessage => Left = 0
    BY <1>1, <1>2, <1>3, <1>4, <1>5, Queues DEF Left, Due, Writes, Numbers
  <1>7. Writes'
    BY <1>1, <1>2, <1>3, <1>4, <1>5, <1>6, Queues DEF Writes, Numbers
  <1>8. IdleTicks'
    BY <1>2, <1>3, <1>4, <1>6 DEF IdleTicks, IdleTickPeriod, Numbers
  <1>9. OnSteps'
    BY <1>2, <1>3, <1>4, Grid DEF OnSteps, Numbers, OnGridAll
  <1>10. ASSUME Heard PROVE Heard'
    <2>1. First' /\ Answered'
      BY <1>3, <1>4, <1>5, <1>6, <1>10, Queues DEF Heard, First, Answered
    <2>2. Asked'
      BY <1>2, <1>3, <1>4, <1>5, <1>6, <1>10, Queues DEF Heard, First, Answered, Asked, Numbers
    <2>3. Answering' /\ Unread'
      BY <1>2, <1>3, <1>4, <1>6, <1>10 DEF Heard, Answering, Unread, Numbers
    <2> QED BY Zenon, <2>1, <2>2, <2>3 DEF Heard
  <1> QED BY Zenon, <1>2, <1>3, <1>7, <1>8, <1>9, <1>10 DEF Running

LEMMA RunningIdleTick ==
    ASSUME TInv, Unhurried, IdleTick, elapsed < Idle PROVE Running'
  <1>1. pc \in {"select", "writing"} /\ pc = "select" /\ Next
    BY Zenon DEF IdleTick, Next
  <1>2. /\ Numbers /\ OnGridAll /\ Writes /\ IdleTicks /\ OnSteps /\ (~silent => Heard)
    BY Zenon, <1>1, Situation
  <1>3. /\ idle_due <= 0 /\ idle_due' = idle_due + IdleTickPeriod
        /\ pc' = pc /\ out' = out /\ stalled' = stalled /\ ping_due' = ping_due
        /\ elapsed' = elapsed /\ silent' = silent /\ inflight' = inflight
        /\ buffered' = buffered
    <2>1. ~(elapsed >= Idle)
      BY <1>2 DEF Numbers
    <2> QED BY Zenon, <2>1 DEF IdleTick, clientVars
  <1>4. /\ Ping' = Ping /\ Idle' = Idle /\ WriterTimeout' = WriterTimeout
        /\ latency' = latency
    BY Zenon, <1>1, Fixed
  <1>5. Left' = Left /\ Due' = Due
    BY Zenon, <1>3, <1>4 DEF Left, Due
  <1>6. Writes'
    BY Zenon, <1>2, <1>3, <1>4, <1>5 DEF Writes
  <1>7. IdleTicks'
    BY <1>2, <1>3, <1>4, <1>5, Spans DEF IdleTicks, IdleTickPeriod, Numbers
  <1>8. OnSteps'
    <2>1. IdleTickPeriod \in Int
      BY DEF IdleTickPeriod
    <2>2. OnGrid(idle_due')
      BY <1>2, <1>3, <2>1, Grid DEF OnSteps, Numbers, OnGridAll
    <2> QED BY Zenon, <1>2, <1>3, <1>4, <2>2 DEF OnSteps
  <1>9. ASSUME Heard PROVE Heard'
    BY Zenon, <1>3, <1>4, <1>5, <1>9 DEF Heard, First, Answered, Asked, Answering, Unread
  <1> QED BY Zenon, <1>2, <1>3, <1>6, <1>7, <1>8, <1>9 DEF Running

LEMMA RunningRead ==
    ASSUME TInv, Unhurried, Read PROVE Running'
  <1>1. pc \in {"select", "writing"} /\ Next
    BY Zenon DEF Read, Next
  <1>2. /\ Numbers /\ OnGridAll /\ Writes /\ IdleTicks /\ OnSteps /\ (~silent => Heard)
    BY Zenon, <1>1, Situation
  <1>3. /\ buffered > 0 /\ buffered' = buffered - 1 /\ elapsed' = 0
        /\ pc' = pc /\ out' = out /\ stalled' = stalled /\ ping_due' = ping_due
        /\ idle_due' = idle_due /\ silent' = silent /\ inflight' = inflight
    BY Zenon DEF Read, loopVars
  <1>4. /\ Ping' = Ping /\ Idle' = Idle /\ WriterTimeout' = WriterTimeout
        /\ latency' = latency
    BY Zenon, <1>1, Fixed
  <1>5. Left' = Left /\ Due' = Due
    BY Zenon, <1>3, <1>4 DEF Left, Due
  <1>6. Writes'
    BY Zenon, <1>2, <1>3, <1>4, <1>5 DEF Writes
  <1>7. IdleTicks'
    BY <1>2, <1>3, <1>4, <1>5 DEF IdleTicks, IdleTickPeriod, Numbers
  <1>8. OnSteps'
    BY Zenon, <1>2, <1>3, <1>4 DEF OnSteps
  <1>9. ASSUME Heard PROVE Heard'
    <2>1. First' /\ Answered'
      BY <1>2, <1>3, <1>4, <1>9 DEF Heard, First, Answered, Writes, Numbers
    <2>2. Asked'
      BY <1>2, <1>3, <1>4, <1>5, Spans DEF Asked, Numbers
    <2>3. Answering'
      BY <1>2, <1>3, <1>4 DEF Answering, Numbers
    <2>4. Unread'
      BY <1>2, <1>3, <1>4, <1>5, Spans DEF Unread, Numbers
    <2> QED BY Zenon, <2>1, <2>2, <2>3, <2>4 DEF Heard
  <1> QED BY Zenon, <1>2, <1>3, <1>6, <1>7, <1>8, <1>9 DEF Running

LEMMA RunningBeginWrite ==
    ASSUME TInv, Unhurried, BeginWrite PROVE Running'
  <1>1. pc \in {"select", "writing"} /\ pc = "select" /\ Next
    BY Zenon DEF BeginWrite, Next
  <1>2. /\ Numbers /\ OnGridAll /\ Writes /\ IdleTicks /\ OnSteps /\ (~silent => Heard)
    BY Zenon, <1>1, Situation
  <1>3. /\ pc' = "writing" /\ stalled' = 0 /\ out' = out /\ ping_due' = ping_due
        /\ idle_due' = idle_due /\ elapsed' = elapsed /\ silent' = silent
        /\ inflight' = inflight /\ buffered' = buffered
    BY Zenon DEF BeginWrite, clocks, clientVars
  <1>4. /\ Ping' = Ping /\ Idle' = Idle /\ WriterTimeout' = WriterTimeout
        /\ latency' = latency
    BY Zenon, <1>1, Fixed
  <1>5. stalled' = stalled
    BY Zenon, <1>1, <1>2, <1>3 DEF Writes
  <1>6. Left' = Left /\ Due' = Due
    BY Zenon, <1>3, <1>4, <1>5 DEF Left, Due
  <1>7. Writes'
    BY Zenon, <1>2, <1>3, <1>4, <1>5, <1>6 DEF Writes
  <1>8. IdleTicks' /\ OnSteps'
    BY Zenon, <1>2, <1>3, <1>4, <1>5, <1>6 DEF IdleTicks, OnSteps
  <1>9. ASSUME Heard PROVE Heard'
    BY Zenon, <1>3, <1>4, <1>6, <1>9 DEF Heard, First, Answered, Asked, Answering, Unread
  <1> QED BY Zenon, <1>2, <1>3, <1>7, <1>8, <1>9 DEF Running

LEMMA RunningEndWrite ==
    ASSUME TInv, Unhurried, EndWrite PROVE Running'
  <1>1. pc \in {"select", "writing"} /\ pc = "writing" /\ Next
    BY Zenon DEF EndWrite, Next
  <1>2. /\ Numbers /\ OnGridAll /\ Writes /\ IdleTicks /\ OnSteps /\ (~silent => Heard)
    BY Zenon, <1>1, Situation
  <1>3. /\ pc' = "select" /\ stalled' = 0 /\ ping_due' = ping_due
        /\ idle_due' = idle_due /\ elapsed' = elapsed /\ silent' = silent
        /\ buffered' = buffered
    BY Zenon DEF EndWrite, clocks
  <1>4. /\ Ping' = Ping /\ Idle' = Idle /\ WriterTimeout' = WriterTimeout
        /\ latency' = latency
    BY Zenon, <1>1, Fixed
  <1>5. \/ out = Greeting /\ out' = NoMessage /\ inflight' = inflight
        \/ out = GreetingAndPing /\ out' = OnePing /\ inflight' = inflight
        \/ /\ out = OnePing /\ out' = NoMessage
           /\ inflight' = IF silent THEN inflight ELSE Append(inflight, 0)
    <2>1. out \in {Greeting, GreetingAndPing, OnePing}
      BY Zenon, <1>1, <1>2 DEF Writes, Numbers
    <2>2. /\ out' = Tail(out)
          /\ inflight' =
               IF Head(out) = "ping" /\ ~silent THEN Append(inflight, 0) ELSE inflight
      BY Zenon DEF EndWrite
    <2>3. CASE out = OnePing
      <3>1. Head(out) = "ping" /\ Tail(out) = NoMessage
        BY <2>3, Queues
      <3> QED BY Zenon, <2>2, <2>3, <3>1
    <2>4. CASE out \in {Greeting, GreetingAndPing}
      <3>1. Head(out) # "ping"
        BY <2>4, Queues
      <3> QED BY Zenon, <1>3, <2>2, <2>4, <3>1, Queues
    <2> QED BY Zenon, <2>1, <2>3, <2>4
  <1>6. PICK left \in Nat, spent \in Nat, due \in Nat :
           /\ Left = left + spent /\ Left' = left /\ Due' = due /\ Due = due
           /\ out' = NoMessage => left = 0
    <2>1. /\ Left' \in Nat /\ Left - Left' \in Nat /\ Left \in Nat /\ Due' = Due /\ Due \in Nat
          /\ out' = NoMessage => Left' = 0
      BY <1>2, <1>3, <1>4, <1>5, Queues, Spans DEF Left, Due, Writes, Numbers
    <2>2. \A l, m \in Nat : m = l + (m - l)
      OBVIOUS
    <2> QED BY Zenon, <2>1, <2>2
  <1>7. Writes'
    BY <1>2, <1>3, <1>4, <1>5, <1>6, Queues DEF Writes, Numbers
  <1>8. IdleTicks'
    BY <1>2, <1>3, <1>4, <1>6 DEF IdleTicks, IdleTickPeriod, Numbers
  <1>9. OnSteps'
    <2>1. OnGrid(0)
      BY TimeAssumption DEF OnGrid
    <2>2. \A i \in DOMAIN inflight' : OnGrid(inflight'[i]) /\ inflight'[i] <= latency
      <3>1. CASE inflight' = inflight
        BY Zenon, <1>2, <3>1 DEF OnSteps
      <3>2. CASE inflight' = Append(inflight, 0)
        BY <1>2, <2>1, <3>2 DEF OnSteps, Numbers
      <3> QED BY Zenon, <1>5, <3>1, <3>2
    <2> QED BY Zenon, <1>2, <1>3, <1>4, <2>1, <2>2 DEF OnSteps
  <1>10. ASSUME Heard, ~silent PROVE Heard'
    <2>1. CASE out = OnePing
      <3>1. /\ out' = NoMessage /\ inflight' = Append(inflight, 0) /\ inflight' # <<>>
            /\ inflight = <<>> => inflight'[1] = 0
            /\ inflight # <<>> => inflight'[1] = inflight[1]
        BY <1>2, <1>5, <1>10, <2>1, Queues DEF Numbers
      <3>2. First' /\ Answered' /\ Asked'
        BY <1>2, <1>3, <2>1, <3>1, Queues DEF First, Answered, Asked, Writes, Numbers
      <3>3. Answering'
        BY <1>2, <1>3, <1>4, <1>6, <1>10, <2>1, <3>1 DEF Heard, Answering, Asked, Numbers
      <3>4. Unread'
        BY <1>2, <1>3, <1>4, <1>6, <1>10 DEF Heard, Unread, Numbers
      <3> QED BY Zenon, <3>2, <3>3, <3>4 DEF Heard
    <2>2. CASE inflight' = inflight /\ out \in {Greeting, GreetingAndPing}
      <3>1. First' /\ Answered'
        BY <1>2, <1>3, <1>4, <1>5, <1>10, <2>2, Queues DEF Heard, First, Answered, Writes, Numbers
      <3>2. Asked'
        BY <1>2, <1>3, <1>4, <1>5, <1>6, <1>10, <2>2, Queues DEF Heard, Asked, Numbers
      <3>3. Answering' /\ Unread'
        BY <1>2, <1>3, <1>4, <1>6, <1>10, <2>2 DEF Heard, Answering, Unread, Numbers
      <3> QED BY Zenon, <3>1, <3>2, <3>3 DEF Heard
    <2> QED BY Zenon, <1>5, <2>1, <2>2
  <1> QED BY Zenon, <1>2, <1>3, <1>7, <1>8, <1>9, <1>10 DEF Running

LEMMA RunningFrame ==
    ASSUME TInv, Unhurried, Arrive \/ ClientSends PROVE Running'
  <1>1. pc \in {"select", "writing"} /\ Next
    BY Zenon DEF Arrive, ClientSends, Next
  <1>2. /\ Numbers /\ OnGridAll /\ Writes /\ IdleTicks /\ OnSteps /\ (~silent => Heard)
    BY Zenon, <1>1, Situation
  <1>3. /\ buffered' = buffered + 1
        /\ pc' = pc /\ out' = out /\ stalled' = stalled /\ ping_due' = ping_due
        /\ idle_due' = idle_due /\ elapsed' = elapsed /\ silent' = silent
    BY Zenon DEF Arrive, ClientSends, loopVars, clocks
  <1>4. /\ Ping' = Ping /\ Idle' = Idle /\ WriterTimeout' = WriterTimeout
        /\ latency' = latency
    BY Zenon, <1>1, Fixed
  <1>5. Left' = Left /\ Due' = Due
    BY Zenon, <1>3, <1>4 DEF Left, Due
  <1>6. Writes' /\ IdleTicks'
    BY Zenon, <1>2, <1>3, <1>4, <1>5 DEF Writes, IdleTicks
  <1>7. \/ inflight' = inflight
        \/ inflight # <<>> /\ inflight' = Tail(inflight)
    BY Zenon DEF Arrive, ClientSends
  <1>8. OnSteps'
    <2>1. \A i \in DOMAIN inflight' : OnGrid(inflight'[i]) /\ inflight'[i] <= latency
      <3>1. CASE inflight' = inflight
        BY Zenon, <1>2, <3>1 DEF OnSteps
      <3>2. CASE inflight # <<>> /\ inflight' = Tail(inflight)
        BY <1>2, <3>2 DEF OnSteps, Numbers
      <3> QED BY <1>7, <3>1, <3>2
    <2> QED BY Zenon, <1>2, <1>3, <1>4, <2>1 DEF OnSteps
  <1>9. ASSUME Heard PROVE Heard'
    <2>1. First'
      BY Zenon, <1>3, <1>7, <1>9 DEF Heard, First
    <2>2. Answered' /\ Asked' /\ Answering'
      BY <1>2, <1>3 DEF Answered, Asked, Answering, Numbers
    <2>3. elapsed + Left + Due <= Ping + latency + 2 * WriterTimeout
      <3>1. CASE buffered > 0
        BY Zenon, <1>9, <3>1 DEF Heard, Unread
      <3>2. CASE buffered = 0 /\ inflight # <<>>
        <4>1. inflight[1] \in Nat /\ inflight[1] <= latency
          BY <1>2, <3>2 DEF OnSteps, Numbers
        <4>2. out \in {NoMessage, OnePing}
          BY Zenon, <1>2, <1>9, <3>2 DEF Heard, First, Writes
        <4> QED BY SMTT(60), <1>2, <1>9, <3>2, <4>1, <4>2, Spans DEF Heard, Answering, Numbers
      <3>3. CASE buffered = 0 /\ inflight = <<>> /\ out \in {GreetingAndPing, OnePing}
        BY <1>2, <1>9, <3>3, Spans DEF Heard, Asked, Writes, Due, Numbers
      <3>4. CASE buffered = 0 /\ inflight = <<>> /\ out \in {NoMessage, Greeting}
        BY <1>2, <1>9, <3>4, Spans, Queues DEF Heard, Answered, Writes, Due, Numbers
      <3>5. out \in {NoMessage, Greeting, GreetingAndPing, OnePing}
        BY Zenon, <1>2 DEF Writes
      <3> QED BY <1>2, <3>1, <3>2, <3>3, <3>4, <3>5 DEF Numbers
    <2>4. Unread'
      BY Zenon, <1>3, <1>4, <1>5, <2>3 DEF Unread
    <2> QED BY Zenon, <2>1, <2>2, <2>4 DEF Heard
  <1> QED BY Zenon, <1>2, <1>3, <1>6, <1>8, <1>9 DEF Running

LEMMA RunningGoSilent ==
    ASSUME TInv, Unhurried, GoSilent PROVE Running'
  <1>1. pc \in {"select", "writing"} /\ Next
    BY Zenon DEF GoSilent, Next
  <1>2. /\ Numbers /\ OnGridAll /\ Writes /\ IdleTicks /\ OnSteps /\ (~silent => Heard)
    BY Zenon, <1>1, Situation
  <1>3. /\ pc' = pc /\ out' = out /\ stalled' = stalled /\ ping_due' = ping_due
        /\ idle_due' = idle_due /\ elapsed' = elapsed /\ silent' = TRUE
        /\ inflight' = inflight
    BY Zenon DEF GoSilent, loopVars, clocks
  <1>4. /\ Ping' = Ping /\ Idle' = Idle /\ WriterTimeout' = WriterTimeout
        /\ latency' = latency
    BY Zenon, <1>1, Fixed
  <1>5. Left' = Left /\ Due' = Due
    BY Zenon, <1>3, <1>4 DEF Left, Due
  <1> QED BY Zenon, <1>2, <1>3, <1>4, <1>5 DEF Running, Writes, IdleTicks, OnSteps

(* Time passes while the loop waits for something to do.                   *)
LEMMA RunningWait ==
    ASSUME TInv, Unhurried, Advance, pc = "select" PROVE Running'
  <1>1. pc \in {"select", "writing"} /\ Next
    BY Zenon DEF Advance, Next
  <1>2. /\ Numbers /\ OnGridAll /\ Writes /\ IdleTicks /\ OnSteps /\ (~silent => Heard)
    BY Zenon, <1>1, Situation
  <1>3. /\ ping_due' = ping_due - Step /\ idle_due' = idle_due - Step
        /\ elapsed' = elapsed + Step /\ stalled' = stalled
        /\ pc' = pc /\ out' = out /\ silent' = silent /\ buffered' = buffered
    BY Zenon DEF Advance
  <1>4. /\ Ping' = Ping /\ Idle' = Idle /\ WriterTimeout' = WriterTimeout
        /\ latency' = latency
    BY Zenon, <1>1, Fixed
  <1>5. out = NoMessage /\ buffered = 0 /\ ping_due > 0 /\ idle_due > 0
    <2>1. ~Ready
      BY Zenon DEF Advance
    <2> QED BY <1>2, <2>1, Queues DEF Ready, Numbers
  <1>6. /\ 0 <= ping_due' /\ 0 <= idle_due' /\ OnGrid(ping_due') /\ OnGrid(idle_due')
    <2>1. OnGrid(0)
      BY TimeAssumption DEF OnGrid
    <2> QED BY <1>2, <1>3, <1>5, <2>1, Grid DEF OnSteps, Numbers
  <1>7. PICK due \in Nat : Left' = 0 /\ Left = 0 /\ Due' = due /\ due <= WriterTimeout
    <2>1. Left' = 0 /\ Left = 0 /\ Due' \in {0, WriterTimeout}
      BY Zenon, <1>3, <1>4, <1>5 DEF Left, Due
    <2> QED BY <1>2, <2>1 DEF Numbers
  <1>8. Writes'
    BY <1>2, <1>3, <1>4, <1>5, <1>6, <1>7, Queues DEF Writes, Numbers
  <1>9. IdleTicks'
    BY <1>2, <1>3, <1>4, <1>6, <1>7 DEF IdleTicks, IdleTickPeriod, Numbers
  <1>10. OnSteps'
    BY Zenon, <1>1, <1>2, <1>3, <1>4, <1>6, Ages DEF OnSteps
  <1>11. ASSUME Heard PROVE Heard'
    <2>1. First'
      BY <1>2, <1>3, <1>5, <1>6, Queues DEF First, Numbers
    <2>2. Answered'
      BY <1>1, <1>2, <1>3, <1>4, <1>5, <1>11, Ages DEF Heard, Answered, Numbers
    <2>3. Asked' /\ Unread'
      BY <1>2, <1>3, <1>5, Queues DEF Asked, Unread, Numbers
    <2>4. Answering'
      BY <1>1, <1>2, <1>3, <1>4, <1>5, <1>11, Ages DEF Heard, Answering, Numbers
    <2> QED BY Zenon, <2>1, <2>2, <2>3, <2>4 DEF Heard
  <1> QED BY Zenon, <1>2, <1>3, <1>8, <1>9, <1>10, <1>11 DEF Running

(* Time passes while a write stalls.                                       *)
LEMMA RunningStall ==
    ASSUME TInv, Unhurried, Advance, pc = "writing" PROVE Running'
  <1>1. pc \in {"select", "writing"} /\ Next
    BY Zenon DEF Advance, Next
  <1>2. /\ Numbers /\ OnGridAll /\ Writes /\ IdleTicks /\ OnSteps /\ (~silent => Heard)
    BY Zenon, <1>1, Situation
  <1>3. /\ ping_due' = ping_due - Step /\ idle_due' = idle_due - Step
        /\ elapsed' = elapsed + Step /\ stalled' = stalled + Step /\ stalled < WriterTimeout
        /\ pc' = pc /\ out' = out /\ silent' = silent /\ buffered' = buffered
    BY Zenon DEF Advance
  <1>4. /\ Ping' = Ping /\ Idle' = Idle /\ WriterTimeout' = WriterTimeout
        /\ latency' = latency
    BY Zenon, <1>1, Fixed
  <1>5. /\ stalled' <= WriterTimeout
        /\ idle_due > 0 => idle_due' >= 0
        /\ OnGrid(ping_due') /\ OnGrid(idle_due') /\ OnGrid(stalled')
    <2>1. OnGrid(0)
      BY TimeAssumption DEF OnGrid
    <2> QED BY <1>2, <1>3, <2>1, Grid DEF OnSteps, OnGridAll, Numbers
  <1>6. out \in {Greeting, GreetingAndPing, OnePing}
    BY Zenon, <1>1, <1>2 DEF Writes, Numbers
  <1>7. PICK left \in Nat :
          /\ Left = left + Step /\ Left' = left
          /\ out = GreetingAndPing => left = 2 * WriterTimeout - stalled'
          /\ out # GreetingAndPing => left = WriterTimeout - stalled'
    <2>1. /\ out = GreetingAndPing =>
               Left = 2 * WriterTimeout - stalled /\ Left' = 2 * WriterTimeout - stalled'
          /\ out # GreetingAndPing =>
               Left = WriterTimeout - stalled /\ Left' = WriterTimeout - stalled'
      BY Zenon, <1>3, <1>4, <1>6, Queues DEF Left
    <2>2. CASE out = GreetingAndPing
      <3>1. 2 * WriterTimeout - stalled' \in Nat
            /\ 2 * WriterTimeout - stalled = (2 * WriterTimeout - stalled') + Step
        BY <1>2, <1>3, <1>5 DEF Numbers
      <3> QED BY Zenon, <2>1, <2>2, <3>1
    <2>3. CASE out # GreetingAndPing
      <3>1. WriterTimeout - stalled' \in Nat
            /\ WriterTimeout - stalled = (WriterTimeout - stalled') + Step
        BY <1>2, <1>3, <1>5 DEF Numbers
      <3> QED BY Zenon, <2>1, <2>3, <3>1
    <2> QED BY <2>2, <2>3
  <1>8. /\ out \in {GreetingAndPing, OnePing} => ping_due > 0 /\ ping_due' > 0
        /\ out = Greeting => ping_due <= 0 /\ ping_due' <= 0
    BY <1>2, <1>3, <1>7 DEF Writes, Numbers
  <1>9. PICK due \in Nat : Due = due /\ Due' = due
    <2>1. Due' = Due /\ Due \in {0, WriterTimeout}
      BY SMTT(60), <1>2, <1>3, <1>4, <1>6, <1>8, Queues DEF Due, Numbers
    <2> QED BY <1>2, <2>1 DEF Numbers
  <1>10. Writes'
    BY <1>1, <1>2, <1>3, <1>4, <1>5, <1>6, <1>7, <1>8, Queues DEF Writes, Numbers
  <1>11. IdleTicks'
    BY <1>2, <1>3, <1>4, <1>5, <1>7, <1>9, Spans DEF IdleTicks, IdleTickPeriod, Numbers
  <1>12. OnSteps'
    BY Zenon, <1>1, <1>2, <1>3, <1>4, <1>5, Ages DEF OnSteps
  <1>13. ASSUME Heard PROVE Heard'
    <2>1. First'
      <3>1. inflight = <<>> => inflight' = <<>>
        BY Zenon, <1>2, <1>4, Ages
      <3>2. out = Greeting => elapsed' + ping_due' <= 0
        BY <1>2, <1>3, <1>13 DEF Heard, First, Numbers
      <3>3. ping_due' < 0 => out = Greeting
        BY <1>2, <1>3, <1>6, <1>8 DEF Numbers
      <3> QED BY Zenon, <1>3, <1>13, <3>1, <3>2, <3>3 DEF Heard, First
    <2>2. Answered'
      BY <1>1, <1>2, <1>3, <1>4, <1>13, Ages DEF Heard, Answered, Numbers
    <2>3. Asked'
      BY <1>1, <1>2, <1>3, <1>4, <1>7, <1>13, Ages DEF Heard, Asked, Numbers
    <2>4. Answering'
      BY <1>1, <1>2, <1>3, <1>4, <1>13, Ages DEF Heard, Answering, Numbers
    <2>5. Unread'
      BY <1>2, <1>3, <1>4, <1>7, <1>9, <1>13 DEF Heard, Unread, Numbers
    <2> QED BY Zenon, <2>1, <2>2, <2>3, <2>4, <2>5 DEF Heard
  <1> QED BY Zenon, <1>2, <1>3, <1>10, <1>11, <1>12, <1>13 DEF Running

-----------------------------------------------------------------------------
(* The invariant.                                                          *)

LEMMA RunningOpen ==
    ASSUME KInv, NEW bound \in Latencies, Open(bound), Unhurried' PROVE Running'
  <1>1. /\ out' = Greeting /\ pc' = "select" /\ stalled' = 0 /\ ping_due' = 0
        /\ idle_due' = 0 /\ elapsed' = 0 /\ inflight' = <<>> /\ buffered' = 0
    BY Zenon DEF Open, KInv, Session, clocks, Greeting
  <1>2. PICK w \in Nat, p \in Nat, d \in Nat :
          WriterTimeout' = w /\ Ping' = p /\ Idle' = d /\ d > p /\ p > 2 * w
    <2>1. Ping' = Ping /\ Idle' = Idle /\ WriterTimeout' = WriterTimeout
      BY Zenon DEF Open, startupVars, Ping, Idle, WriterTimeout
    <2>2. stage = "serving" /\ document \in Watched
      BY Zenon DEF Open
    <2>3. Ping' > 2 * WriterTimeout'
      BY <2>1, <2>2, GatewayDurations DEF Unhurried
    <2> QED BY Zenon, <2>1, <2>2, <2>3, GatewayDurations
  <1>3. Left' = w /\ Due' = w
    BY <1>1, <1>2, Queues DEF Left, Due
  <1>4. Writes'
    BY <1>1, <1>2, <1>3, Queues DEF Writes
  <1>5. IdleTicks'
    BY <1>1, <1>2, <1>3 DEF IdleTicks, IdleTickPeriod
  <1>6. OnSteps'
    BY <1>1, TimeAssumption DEF OnSteps, OnGrid
  <1>7. Heard'
    BY <1>1, <1>2, <1>3, Queues DEF Heard, First, Answered, Asked, Answering, Unread
  <1> QED BY Zenon, <1>4, <1>5, <1>6, <1>7 DEF Running

LEMMA RunningNext ==
    ASSUME TInv, Unhurried, pc \in {"select", "writing"}, [Next]_vars,
           pc' \in {"select", "writing"}
    PROVE  Running'
  <1>1. pc # "none" /\ pc # "closed" /\ pc' # "closed" /\ Step \in Nat /\ Idle \in Nat
        /\ elapsed \in Nat
    BY SMTT(60), Situation DEF Numbers
  <1>2. stage = "serving" /\ document \in Watched
    BY <1>1 DEF TInv, KInv, Session
  <1>3. ~Start /\ ~(\E bound \in Latencies : Open(bound))
    BY <1>1, <1>2 DEF Start, StartupNext, Load, Build, Open
  <1>4. CASE IdleTick
    <2>1. elapsed < Idle
      BY <1>1, <1>4 DEF IdleTick, Ends
    <2> QED BY Zenon, <1>4, <2>1, RunningIdleTick
  <1>5. CASE Advance
    BY Zenon, <1>5, RunningWait, RunningStall
  <1>6. CASE UNCHANGED vars
    <2>1. Running
      BY Zenon, Situation DEF Running
    <2> QED
      BY ZenonT(60), <1>6, <2>1
      DEF Running, Writes, IdleTicks, OnSteps, Heard, First, Answered, Asked, Answering, Unread,
          Left, Due, Ping, Idle, WriterTimeout, vars, startupVars, loopVars, clocks, clientVars
  <1>7. ~HangUp /\ ~WriteTimesOut
    BY Zenon, <1>1 DEF HangUp, WriteTimesOut, Ends
  <1>8. ~Finished \/ UNCHANGED vars
    BY Zenon DEF Finished
  <1> QED
    BY Zenon, <1>3, <1>4, <1>5, <1>6, <1>7, <1>8, RunningPingTick, RunningRead,
       RunningBeginWrite, RunningEndWrite, RunningFrame, RunningGoSilent DEF Next

(* An idle tick that finds the session idle for too long is one of a       *)
(* client that has fallen silent.                                          *)
LEMMA Expired ==
    ASSUME TInv, Unhurried, pc \in {"select", "writing"}, elapsed >= Idle,
           Ping + 2 * WriterTimeout + latency < Idle
    PROVE  silent
  <1>1. SUFFICES ASSUME ~silent PROVE FALSE
    OBVIOUS
  <1>2. Numbers /\ Writes /\ OnSteps /\ Heard
    BY Zenon, <1>1, Situation
  <1>3. Left \in Nat /\ Due \in Nat
    BY <1>2, Spans
  <1>4. CASE buffered > 0
    BY <1>2, <1>3, <1>4 DEF Heard, Unread, Numbers
  <1>5. CASE buffered = 0 /\ inflight # <<>>
    <2>1. inflight[1] \in Nat /\ inflight[1] <= latency
      BY <1>2, <1>5 DEF OnSteps, Numbers
    <2> QED BY <1>2, <1>5, <2>1 DEF Heard, Answering, Numbers
  <1>6. CASE buffered = 0 /\ inflight = <<>> /\ out \in {GreetingAndPing, OnePing}
    BY <1>2, <1>3, <1>6 DEF Heard, Asked, Numbers
  <1>7. CASE buffered = 0 /\ inflight = <<>> /\ out \in {NoMessage, Greeting}
    BY <1>2, <1>3, <1>7 DEF Heard, Answered, Writes, Numbers
  <1>8. out \in {NoMessage, Greeting, GreetingAndPing, OnePing} /\ buffered \in Nat
    BY Zenon, <1>2 DEF Writes, Numbers
  <1> QED BY <1>4, <1>5, <1>6, <1>7, <1>8

LEMMA TInvInit == Init => TInv
  BY KInvInit DEF TInv, Init, Timely, KeptAlive

LEMMA Closing ==
    ASSUME TInv, [Next]_vars, pc \in {"select", "writing"}, pc' = "closed"
    PROVE  /\ out' = out /\ silent' = silent
           /\ why' = "idle" => IdleTick /\ elapsed >= Idle
  <1>1. stage = "serving"
    BY DEF TInv, KInv, Session
  <1>2. ~Start /\ ~(\E bound \in Latencies : Open(bound))
    BY SMTT(60), <1>1 DEF Start, StartupNext, Load, Build, Open
  <1>3. IdleTick \/ HangUp \/ WriteTimesOut
    BY <1>2
    DEF Next, PingTick, Read, BeginWrite, EndWrite, Arrive, ClientSends, GoSilent, Advance,
        Finished, vars, loopVars
  <1> QED
    BY Zenon, <1>3 DEF IdleTick, HangUp, WriteTimesOut, Ends, clientVars

LEMMA TInvNext == ASSUME TInv, [Next]_vars PROVE TInv'
  <1>1. KInv /\ KInv'
    BY KInvNext DEF TInv
  <1>2. CASE pc = "none"
    <2>1. pc' = "none" \/ \E bound \in Latencies : Open(bound)
      BY <1>2
      DEF Next, Start, PingTick, IdleTick, Read, HangUp, BeginWrite, EndWrite, WriteTimesOut,
          Arrive, ClientSends, GoSilent, Advance, Finished, vars, loopVars
    <2>2. why' = "open"
      BY <1>1, <2>1 DEF KInv, Session, Open
    <2>3. ASSUME pc' # "none", Unhurried' PROVE Running'
      BY Zenon, <1>1, <2>1, <2>3, RunningOpen
    <2>4. ASSUME pc' # "none", Unhurried' PROVE Len(out') <= 2
      <3>1. Writes'
        BY Zenon, <2>3, <2>4 DEF Running
      <3>2. out' \in {NoMessage, Greeting, GreetingAndPing, OnePing}
        BY Zenon, <3>1 DEF Writes
      <3> QED BY <3>2, Queues
    <2> QED BY SMTT(60), <1>1, <2>2, <2>3, <2>4 DEF TInv, Timely, KeptAlive
  <1>3. CASE pc \in {"select", "writing"} /\ pc' \in {"select", "writing"}
    <2>1. Unhurried' = Unhurried /\ why' = "open"
      BY Zenon, <1>1, <1>3, Stays DEF KInv, Session
    <2>2. ASSUME Unhurried' PROVE Running'
      BY <1>3, <2>1, <2>2, RunningNext
    <2>3. ASSUME Unhurried' PROVE Len(out') <= 2
      <3>1. Writes'
        BY Zenon, <2>2, <2>3 DEF Running
      <3>2. out' \in {NoMessage, Greeting, GreetingAndPing, OnePing}
        BY Zenon, <3>1 DEF Writes
      <3> QED BY <3>2, Queues
    <2> QED BY <1>1, <2>1, <2>2, <2>3 DEF TInv, Timely, KeptAlive
  <1>4. CASE pc \in {"select", "writing"} /\ pc' = "closed"
    <2>1. /\ Unhurried' = Unhurried /\ Ping' = Ping /\ Idle' = Idle
          /\ WriterTimeout' = WriterTimeout /\ latency' = latency
      BY <1>1, <1>4, Stays
    <2>2. /\ out' = out /\ silent' = silent
          /\ why' = "idle" => elapsed >= Idle
      BY Zenon, <1>4, Closing
    <2>3. Unhurried => Len(out) <= 2
      BY <1>4 DEF TInv, Timely
    <2>4. ASSUME why' = "idle", Unhurried, Ping + 2 * WriterTimeout + latency < Idle
          PROVE  silent
      BY Zenon, <1>4, <2>2, <2>4, Expired
    <2>5. KeptAlive'
      BY Zenon, <2>1, <2>2, <2>4 DEF KeptAlive
    <2>6. Timely'
      BY <1>4, <2>1, <2>2, <2>3 DEF Timely
    <2> QED BY Zenon, <1>1, <2>5, <2>6 DEF TInv
  <1>5. CASE pc = "closed"
    <2>1. UNCHANGED vars
      <3>1. stage = "serving"
        BY <1>1, <1>5 DEF KInv, Session
      <3> QED
        BY <1>5, <3>1
        DEF Next, Start, StartupNext, Load, Build, Open, PingTick, IdleTick, Read, HangUp,
            BeginWrite, EndWrite, WriteTimesOut, Arrive, ClientSends, GoSilent, Advance, Finished
    <2>2. pc' = pc /\ out' = out /\ why' = why /\ silent' = silent /\ latency' = latency
          /\ cfg' = cfg
      BY Zenon, <2>1 DEF vars, startupVars, loopVars, clientVars
    <2>3. KeptAlive'
      BY Zenon, <2>2 DEF TInv, KeptAlive, Unhurried, Ping, Idle, WriterTimeout
    <2>4. Timely'
      BY <1>5, <2>2 DEF TInv, Timely, Unhurried, Ping, WriterTimeout
    <2> QED BY Zenon, <1>1, <2>3, <2>4 DEF TInv
  <1>6. pc \in {"none", "select", "writing", "closed"} /\ pc' \in {"none", "select", "writing", "closed"}
    BY <1>1 DEF KInv, Session
  <1>7. pc # "none" => pc' # "none"
    BY Zenon, <1>1, Stays
  <1> QED BY <1>2, <1>3, <1>4, <1>5, <1>6, <1>7

LEMMA KeepaliveInvariance == Spec => []TInv
  <1>1. TInv /\ [Next]_vars => TInv'
    BY TInvNext
  <1> QED BY <1>1, TInvInit, PTL DEF Spec

(* The variables keep their types, and where two writes fit in a ping      *)
(* interval the queue of a session without traffic holds the greeting and  *)
(* one ping at most: pings do not pile up behind a write that stalls.      *)
THEOREM PingsDoNotPileUp == Spec => []TypeOK
  <1>1. TInv => TypeOK
    <2> SUFFICES ASSUME TInv PROVE TypeOK
      OBVIOUS
    <2>1. Types /\ document \in Documents /\ pc \in {"none", "select", "writing", "closed"}
      BY Zenon DEF TInv, KInv, SInv, Loaded, Session
    <2>2. latency \in Latencies \cup {0}
      BY DEF TInv, KInv, Session
    <2>3. pc # "none" /\ Unhurried => Len(out) <= 2
      BY Zenon DEF TInv, Timely
    <2> QED BY Zenon, <2>1, <2>2, <2>3 DEF TypeOK, Types
  <1> QED BY <1>1, KeepaliveInvariance, PTL

(* A client that answers its pings is not closed as idle by the check of   *)
(* last_activity in run_session, whatever the order in which the loop      *)
(* takes its branches and however long its writes stall, where the idle    *)
(* timeout exceeds the ping interval, the round trip and two writes.       *)
THEOREM PongsKeepAlive == Spec => []KeptAlive
  <1>1. TInv => KeptAlive
    BY DEF TInv
  <1> QED BY <1>1, KeepaliveInvariance, PTL

(* A session that has not heard its client for the idle timeout is closed  *)
(* within one period of idle_tick and two writes.                          *)
THEOREM SilenceIsBounded == Spec => []ClosedInTime
  <1>1. TInv => ClosedInTime
    <2> SUFFICES ASSUME TInv, pc \in {"select", "writing"}, Unhurried
                 PROVE  elapsed <= Idle + IdleTickPeriod + 2 * WriterTimeout
      BY Zenon DEF ClosedInTime
    <2>1. Numbers /\ Writes /\ IdleTicks
      BY Zenon, Situation
    <2>2. Left \in Nat /\ Due \in Nat
      BY <2>1, Spans
    <2> QED BY <2>1, <2>2 DEF IdleTicks, IdleTickPeriod, Numbers
  <1> QED BY <1>1, KeepaliveInvariance, PTL
=============================================================================
