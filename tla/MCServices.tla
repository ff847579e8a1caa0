------------------------------ MODULE MCServices ------------------------------
(***************************************************************************)
(* The services around the proxy that share nothing with each other: in    *)
(* each behaviour one of them, chosen at the start, takes all the steps.   *)
(***************************************************************************)
EXTENDS PluginRunner, WorkerPool, ConnectionPool, FakeIp, RoutingPolicy, Exchange

CONSTANT MaxPacketTime   \* a bound on time where packets are followed

VARIABLE focus

vars == <<focus, runnerVars, poolVars, socketVars, fakeVars, routingVars, exchangeVars>>

PolicyConfigs ==
    [backup |-> [type |-> "failover", strategy |-> "roundRobin", outbounds |-> <<"o1", "o2">>],
     spread |-> [type |-> "loadBalance", strategy |-> "roundRobin", outbounds |-> <<"o1", "o2", "o3">>],
     fast   |-> [type |-> "loadBalance", strategy |-> "leastLatency", outbounds |-> <<"o1", "o2">>],
     any    |-> [type |-> "loadBalance", strategy |-> "random", outbounds |-> <<"o1", "o2", "o1">>]]
Probed == <<"o1", "o2", "o3">>

Init ==
    /\ focus \in {"plugin", "workers", "sockets", "fake-ip", "packets", "prober", "exchange"}
    /\ RunnerInit /\ (focus # "plugin" => mode = "child")
    /\ PoolInit
    /\ SocketsInit /\ (focus # "sockets" => endpoint = [s \in Sockets |-> CHOOSE k \in PoolEndpoints : TRUE])
    /\ FakeInit /\ RoutingInit /\ ExchangeInit

PluginMoves == focus = "plugin" /\ RunnerNext /\ UNCHANGED <<focus, poolVars, socketVars, fakeVars, routingVars, exchangeVars>>
WorkersMove == focus = "workers" /\ PoolNext /\ UNCHANGED <<focus, runnerVars, socketVars, fakeVars, routingVars, exchangeVars>>
SocketsMove == focus = "sockets" /\ SocketsNext /\ UNCHANGED <<focus, runnerVars, poolVars, fakeVars, routingVars, exchangeVars>>
FakeIpMoves == focus = "fake-ip" /\ FakeNext /\ UNCHANGED <<focus, runnerVars, poolVars, socketVars, routingVars, exchangeVars>>
PacketsMove == focus = "packets" /\ PacketStep /\ UNCHANGED <<focus, runnerVars, poolVars, socketVars, fakeVars, exchangeVars>>
ProberMoves == focus = "prober" /\ ProberStep /\ UNCHANGED <<focus, runnerVars, poolVars, socketVars, fakeVars, exchangeVars>>
ExchangeMoves ==
    focus = "exchange" /\ ExchangeNext /\ UNCHANGED <<focus, runnerVars, poolVars, socketVars, fakeVars, routingVars>>
TimeMoves ==
    /\ \/ focus = "packets" /\ now < MaxPacketTime
       \/ focus = "prober"
    /\ TimePasses
    /\ UNCHANGED <<focus, runnerVars, poolVars, socketVars, fakeVars, exchangeVars>>

Next ==
    PluginMoves \/ WorkersMove \/ SocketsMove \/ FakeIpMoves \/ PacketsMove \/ ProberMoves \/ TimeMoves \/ ExchangeMoves

Spec == Init /\ [][Next]_vars /\ RunnerFairness /\ PoolFairness /\ ExchangeFairness

\* Every call of a plugin, every task given to the worker pool and every
\* exchange with the network is settled: answered, rejected or timed out,
\* although a host may crash, hang, be replaced or be stopped, a crashed worker
\* goes on being picked, and a stray datagram may leave nobody listening.
EveryCallSettles ==
    /\ \A c \in Calls : Pending(c) ~> ~Pending(c)
    /\ \A t \in Tasks : PendingTask(t) ~> ~PendingTask(t)
    /\ (phase = "waiting") ~> ExchangeOver
=============================================================================
