SPECIFICATION Spec
CONSTANTS
    Hosts = {1, 2}
    Calls = {1, 2, 3, 4}
    Kinds = {"child", "worker"}
    Threads = {1, 2, 3, 4}
    PoolSize = 2
    Tasks = {1, 2, 3}
    Sockets = {s1, s2, s3}
    PoolEndpoints = {a, b}
    maxIdlePerEndpoint = 2
    Domains = {d1, d2, d3}
    capacity = 2
    ttl = 2
    MaxClock = 4
    MaxWriteErrors = 1
    NoDomain = NoDomain
    Policies <- PolicyConfigs
    SupportsUdp = {"o1", "o2"}
    unhealthyAfterFailures = 1
    recoverAfterMs = 1
    Latencies = {1, 2}
    Packets = {1, 2}
    Generations = {1, 2}
    MaxTime = 4
    MaxPacketTime = 2
    ProbeTargets <- Probed
    maxConcurrency = 1
    budgetPerInterval = 2
    backoffBaseMs = 1
    backoffMaxMs = 2
    maxSamples = 2
    MaxProbeRuns = 3
    Endpoints = 3
    Wanted = 2
    maxBytes = 3
    ChunkSizes = {0, 1, 3}
INVARIANT RunnerAccounted
INVARIANT IdleSocketsExact
INVARIANT ReverseIsLatest
 
INVARIANT ProberBounded
 
PROPERTY EveryCallSettles
CHECK_DEADLOCK FALSE
