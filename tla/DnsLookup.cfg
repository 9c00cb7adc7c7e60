SPECIFICATION Spec
CONSTANTS
    Hosts = {"h1", "h2"}
    InitServers <- MCServers
    NewServers = {"s3"}
    Adders = {"a1", "a2"}
    IdOf <- MCIdOf
    Times = 2
    InitCacheTime = 1
    CacheTimes = {2}
    PerSecond = 2
    IntMax = 3
    MaxClock = 2
INVARIANTS
    CachedForHost
PROPERTIES
    NoServerSkipped
    LookupEnds
