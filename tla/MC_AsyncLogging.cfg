SPECIFICATION Spec
CONSTANTS
    Unused = Unused
    p1 = p1
    p2 = p2
    w1 = w1
    w2 = w2
    Producers = {p1, p2}
    Workers = {w1, w2}
    Owner = owner
    Setups <- MC_Setups
    MaxPosts = 2
    Capacity = 2
    Sinks <- MC_Sinks
    SinkLevel <- MC_SinkLevel
    Faulty = {"file"}
    FlushLevel = 3
INVARIANTS NobodySleepsInVain LossesAreCounted OrderKept FlushCovers
PROPERTIES ImplementsAsyncLog
\* the pool is destroyed in the end
CHECK_DEADLOCK FALSE
