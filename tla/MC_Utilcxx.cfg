SPECIFICATION UtilcxxSpec
CONSTANTS
    \* the semaphore: three threads, at most three tokens, post(0..2)
    Threads = {t1, t2, t3}
    InitCount = 1
    MaxPost = 2
    MaxCount = 3
    \* the fast one: four threads, at most two tokens in m_count
    FastThreads = {t1, t2, t3, t4}
    FastInitCount = 1
    FastMaxCount = 2
    \* the simple pool
    Workers = {w1, w2}
    Clients = {c1, c2}
    Owner = owner
    a = a
    b = b
    c = c
    Tasks = {a, b, c}
    NoTask = NoTask
    Parent <- MC_Parent
INVARIANTS NoLostWakeup CountMeaning AllRunWhenDestroyed
PROPERTIES NobodyStranded ImplementsAbstract FastImplementsAbstract ImplementsPool
\* every thread may be asleep in the fast semaphore with nobody left to post, and
\* the pool is destroyed in the end
CHECK_DEADLOCK FALSE
