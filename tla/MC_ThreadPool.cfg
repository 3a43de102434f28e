SPECIFICATION Spec
CONSTANTS
    M = 2
    K = 2
    Wrap = 3
    Clients = {c1}
    Owner = owner
    a = a
    b = b
    c = c
    Tasks = {a, b, c}
    NoTask = NoTask
    Nobody = Nobody
    Parent <- MC_Parent
INVARIANTS NoTaskAbandoned
PROPERTIES ImplementsPool
\* the pool is destroyed in the end
CHECK_DEADLOCK FALSE
