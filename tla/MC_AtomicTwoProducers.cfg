\* Two producers, for which it is not.
SPECIFICATION Spec
CONSTANTS
    Producers = {p1, p2}
    Consumers = {c1}
    Items = {a, b}
    NoItem = NoItem
    Raw = Raw
    Size = 2
INVARIANT NeverPopsRaw
\* every thread may wait with nobody left to post
CHECK_DEADLOCK FALSE
