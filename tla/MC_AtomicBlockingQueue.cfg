\* One producer and one consumer, for which it is a bounded FIFO.
SPECIFICATION Spec
CONSTANTS
    Producers = {p1}
    Consumers = {c1}
    Items = {a, b}
    NoItem = NoItem
    Raw = Raw
    Size = 2
INVARIANTS NeverPopsRaw NothingLeaks
PROPERTIES ImplementsBoundedFifo
\* every thread may wait with nobody left to post
CHECK_DEADLOCK FALSE
