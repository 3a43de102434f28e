\* Three threads, each in any role, and two items. No push starts on a queue
\* that is not empty, but three may start together.
SPECIFICATION Spec
CONSTANTS
    Threads = {t1, t2, t3}
    Items = {a, b}
    NoItem = NoItem
    Nobody = Nobody
    MaxLen = 1
INVARIANTS NoLostWakeup
PROPERTIES ImplementsAbstract
