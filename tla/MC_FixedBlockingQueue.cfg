\* Three threads, each in any role, on two slots.
SPECIFICATION FixedSpec
CONSTANTS
    FixedThreads = {t1, t2, t3}
    FixedItems = {a, b}
    FixedNoItem = FixedNoItem
    Raw = Raw
    Size = 2
INVARIANTS SlotsConserved
PROPERTIES NoOverwrite ImplementsBoundedFifo
\* every thread may wait in pop() with nobody left to push
CHECK_DEADLOCK FALSE
