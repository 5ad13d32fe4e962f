\* Two threads on each side of a buffer of two slots, which wraps and is full
\* and empty.
CONSTANTS
    Producers = {p1, p2}
    Consumers = {c1, c2}
    Size = 2
    Values = {0, 1}
    MaxProduced = 4
    NoThread = NoThread
SPECIFICATION FairSpec
INVARIANTS
    TypeOK
    NoLostWakeup
PROPERTIES
    FifoSpec
    BothSidesMove
