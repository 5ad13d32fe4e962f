\* Three children, three connections, one unasked death and one termination:
\* children drop out of the rotation, and all may end at the same time.
CONSTANTS
    ProcessNumber = 3
    MaxConnections = 3
    MaxDeaths = 1
    MaxTerminations = 1
SPECIFICATION FairSpec
INVARIANTS
    TypeOK
    NoEmptyAccept
    TakesTurns
PROPERTIES
    TermStopsPool
\* The pool ends, or waits for a connection.
CHECK_DEADLOCK FALSE
