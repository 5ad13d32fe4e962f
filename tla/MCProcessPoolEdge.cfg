\* Nobody dies and nobody is asked to stop.
CONSTANTS
    ProcessNumber = 2
    MaxConnections = 3
    MaxDeaths = 0
    MaxTerminations = 0
SPECIFICATION FairSpec
PROPERTIES
    EachConnectionAssigned
\* The pool waits for the next connection.
CHECK_DEADLOCK FALSE
