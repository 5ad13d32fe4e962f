\* Five signals: two kinds, each twice, so that a handler finds its own command
\* in the slot, or the other one, at every point of status_check().
CONSTANT
    MaxSignals = 5
SPECIFICATION FairSpec
INVARIANTS
    TypeOK
    ObeyedAsSent
PROPERTIES
    CancelDoesNotLast
