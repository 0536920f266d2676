SPECIFICATION FairSpec
CONSTANTS
    Users = {u1, u2}
    None = none
    Scenarios <- Changing
INVARIANT OneBootstrap
PROPERTIES ImplementsAccess  WithdrawnStops ShutdownEnds
CHECK_DEADLOCK FALSE
