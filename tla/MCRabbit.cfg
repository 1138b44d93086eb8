SPECIFICATION Spec
CONSTANTS
    Consumers = {c1}
    Messages = {m1, m2}
    Malformed = {m2}
    Published = {m1}
    MaxConns = 3
    Faults = {"unwatched", "channel", "resubscribe"}
INVARIANTS TypeOK CloseLeavesNoConnection ConfirmedNotLost
PROPERTIES NoSecondSubscription SettledByItsHandler
CHECK_DEADLOCK FALSE
