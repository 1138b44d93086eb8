SPECIFICATION FairSpec
CONSTANTS
    Consumers = {c1}
    Messages = {}
    Malformed = {}
    Published = {}
    MaxConns = 3
    Faults = {"channel"}
PROPERTIES LiveConsumersServed
CHECK_DEADLOCK FALSE
