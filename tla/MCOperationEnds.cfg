SPECIFICATION CallSpec
CONSTANTS
    RequestSize = 2
    ResponseSize = 2
    PipeCapacity = 1
    MaxOutput = 3
    Timeout = 2
CHECK_DEADLOCK FALSE
PROPERTY
    OperationEnds
