\* A block whose block field is empty has its type in id.
SPECIFICATION Spec
CONSTANTS
    Graphs <- TypedGraphs
    Supported <- Transports
CHECK_DEADLOCK FALSE
INVARIANT
    InvalidTransportsFail
