SPECIFICATION BindingSpec
CONSTANTS
    Kinds = {"client"}
    MaxConns = 1
    Retries = 1
INVARIANT
    OwnObject
CHECK_DEADLOCK FALSE
