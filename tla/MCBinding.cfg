SPECIFICATION BindingSpec
CONSTANTS
    Kinds <- Both
    MaxConns = 2
    Retries = 0
INVARIANTS
    OwnObject
    ReferencesExact
CHECK_DEADLOCK FALSE
