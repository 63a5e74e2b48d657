CONSTANTS
    Keys <- AllKeys
    KB_IN_BYTES = 3
    MaxTyped = 3
SPECIFICATION Spec
INVARIANTS
    DecodedAsTyped
    FlagsMatchKeys
PROPERTY ReadReturns
CHECK_DEADLOCK FALSE
