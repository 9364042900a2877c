CONSTANTS
    MaxValue = 7
    MaxStake = 3
    MaxMiners = 3
    Eleven = 2
    Six = 1
SPECIFICATION Spec
INVARIANTS Closest
CHECK_DEADLOCK FALSE
