SPECIFICATION Spec
CONSTANTS
    Operators = {o1, o2}
    Intervals = {i1, i2}
    MaxCommands = 1
    MaxRuns = 1
    Found <- Settled
SYMMETRY OperatorSymmetry
PROPERTY EnsureKeepsTheRest
CHECK_DEADLOCK FALSE
