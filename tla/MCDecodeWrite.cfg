SPECIFICATION Spec
CONSTANTS
    Minors = {8, 9, 11, 12, 32, 33, 44}
    MaxTail = 2
    None = None
INVARIANT WriteDataComplete
