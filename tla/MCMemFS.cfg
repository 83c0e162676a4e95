SPECIFICATION Spec
CONSTANTS
    None = None
    MaxIno = 3
    MaxRefs = 3
    Names = {a, b}
\* Ids and references are bounded.
CHECK_DEADLOCK FALSE
INVARIANT
    TreeWhole
PROPERTY
    ImplementsNodeIds
