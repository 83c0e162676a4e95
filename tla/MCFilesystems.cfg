SPECIFICATION MCSpec
CONSTANTS
    None = None
    MaxIno = 3
    MaxRefs = 2
    Names = {a, b}
    Keys = {s1, s2}
    Fhs = {h1}
    MaxGen = 2
    NameLens <- MCNameLens
    Sizes <- MCSizes
\* Ids, references and generations are bounded, and a listing ends.
CHECK_DEADLOCK FALSE
INVARIANTS
    TableAgrees
    SameFile
    HandlesAgree
    RecordsFit
    ListedOnce
PROPERTIES
    ImplementsNodeIds
    PathImplementsNodeIds
    ListingEnds
