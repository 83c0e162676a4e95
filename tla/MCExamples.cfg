SPECIFICATION ExamplesSpec
CONSTANTS
    None = None
    f1 = f1
    f2 = f2
    Files <- MCFiles
    Modes <- MCModes
    MaxBeats = 2
    MaxLookups = 2
\* The poll program returns, the beats are bounded, and the heartbeats may block.
CHECK_DEADLOCK FALSE
INVARIANTS
    CacheFresh
    RetrievedIsFresh
    LeftoverHasCause
    CountsAgree
    OldNameGone
PROPERTIES
    SyscallsReturn
    ScopeReturns
    BothGoOn
