SPECIFICATION MCSpec
CONSTANTS
    PageSize = 4096
    OtherFlags <- MCOther
    Wishes <- MCWishes
    Offers <- MCOffers
    MaxStray = 1
    MaxUmounts = 1
    None = None
CHECK_DEADLOCK FALSE
INVARIANTS
    SessionOrUnmounted
    BufferHoldsRequests
    FlagsAgree
    LimitsConsistent
    GoneIsClean
PROPERTIES
    ConnectReturns
    AutoUnmount
    CallsReturn
