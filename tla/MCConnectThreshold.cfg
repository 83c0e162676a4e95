SPECIFICATION Spec
CONSTANTS
    PageSize = 4096
    OtherFlags <- MCOther
    Wishes <- MCWishes
    Offers <- MCOffers
    MaxStray = 1
    None = None
CHECK_DEADLOCK FALSE
INVARIANT
    ThresholdDefault
