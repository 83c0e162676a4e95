CONSTANTS
    Hdr = 2
    WriteIn = 2
    RetrieveIn = 1
    BufSize = 6
    MaxMsgs = 3
    Capacity = 5
    Inputs <- MCInputs
    NoMsg = NoMsg
SPECIFICATION Spec
INVARIANT EveryRequestFits
