SPECIFICATION XSpec
CONSTANTS
    Minors = {3, 4, 8, 9, 11, 12, 32, 33, 44}
    MaxTail = 2
    None = None
    Bodies <- MCBodies
    Names <- MCNames
INVARIANTS
    DecodedAsSent
    AcceptedIfValid
    MessageTaken
    SlotsFilled
