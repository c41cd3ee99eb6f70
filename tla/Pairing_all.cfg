SPECIFICATION PairingSpec
CONSTANTS
    Device = {d1, d2}
    MaxCodes = 2
    MaxKeys = 3
INVARIANTS
    PairingTypeOK
    OneKeyPerCode
    OnlyTheLastKeyOpens
    ClaimableCodesAreShown
PROPERTIES
    RevokedForGood
    KeepsThePromise
CHECK_DEADLOCK FALSE
