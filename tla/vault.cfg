SPECIFICATION Spec
CONSTANTS
    alice = alice
    bob = bob
    carol = carol
    prism = prism
    other = other
    proxy = proxy
    Holders <- MCHolders
    Allocation <- MCAllocation
    Tokens <- MCTokens
    Fallbacks <- MCFallbacks
    NoToken = NoToken
    Reserve <- MCReserve
    Amounts = {1, 2, 3}
    MaxGift = 4
INVARIANTS
    TypeOK
    PaidInFull
    CorrectableUntilFirstClaim
    ReserveCoversUnpaid
PROPERTIES
    EverybodyPaid
CHECK_DEADLOCK FALSE
