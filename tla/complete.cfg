SPECIFICATION FairSpec
CONSTANTS
    alice = alice
    bob = bob
    carol = carol
    prism = prism
    Holders <- MCHolders
    Allocation <- MCAllocation
    Tokens <- MCTokens
    Fallbacks = {}
    NoToken = NoToken
    Reserve <- MCReserve
    Amounts = {1, 2}
    MaxGift = 0
    Files <- ShippedOnly
    Thresholds = {0}
    ChunkGases = {12000000, 400000}
    Costs <- MCMeasuredOnly
    Unit = 2
    ProofDepth = 11
    Cheap = 30000
    MaxPool = 2
PROPERTIES
    PushCompletes
