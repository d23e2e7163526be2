SPECIFICATION Spec
CONSTANTS
    alice = alice
    bob = bob
    carol = carol
    prism = prism
    Holders <- MCHolders
    Allocation <- MCAllocation
    Tokens <- MCTokens
    Fallbacks = {}
    NoToken = NoToken
    Reserve <- MCReserve
    Amounts = {1, 2}
    MaxGift = 1
    Files <- AllFiles
    Thresholds = {0, 2}
    ChunkGases = {12000000, 400000}
    Costs <- MCCosts
    Unit = 2
    ProofDepth = 11
    Cheap = 30000
    MaxPool = 2
INVARIANTS
    TypeOK
    ExitMeansAllPaid
    ResumeMissesNobody
    PushAdvances
