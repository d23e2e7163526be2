SPECIFICATION Spec
CHECK_DEADLOCK FALSE
CONSTANTS
    alice = alice
    bob = bob
    pair = pair
    None = None
    Supply = 5000
    Q = 1000
    Ticks <- MCTicks
    SqrtPrice <- MCSqrtPrice
    Headroom = 1
    Slack = 3
    Whole = 50
    MinFdv = 1
    MaxFdv = 1000000
    Snapshots <- MCSnapshots
    Forbidden <- MCForbidden
    Grandfathered <- MCGrandfathered
    Shipped <- MCShipped
    MinTick <- MCMinTick
    MaxTick = 4436
    Valuations = {5000, 4700}
    Lowers <- MCLowers
    SeedArgs <- MCSeedArgs
    Slips = {300}
INVARIANTS
    ReserveIsTheTree
    NoParkedLeaf
    PriceIsDeclared
    EmittedDeploys
