SPECIFICATION Spec
CONSTANTS
    t1 = t1
    t2 = t2
    nobody = nobody
    Ticks <- MCTicks
    First = t1
    Nobody = nobody
    Modes <- MCModes
    GasArgs <- MCGasArgs
    NoArg = 0
    CheapGas = 44
    FullGas = 90
    FloorGas = 400
    FirstMayHang = FALSE
    MaxBacklog = 1
    MaxFailures = 2
    MaxOutages = 1
    MaxDrops = 1
INVARIANTS
    LogIsTrue
PROPERTIES
    BacklogCleared
