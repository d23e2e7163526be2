SPECIFICATION ShareSpec
CONSTANTS
    alice = alice
    bob = bob
    carol = carol
    hook = hook
    pool = pool
    sink = sink
    vault = vault
    Accounts <- MCAccounts
    Excluded <- MCExcluded
    Hook = hook
    Pool = pool
    Sink = sink
    Vault = vault
    UNIT = 2
    Supply = 8
    VaultAmount = 7
    MaxRealign = 1
    MaxId = 5
    Amounts = {0, 1, 2, 4}
SYMMETRY UserSymmetry
INVARIANTS
    ShareTypeOK
    NoUnbackedShares
    ExcludedHoldNothing
PROPERTIES
    GapGrowsOnlyAtCap
    SharesFallOnlyWithBalance
    MintsNeedACrossing
