SPECIFICATION Spec
CONSTANTS
    alice = alice
    bob = bob
    hook = hook
    pool = pool
    sink = sink
    vault = vault
    Accounts <- MCAccounts
    Excluded <- MCExcluded
    Hook = hook
    Pool = pool
    Sink = sink
    Vault = vault
    UNIT = 1
    Supply = 3
    VaultAmount = 2
    MaxRealign = 1
    MaxId = 3
    Amounts = {0, 1, 2}
    Scale = 2
    BurnBps = 1
    Bps = 2
    Fee <- OneAndTwo
    MaxFees <- OneAndTwo
SYMMETRY UserSymmetry
INVARIANTS
    TypeOK
    Solvent
    DebtBehind
    OrphansForfeited
PROPERTIES
    CreditsKept
    NoAtomicSkim
    ImplementsShares
    ImplementsLedger
