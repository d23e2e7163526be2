SPECIFICATION ApprovalsSpec
CONSTANTS
    alice = alice
    bob = bob
    market = market
    nobody = nobody
    Holders <- MCHolders
    Nobody = nobody
    Others <- MCOthers
    Spenders <- MCSpenders
    Approvable = {1,2}
    MaxId = 3
    MaxLength = 3
INVARIANTS
    TypeOK
    ViewsAgree
    CountExact
    MoversAreMandated
PROPERTIES
    ImplementsBook
CHECK_DEADLOCK FALSE
