SPECIFICATION Spec
CONSTANTS
    mm = mm
    dca = dca
    w1 = w1
    NoAgent = NoAgent
    Sleeps = 1
    NoWallet = NoWallet
    NoRun = NoRun
    Agents = {mm, dca}
    Wallets = {w1}
    RelayerMode = FALSE
    Delegated = 3
    Capacity = 2
    MaxStarts = 2
    MaxWithdraws = 1
    MaxCycles = 1
    MaxReplays = 1
INVARIANTS
    DoneMeansDrained
CHECK_DEADLOCK FALSE
