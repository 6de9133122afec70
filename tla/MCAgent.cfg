SPECIFICATION Spec
CONSTANTS
    mm = mm
    dca = dca
    w1 = w1
    NoAgent = NoAgent
    Sleeps = 1
    NoWallet = NoWallet
    NoRun = NoRun
    Agents = {mm, dca}
    Wallets = {w1}
    RelayerMode = FALSE
    Delegated = 3
    Capacity = 2
    MaxStarts = 3
    MaxWithdraws = 2
    MaxCycles = 1
    MaxReplays = 2
CONSTRAINT ThirdStartAlone
SYMMETRY AgentSymmetry
INVARIANTS
    TypeOK
    LegsAreOfThisRun
    LiveLoopIsTheRuns
    RunningIsDriven
    WithdrawAwaited
    PortfolioInStep
PROPERTIES
    StoppedStaysStopped
CHECK_DEADLOCK FALSE
