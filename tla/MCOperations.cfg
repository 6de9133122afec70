SPECIFICATION OperationsSpec
CONSTANTS
    alice = alice
    gov = gov
    next = next
    k1 = k1
    k2 = k2
    h = h
    sysprog = sysprog
    solora = solora
    outside = outside
    call = call
    img = img
    lim = lim
    boot = boot
    other = other
    NoKey = NoKey
    NoLimits = NoLimits
    NoGovernor = NoGovernor
    NoCommand = NoCommand
    SystemProgram <- sysprog
    Solora <- solora
    Outside <- outside
    FirstSlot = 0
    Blocks = {0, 2}
    BlockHash <- MCBlockHash
    Programs = {sysprog, solora}
    MaxAllowed = 1
    Measurements = {img}
    MaxMeasurements = 1
    Accounts = {alice, gov, next}
    Governors = {alice, gov, next}
    Authorities = {alice}
    Keys = {k1, k2}
    Limits = {lim}
    Calls = {call}
    OversizedCalls = {}
    Amounts = {0, 1, 2, 3, 4}
    RentMin = 1
    Hashes = {h}
    Window = 4
    Delay = 1
    MaxNonce = 6
    Intents <- MCIntents
    Proofs <- MCProofs
    MaxSlot = 2
    MaxTime = 1
    MaxLamports = 12
    MaxEpoch = 1
    Jobs = {boot, other}
    Owner <- alice
    Gov <- gov
    Successor <- next
    Image <- img
    DefaultLimits <- lim
    Target = 4
    Amount = 1
    Call <- call
    ExpirySlots = 1
    ServedKeys <- MCServedKeys
    Commands = {"demo-local", "register-oyster-enclave", "revokeMeasurement", "transferGovernor", "disallow", "cpi", "demo-devnet"}
    MaxFaults = 1
SYMMETRY JobSymmetry
CHECK_DEADLOCK FALSE
INVARIANTS
    OperationsTypeOK
    DemoSetsUp
    WalletBeforeFunds
PROPERTIES
    ReadsStillTrue
    ReplayOnlyAfterFailure
