SPECIFICATION PipelineSpec
CONSTANTS
    alice = alice
    k1 = k1
    k2 = k2
    h = h
    sysprog = sysprog
    solora = solora
    outside = outside
    call = call
    pay = pay
    pay2 = pay2
    trade = trade
    NoKey = NoKey
    NoLimits = NoLimits
    NoGovernor = NoGovernor
    NoMessage = NoMessage
    SystemProgram <- sysprog
    Solora <- solora
    Outside <- outside
    FirstSlot = 0
    Blocks = {0, 1, 2}
    BlockHash <- MCBlockHash
    Programs = {sysprog, solora}
    MaxAllowed = 1
    Measurements = {}
    MaxMeasurements = 1
    Accounts = {alice}
    Governors = {}
    Authorities = {alice}
    Keys = {k1}
    Limits <- MCLimits
    Calls = {call}
    OversizedCalls = {}
    Amounts = {1, 2}
    RentMin = 1
    Hashes = {h}
    Window = 1
    Delay = 1
    MaxNonce = 2
    Intents <- MCIntents
    Proofs = {}
    MaxSlot = 2
    MaxTime = 1
    MaxLamports = 4
    MaxEpoch = 1
    Jobs = {pay, pay2}
    Request <- PayRequests
    EnclaveKey <- k1
    Slippages = {0, 1, 2}
    TxLife = 1
INVARIANTS
    SuccessMeansExecuted
