SPECIFICATION EscapeSpec
CONSTANTS
    alice = alice
    bob = bob
    gov = gov
    k1 = k1
    k2 = k2
    h = h
    orphan = orphan
    sysprog = sysprog
    solora = solora
    img1 = img1
    outside = outside
    call = call
    bigcall = bigcall
    lo = lo
    NoKey = NoKey
    NoLimits = NoLimits
    NoGovernor = NoGovernor
    SystemProgram <- sysprog
    Solora <- solora
    Outside <- outside
    FirstSlot = 0
    Blocks = {0, 1}
    BlockHash <- MCBlockHash
    Programs = {sysprog, solora}
    MaxAllowed = 1
    Measurements = {img1}
    MaxMeasurements = 1
    Accounts = {alice}
    Governors = {alice}
    Authorities = {alice}
    Keys = {k1, k2}
    Limits = {lo}
    Calls = {call}
    OversizedCalls = {}
    Amounts = {1}
    RentMin = 1
    Hashes = {h, orphan}
    Window = 2
    Delay = 2
    MaxNonce = 3
    Intents <- OneIntent
    Proofs <- OneProof
    MaxSlot = 1
    MaxTime = 5
    MaxLamports = 2
    MaxEpoch = 2
PROPERTIES
    EscapeReachable
