SPECIFICATION Spec
CONSTANTS
    alice = alice
    bob = bob
    gov = gov
    k1 = k1
    k2 = k2
    h = h
    orphan = orphan
    sysprog = sysprog
    solora = solora
    img1 = img1
    outside = outside
    call = call
    bigcall = bigcall
    lo = lo
    NoKey = NoKey
    NoLimits = NoLimits
    NoGovernor = NoGovernor
    SystemProgram <- sysprog
    Solora <- solora
    Outside <- outside
    FirstSlot = 0
    Blocks = {0, 1}
    BlockHash <- MCBlockHash
    Programs = {sysprog, solora}
    MaxAllowed = 1
    Measurements = {}
    MaxMeasurements = 1
    Accounts = {alice, bob}
    Governors = {alice, bob}
    Authorities = {alice, bob}
    Keys = {k1}
    Limits = {lo}
    Calls = {call}
    OversizedCalls = {}
    Amounts = {1, 2}
    RentMin = 1
    Hashes = {h, orphan}
    Window = 2
    Delay = 1
    MaxNonce = 3
    Intents <- PairIntents
    Proofs = {}
    MaxSlot = 1
    MaxTime = 2
    MaxLamports = 4
    MaxEpoch = 1
INVARIANT
    MessageTakesEffectOnce
PROPERTY
    LamportsConserved
