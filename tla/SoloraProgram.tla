--------------------------- MODULE SoloraProgram ----------------------------
(***************************************************************************)
(* The on-chain program (programs/solora/src): wallets whose funds move on *)
(* messages signed by an enclave, and the registry that says which enclave *)
(* images a governor vouches for.                                          *)
(*                                                                         *)
(* A wallet is the program-derived account of its authority, so it is      *)
(* named by that authority.  An action is a transaction with one           *)
(* instruction of the program in it and no other that moves lamports at a  *)
(* wallet's address: a handler that fails any of its checks rolls the      *)
(* whole transaction back, hence every check is a guard and a step is a    *)
(* success.  Intents and Proofs are the messages that some key may ever    *)
(* have signed; who submits them, when and how often is left open, so      *)
(* every order, delay and repetition of submissions is a behaviour of this *)
(* module.                                                                 *)
(***************************************************************************)
EXTENDS Policy, Registry, FiniteSets, Functions

CONSTANTS
    Accounts,       \* keys that sign transactions
    Governors,      \* those of them that call the registry
    Authorities,    \* those of them that own a wallet
    Keys,           \* Ed25519 keys an enclave may hold
    NoKey,          \* what enclave_signer holds in a zeroed account
    NoGovernor,     \* stands for a registry account that does not exist
    Limits,         \* values of (max_trade_size_usdc, max_slippage_bps)
    NoLimits,       \* their value in a zeroed account
    Outside,        \* a transfer destination that is no wallet
    Calls,          \* (instruction data, account metas) of a CPI
    OversizedCalls, \* those over the caps of 32 accounts or 1024 bytes
    Amounts,        \* lamports moved at once
    RentMin,        \* rent-exempt minimum of a wallet account
    Hashes,         \* blockhashes
    FirstSlot,      \* the slot in which the program was deployed
    Blocks,         \* slots of this chain that hold a block, not all do
    BlockHash,      \* the blockhash of each slot of this chain
    Window,         \* SlotHashes keeps this many blocks, 512 on Solana
    Delay,          \* 86400 seconds
    MaxNonce,       \* 2^64 - 1
    Intents,        \* messages that enclave keys may have signed
    Proofs,         \* attestation messages that governors may have signed
    MaxSlot, MaxTime, MaxLamports, MaxEpoch     \* bounds of the model

Destinations == Authorities \cup {Outside}

\* The payload hash binds these fields and nothing else (transfer_payload_hash,
\* arbitrary_cpi_payload_hash); equal hashes are taken to mean equal fields.
TransferPayload(dest, amount) ==
    [kind |-> "transfer", dest |-> dest, amount |-> amount]
CpiPayload(target, call) ==
    [kind |-> "cpi", target |-> target, call |-> call]

TransferPayloads == {TransferPayload(d, x) : d \in Destinations, x \in Amounts}
CpiPayloads == {CpiPayload(p, c) : p \in Programs, c \in Calls}

\* SOLORA_INTENT_V2, with the key that signed it.
IntentType ==
    [signer : Keys, program : Programs, wallet : Authorities, nonce : Nat,
     expiry : Nat, blockhash : Hashes, blockhashSlot : Nat,
     kind : {"transfer", "cpi"}, payload : TransferPayloads \cup CpiPayloads]

\* SOLORA_ATTEST_V1, with the governor that signed it.
ProofType ==
    [governor : Accounts, program : Programs, wallet : Authorities, key : Keys,
     measurement : Measurements, expiry : Nat, nonce : Nat]

ASSUME AccountsAssumption ==
    /\ Authorities \subseteq Accounts /\ Governors \subseteq Accounts
    /\ Outside \notin Authorities
    /\ NoGovernor \notin Accounts
\* A key has 32 bytes, so there are only so many.
ASSUME FiniteAssumption == IsFiniteSet(Authorities)
ASSUME MessagesAssumption == Intents \subseteq IntentType /\ Proofs \subseteq ProofType
ASSUME LamportsAssumption ==
    RentMin \in Nat \ {0} /\ Amounts \subseteq Nat /\ MaxLamports \in Nat
ASSUME BoundsAssumption ==
    /\ Window \in Nat /\ Delay \in Nat \ {0} /\ MaxNonce \in Nat
    /\ MaxSlot \in Nat /\ MaxTime \in Nat /\ MaxEpoch \in Nat
ASSUME BlocksAssumption == Blocks \subseteq 0..MaxSlot /\ FirstSlot \in Blocks

VARIABLES
    slot,           \* Clock::slot
    now,            \* Clock::unix_timestamp
    open,           \* authorities whose wallet account exists
    wallet,         \* data of the wallet accounts, but for their allowlists
    policy,         \* the allowlists
    lamports,       \* balances at the wallet addresses
    governor,       \* reg.governor, or NoGovernor while there is no registry
    entries,        \* reg.measurements[..count]
    epoch,          \* history: how often a wallet's nonce was set to zero
    baseSigner,     \* history: the signer set when that last happened
    granted,        \* history: programs an owner added and did not remove since
    initiatedAt,    \* history: when a pending timelock was initiated, or -1
    revoked,        \* history: measurements revoked so far
    consumed        \* history: messages accepted so far

clockVars    == <<slot, now>>
accountVars  == <<open, wallet, policy, lamports>>
registryVars == <<governor, entries>>
historyVars  == <<epoch, baseSigner, granted, initiatedAt, revoked, consumed>>
vars == <<clockVars, accountVars, registryVars, historyVars>>

WalletType ==
    [signer : Keys \cup {NoKey}, nonce : 0..MaxNonce, active : BOOLEAN,
     unlock : Nat, limits : Limits \cup {NoLimits}]

ZeroWallet ==
    [signer |-> NoKey, nonce |-> 0, active |-> FALSE, unlock |-> 0,
     limits |-> NoLimits]

\* A message that was accepted, with the nonce the wallet then had.  For a
\* rotation, payer is the key that signed the transaction.
SpendType ==
    [use : {"spend"}, wallet : Authorities, epoch : Nat, nonce : Nat,
     msg : IntentType]
RotationType ==
    [use : {"rotation"}, wallet : Authorities, epoch : Nat, nonce : Nat,
     msg : ProofType, payer : Accounts]

-----------------------------------------------------------------------------
(* Checks shared by handlers.                                              *)

\* How many blocks there are from slot s on, without the one being made.
BlocksSince(s) == Cardinality({t \in Blocks : s <= t /\ t < slot})

\* SlotHashes has an entry for each of the latest Window blocks before the
\* current slot, and none for a slot that was skipped (lookup_slot_hash finds
\* one by binary search).
InSlotHashes(s) == s \in Blocks /\ s < slot /\ BlocksSince(s) <= Window

\* Its first entry, which the enclave signs over; the first block of all has none.
NewestEntry == {s \in Blocks : s < slot /\ \A t \in Blocks : t < slot => t <= s}

\* Mutant of SignedByEnclave: any key's signature will do.
SignedByAnyone(a, m) == TRUE

\* The key that signed the Ed25519 instruction right before this one.
SignedByEnclave(a, m) == m.signer = wallet[a].signer

\* Mutants of BoundTo: one binding of the message is not checked.
BoundToWalletOnly(a, m) == m.program = Solora /\ m.wallet = a
BoundToNonceOnly(a, m) == m.program = Solora /\ m.nonce = wallet[a].nonce

BoundTo(a, m) ==
    /\ m.program = Solora
    /\ m.wallet = a
    /\ m.nonce = wallet[a].nonce

\* Mutants of Fresh: the blockhash is compared, but not its age; the expiry is
\* not looked at.
FreshByExpiryOnly(m) == slot <= m.expiry /\ m.blockhash = BlockHash[m.blockhashSlot]
FreshByHashOnly(m) ==
    InSlotHashes(m.blockhashSlot) /\ m.blockhash = BlockHash[m.blockhashSlot]

Fresh(m) ==
    /\ slot <= m.expiry
    /\ InSlotHashes(m.blockhashSlot)
    /\ m.blockhash = BlockHash[m.blockhashSlot]

\* verify_enclave_intent, called with what the handler read from the wallet.
VerifyEnclaveIntent(a, m, kind, payload) ==
    /\ SignedByEnclave(a, m)
    /\ BoundTo(a, m)
    /\ Fresh(m)
    /\ m.kind = kind
    /\ m.payload = payload

\* Mutant of VerifyAttestationProof: the nonce is not compared.
AttestedForAnyNonce(a, m) ==
    /\ m.governor = governor
    /\ m.program = Solora
    /\ m.wallet = a
    /\ slot <= m.expiry

\* verify_attestation_proof.
VerifyAttestationProof(a, m) ==
    /\ m.governor = governor
    /\ m.program = Solora
    /\ m.wallet = a
    /\ slot <= m.expiry
    /\ m.nonce = wallet[a].nonce

\* Mutant of NonceCanAdvance: an unchecked addition.
NonceUnchecked(a) == TRUE

\* nonce.checked_add(1)
NonceCanAdvance(a) == wallet[a].nonce < MaxNonce

RegistryOpen == governor # NoGovernor

SpendOf(a, m) ==
    [use |-> "spend", wallet |-> a, epoch |-> epoch[a], nonce |-> wallet[a].nonce,
     msg |-> m]
RotationOf(a, m, payer) ==
    [use |-> "rotation", wallet |-> a, epoch |-> epoch[a], nonce |-> wallet[a].nonce,
     msg |-> m, payer |-> payer]

-----------------------------------------------------------------------------
(* The wallet's owner.                                                     *)

InitializeWallet(a, key, limits) ==
    /\ a \notin open
    /\ epoch[a] < MaxEpoch
    /\ open' = open \cup {a}
    /\ wallet' = [wallet EXCEPT ![a] =
                     [ZeroWallet EXCEPT !.signer = key, !.active = TRUE,
                                        !.limits = limits]]
    /\ policy' = [policy EXCEPT ![a] = EmptyPolicy]
    \* Anchor's init tops the address up to the rent-exempt minimum
    /\ lamports' = [lamports EXCEPT ![a] = IF @ < RentMin THEN RentMin ELSE @]
    /\ epoch' = [epoch EXCEPT ![a] = @ + 1]
    /\ baseSigner' = [baseSigner EXCEPT ![a] = key]
    /\ granted' = [granted EXCEPT ![a] = {}]
    /\ UNCHANGED <<clockVars, registryVars, initiatedAt, revoked, consumed>>

UpdatePolicy(a, limits) ==
    /\ a \in open
    /\ wallet' = [wallet EXCEPT ![a].limits = limits]
    /\ UNCHANGED <<clockVars, open, policy, lamports, registryVars, historyVars>>

TogglePause(a) ==
    /\ a \in open
    /\ wallet' = [wallet EXCEPT ![a].active = ~@]
    /\ UNCHANGED <<clockVars, open, policy, lamports, registryVars, historyVars>>

RegisterEnclave(a, key) ==
    /\ a \in open
    /\ epoch[a] < MaxEpoch
    /\ wallet' = [wallet EXCEPT ![a].signer = key, ![a].nonce = 0]
    /\ epoch' = [epoch EXCEPT ![a] = @ + 1]
    /\ baseSigner' = [baseSigner EXCEPT ![a] = key]
    /\ UNCHANGED <<clockVars, open, policy, lamports, registryVars,
                   granted, initiatedAt, revoked, consumed>>

AddAllowedProgram(a, p) ==
    /\ a \in open
    /\ MayAdd(policy[a], p)
    /\ policy' = [policy EXCEPT ![a] = WithProgram(@, p)]
    /\ granted' = [granted EXCEPT ![a] = @ \cup {p}]
    /\ UNCHANGED <<clockVars, open, wallet, lamports, registryVars,
                   epoch, baseSigner, initiatedAt, revoked, consumed>>

RemoveAllowedProgram(a, p) ==
    /\ a \in open
    /\ Contains(policy[a], p)
    /\ policy' = [policy EXCEPT ![a] = WithoutProgram(@, p)]
    /\ granted' = [granted EXCEPT ![a] = @ \ {p}]
    /\ UNCHANGED <<clockVars, open, wallet, lamports, registryVars,
                   epoch, baseSigner, initiatedAt, revoked, consumed>>

InitiateTimelock(a) ==
    /\ a \in open
    /\ now + Delay <= MaxTime
    /\ wallet' = [wallet EXCEPT ![a].active = FALSE, ![a].unlock = now + Delay]
    /\ initiatedAt' = [initiatedAt EXCEPT ![a] = now]
    /\ UNCHANGED <<clockVars, open, policy, lamports, registryVars,
                   epoch, baseSigner, granted, revoked, consumed>>

\* Mutants of TimelockPassed: a zero timestamp counts as passed; the escape asks
\* for a paused wallet.
TimelockZeroPassed(a) == now >= wallet[a].unlock
TimelockPassedWhilePaused(a) ==
    /\ wallet[a].unlock > 0
    /\ now >= wallet[a].unlock
    /\ ~wallet[a].active

TimelockPassed(a) ==
    /\ wallet[a].unlock > 0
    /\ now >= wallet[a].unlock

\* The handler takes every lamport; the runtime then purges an account that
\* ends the transaction with none.
ExecuteEscape(a) ==
    /\ a \in open
    /\ TimelockPassed(a)
    /\ lamports' = [lamports EXCEPT ![a] = 0]
    /\ open' = open \ {a}
    /\ wallet' = [wallet EXCEPT ![a] = ZeroWallet]
    /\ policy' = [policy EXCEPT ![a] = EmptyPolicy]
    /\ initiatedAt' = [initiatedAt EXCEPT ![a] = -1]
    /\ granted' = [granted EXCEPT ![a] = {}]
    /\ UNCHANGED <<clockVars, registryVars, epoch, baseSigner, revoked, consumed>>

-----------------------------------------------------------------------------
(* Anyone with a signed message.                                           *)

\* Mutant of Moved: both balances are computed from what was read before.
MovedFromSnapshot(a, dest, amount) ==
    [b \in Authorities |-> IF b = dest THEN lamports[b] + amount
                           ELSE IF b = a THEN lamports[b] - amount
                           ELSE lamports[b]]

\* sub_lamports on the wallet, then add_lamports on the destination, which may
\* be a wallet's address, this one's included.
Moved(a, dest, amount) ==
    [b \in Authorities |->
        lamports[b] - (IF b = a THEN amount ELSE 0)
                    + (IF b = dest THEN amount ELSE 0)]

\* Mutant of LeavesRentMin: only an overdraft is refused.
LeavesNoDebt(a, amount) == lamports[a] - amount >= 0

\* The rent check asks for what remains before the destination is credited.
LeavesRentMin(a, amount) == lamports[a] - amount >= RentMin

\* The checks of execute_transfer, which preflight runs too.
TransferPasses(a, m, dest, amount) ==
    /\ a \in open
    /\ wallet[a].active
    /\ VerifyEnclaveIntent(a, m, "transfer", TransferPayload(dest, amount))
    /\ LeavesRentMin(a, amount)
    /\ NonceCanAdvance(a)

ExecuteTransfer(a, m, dest, amount) ==
    /\ TransferPasses(a, m, dest, amount)
    /\ wallet' = [wallet EXCEPT ![a].nonce = @ + 1]
    /\ lamports' = Moved(a, dest, amount)
    /\ \A b \in Authorities : lamports'[b] <= MaxLamports
    /\ consumed' = consumed \cup {SpendOf(a, m)}
    /\ UNCHANGED <<clockVars, open, policy, registryVars,
                   epoch, baseSigner, granted, initiatedAt, revoked>>

\* The checks of execute_arbitrary_cpi.
CpiPasses(a, m, target, call) ==
    /\ a \in open
    /\ call \notin OversizedCalls
    /\ target # Solora
    /\ wallet[a].active
    /\ Contains(policy[a], target)
    /\ VerifyEnclaveIntent(a, m, "cpi", CpiPayload(target, call))
    /\ NonceCanAdvance(a)

\* The invoked program cannot debit a wallet, none of which is its account, nor
\* call back into this program, but it may credit any (a System transfer from
\* the payer does); if it fails, all of the transaction does.
ExecuteArbitraryCpi(a, m, target, call) ==
    /\ CpiPasses(a, m, target, call)
    /\ wallet' = [wallet EXCEPT ![a].nonce = @ + 1]
    /\ \E credit \in [Authorities -> Amounts \cup {0}] :
          lamports' = [b \in Authorities |-> lamports[b] + credit[b]]
    /\ \A b \in Authorities : lamports'[b] <= MaxLamports
    /\ consumed' = consumed \cup {SpendOf(a, m)}
    /\ UNCHANGED <<clockVars, open, policy, registryVars,
                   epoch, baseSigner, granted, initiatedAt, revoked>>

\* No account of the instruction has to sign: the payer is whoever pays.
RegisterEnclaveV2(a, m, payer) ==
    /\ a \in open
    /\ RegistryOpen
    /\ VerifyAttestationProof(a, m)
    /\ IsActive(entries, m.measurement)
    /\ NonceCanAdvance(a)
    /\ wallet' = [wallet EXCEPT ![a].signer = m.key, ![a].nonce = @ + 1]
    /\ consumed' = consumed \cup {RotationOf(a, m, payer)}
    /\ UNCHANGED <<clockVars, open, policy, lamports, registryVars,
                   epoch, baseSigner, granted, initiatedAt, revoked>>

-----------------------------------------------------------------------------
(* The registry.                                                           *)

\* The registry address has a fixed seed: whoever calls first is governor.
InitMeasurementRegistry(g) ==
    /\ ~RegistryOpen
    /\ governor' = g
    /\ entries' = <<>>
    /\ UNCHANGED <<clockVars, accountVars, historyVars>>

AddMeasurement(g, m) ==
    /\ RegistryOpen
    /\ g = governor
    /\ MayAddMeasurement(entries, m)
    /\ entries' = WithMeasurement(entries, m)
    /\ UNCHANGED <<clockVars, accountVars, governor, historyVars>>

RevokeMeasurement(g, m) ==
    /\ RegistryOpen
    /\ g = governor
    /\ Present(entries, m)
    /\ entries' = WithRevoked(entries, m)
    /\ revoked' = revoked \cup {m}
    /\ UNCHANGED <<clockVars, accountVars, governor,
                   epoch, baseSigner, granted, initiatedAt, consumed>>

TransferGovernor(g, new) ==
    /\ RegistryOpen
    /\ g = governor
    /\ governor' = new
    /\ UNCHANGED <<clockVars, accountVars, entries, historyVars>>

-----------------------------------------------------------------------------
(* The chain.                                                              *)

\* To the next slot that holds a block.
NextSlot ==
    /\ \E s \in Blocks :
          /\ slot < s
          /\ \A t \in Blocks : slot < t => s <= t
          /\ slot' = s
    /\ UNCHANGED <<now, accountVars, registryVars, historyVars>>

AdvanceClock ==
    /\ now < MaxTime
    /\ now' = now + 1
    /\ UNCHANGED <<slot, accountVars, registryVars, historyVars>>

\* Anyone may send lamports to a wallet's address, even before the wallet is
\* created or after it was emptied (fundWalletPda in the relayer does).
Deposit(a, amount) ==
    /\ lamports[a] + amount <= MaxLamports
    /\ lamports' = [lamports EXCEPT ![a] = @ + amount]
    /\ UNCHANGED <<clockVars, open, wallet, policy, registryVars, historyVars>>

-----------------------------------------------------------------------------

Init ==
    /\ slot = FirstSlot /\ now = 1
    /\ open = {}
    /\ wallet = [a \in Authorities |-> ZeroWallet]
    /\ policy = [a \in Authorities |-> EmptyPolicy]
    /\ lamports = [a \in Authorities |-> 0]
    /\ governor = NoGovernor /\ entries = <<>>
    /\ epoch = [a \in Authorities |-> 0]
    /\ baseSigner = [a \in Authorities |-> NoKey]
    /\ granted = [a \in Authorities |-> {}]
    /\ initiatedAt = [a \in Authorities |-> -1]
    /\ revoked = {}
    /\ consumed = {}

OwnerStep(a) ==
    \/ \E key \in Keys, limits \in Limits : InitializeWallet(a, key, limits)
    \/ \E limits \in Limits : UpdatePolicy(a, limits)
    \/ TogglePause(a)
    \/ \E key \in Keys : RegisterEnclave(a, key)
    \/ \E p \in Programs : AddAllowedProgram(a, p)
    \/ \E p \in Programs : RemoveAllowedProgram(a, p)
    \/ InitiateTimelock(a)
    \/ ExecuteEscape(a)

MessageStep(a) ==
    \/ \E m \in Intents, dest \in Destinations, amount \in Amounts :
          ExecuteTransfer(a, m, dest, amount)
    \/ \E m \in Intents, target \in Programs, call \in Calls :
          ExecuteArbitraryCpi(a, m, target, call)
    \/ \E m \in Proofs, payer \in Accounts : RegisterEnclaveV2(a, m, payer)

RegistryStep(g) ==
    \/ InitMeasurementRegistry(g)
    \/ \E m \in Measurements : AddMeasurement(g, m)
    \/ \E m \in Measurements : RevokeMeasurement(g, m)
    \/ \E new \in Governors : TransferGovernor(g, new)

ChainStep ==
    \/ NextSlot
    \/ AdvanceClock
    \/ \E a \in Authorities, amount \in Amounts : Deposit(a, amount)

Next ==
    \/ \E a \in Authorities : OwnerStep(a)
    \/ \E a \in Authorities : MessageStep(a)
    \/ \E g \in Governors : RegistryStep(g)
    \/ ChainStep

Spec == Init /\ [][Next]_vars

\* The clock runs, and an authority that has a timelock pending comes back for
\* its funds.  Nothing is assumed of the enclave, the relayer or the governor.
EscapeSpec ==
    /\ Spec
    /\ WF_vars(AdvanceClock)
    /\ \A a \in Authorities : WF_vars(ExecuteEscape(a))
-----------------------------------------------------------------------------

TypeOK ==
    /\ slot \in Nat /\ now \in Nat
    /\ open \subseteq Authorities
    /\ wallet \in [Authorities -> WalletType]
    /\ policy \in [Authorities -> PolicyType]
    /\ lamports \in [Authorities -> Nat]
    /\ governor \in Accounts \cup {NoGovernor}
    /\ entries \in Seq(EntryType)
    /\ epoch \in [Authorities -> Nat]
    /\ baseSigner \in [Authorities -> Keys \cup {NoKey}]
    /\ granted \in [Authorities -> SUBSET Programs]
    /\ initiatedAt \in [Authorities -> Nat \cup {-1}]
    /\ revoked \subseteq Measurements
    /\ consumed \subseteq SpendType \cup RotationType

\* What the wallet accepted since its nonce was last zero.
ThisEpoch(a) == {r \in consumed : r.wallet = a /\ r.epoch = epoch[a]}

\* Transfers, CPIs and rotations draw on one counter (lib.rs:91, 257, 434).
\* Until the nonce is reset, each of its values below the current one was used
\* up by exactly one message, one that was signed for that value,
\* whatever is resubmitted and in whatever order.
NonceSpentInOrder ==
    \A a \in open :
        /\ \A r \in ThisEpoch(a) : r.nonce < wallet[a].nonce /\ r.msg.nonce = r.nonce
        /\ \A r, q \in ThisEpoch(a) : r.nonce = q.nonce => r = q
        /\ \A n \in 0..(wallet[a].nonce - 1) : \E r \in ThisEpoch(a) : r.nonce = n

\* No message takes effect twice, on one wallet or on two, unless the nonce it was
\* signed for came round again by a reset (verify.rs:69-78).
MessageTakesEffectOnce ==
    \A r, q \in UNION {ThisEpoch(a) : a \in open} : r.msg = q.msg => r = q

\* k was a's signer when its nonce was n: the last rotation below n installed
\* it, or none has taken place and k was there from the start.
InForce(a, n, k) ==
    LET rotations == {r \in ThisEpoch(a) : r.use = "rotation" /\ r.nonce < n}
    IN  \/ rotations = {} /\ k = baseSigner[a]
        \/ \E r \in rotations :
              r.msg.key = k /\ \A q \in rotations : q.nonce <= r.nonce

\* register_enclave_v2 "Bumps wallet.nonce on success, invalidating any in-flight
\* intents from the previous enclave" (lib.rs:397-400): everything a wallet
\* accepts is signed by the key that the latest rotation before it installed.
SpentUnderSignerInForce ==
    \A a \in open :
        /\ InForce(a, wallet[a].nonce, wallet[a].signer)
        /\ \A r \in ThisEpoch(a) :
              r.use = "spend" => InForce(a, r.nonce, r.msg.signer)

\* A wallet that exists always keeps its rent-exempt minimum, so the runtime
\* never purges it with its nonce and policy (lib.rs:81-88), save by the escape.
RentExempt == \A a \in open : lamports[a] >= RentMin

SpentByTransfer(a) ==
    /\ a \in open /\ wallet[a].active
    /\ \E r \in consumed' \ consumed :
          /\ r.wallet = a /\ r.use = "spend" /\ r.msg.kind = "transfer"
          /\ r.msg.payload.dest # a
          /\ lamports'[a] = lamports[a] - r.msg.payload.amount

EscapedAfterDelay(a) ==
    /\ initiatedAt[a] # -1
    /\ now - initiatedAt[a] >= Delay
    /\ lamports'[a] = 0

Total(balances) == FoldFunction(+, 0, balances)

\* A transfer makes no lamports and loses none, be its destination another
\* wallet, an outside account or the very wallet it draws on (lib.rs:97-98).
LamportsConserved ==
    [][\A r \in consumed' \ consumed :
          (r.use = "spend" /\ r.msg.kind = "transfer") =>
             Total(lamports') = Total(lamports) -
                (IF r.msg.payload.dest = Outside THEN r.msg.payload.amount ELSE 0)]_vars

\* Lamports leave a wallet in two ways only: a transfer intent accepted in this
\* very step, for that amount, while the wallet was not paused (lib.rs:56-99), or
\* the owner's escape, which takes all, a full delay after the owner asked for
\* it in this life of the account (lib.rs:302-312, 449-466).
FundsLeaveByIntentOrTimelock ==
    [][\A a \in Authorities : lamports'[a] < lamports[a] =>
          SpentByTransfer(a) \/ EscapedAfterDelay(a)]_vars

\* A CPI only ever targets a program that the wallet's owner named in this life
\* of the account and has not withdrawn (lib.rs:156-208, 233-240).
CpiTargetGranted ==
    [][\A r \in consumed' \ consumed :
          r.use = "spend" /\ r.msg.kind = "cpi" =>
              /\ r.msg.payload.target \in granted[r.wallet] \ {Solora}
              /\ wallet[r.wallet].active]_vars

\* Once revoked, a measurement never backs a rotation again, by whichever
\* governor and after whatever further calls (lib.rs:329-379, 421-430).
RevocationIsFinal ==
    [][\A r \in consumed' \ consumed :
          r.use = "rotation" => r.msg.measurement \notin revoked]_vars

\* No step of the enclave, the relayer or the governor keeps an owner from its
\* funds: a pending timelock ends in the escape, even if the wallet is unpaused,
\* drawn on or given a new signer meanwhile (lib.rs:449-466).
EscapeReachable ==
    \A a \in Authorities :
        (a \in open /\ wallet[a].unlock > 0) ~> (a \notin open)

-----------------------------------------------------------------------------
(* Claims of the documentation that the program does not keep.             *)

\* README.md:161-163 wants the wallet authority's signature on a rotation;
\* the accounts of register_enclave_v2 (lib.rs:617-635) do not.
RotationCosigned == \A r \in consumed : r.use = "rotation" => r.payer = r.wallet

\* docs/trust_model.md:71-74: a captured intent cannot be replayed.  It can
\* after register_enclave reset the nonce (lib.rs:147), while it is fresh.
IntentNeverReplayed ==
    \A r, q \in consumed : r.use = "spend" /\ r.msg = q.msg => r = q
=============================================================================
